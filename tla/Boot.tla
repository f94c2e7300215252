-------------------------------- MODULE Boot ---------------------------------
(***************************************************************************)
(* The life of the daemon (main.go): it installs and starts an embedded    *)
(* PostgreSQL, installs Aquameta in it, serves, and stops the database     *)
(* with itself.  What a boot leaves behind, whole or not, the next one     *)
(* finds.  The database server is a process of its own and survives ours;  *)
(* the library that handles it is external.                                *)
(***************************************************************************)
EXTENDS Naturals

CONSTANTS
    Extensions,    \* how many extensions are created and counted
    Bundles        \* how many core bundles are imported and checked out

ASSUME BootAssumption == Extensions \in Nat \ {0} /\ Bundles \in Nat \ {0}

VARIABLES
    config,        \* what the configuration file says
    disk,          \* what is at EmbeddedPostgresRuntimePath
    server,        \* the embedded PostgreSQL
    installed,     \* what the database holds
    main,          \* the statement main is at, or was at when the process ended
    epg,           \* main's variable: the library's handle
    fresh,         \* ~epgFilesExist
    stopper,       \* the goroutines that stop the server: each where it is
    service,       \* the goroutines of the web server and of the mount
    down,          \* "no", or who ended the process
    disturbed,     \* something outside failed during this boot (history)
    lapsed         \* a boot ended after its last extension and before its
                   \*   last checkout, or did not see an error (history)

locals == <<epg, fresh>>
vars == <<config, disk, server, installed, main, epg, fresh, stopper, service, down,
          disturbed, lapsed>>

Stages == {"config", "files", "install", "start", "starting", "database", "connect",
           "settings", "count", "extensions", "user", "import", "checkout", "serve",
           "select", "closing"}
Stoppers == {"signal", "halt", "main"}
Enders   == Stoppers \cup {"failure", "web", "mount", "killed"}

Config    == [embedded : BOOLEAN, protocol : {"http", "https", "other"}, mounts : BOOLEAN]
Installed == [database : BOOLEAN, extensions : 0..Extensions, user : BOOLEAN,
              imported : 0..Bundles, bundles : 0..Bundles]
Handle    == [started : BOOLEAN, next : 0..Extensions]

TypeOK ==
    /\ config \in Config
    /\ disk \in {"empty", "partial", "whole"}
    /\ server \in {"stopped", "starting", "running", "stopping"}
    /\ installed \in Installed
    /\ main \in Stages
    /\ epg \in Handle
    /\ fresh \in BOOLEAN
    /\ stopper \in [Stoppers -> {"none", "asked", "stopping"}]
    /\ service \in [{"web", "mount"} -> {"off", "running", "ended"}]
    /\ down \in Enders \cup {"no"}
    /\ disturbed \in BOOLEAN /\ lapsed \in BOOLEAN

Nothing    == [database |-> FALSE, extensions |-> 0, user |-> FALSE, imported |-> 0, bundles |-> 0]
NoStopper  == [s \in Stoppers |-> "none"]
NoService  == [s \in {"web", "mount"} |-> "off"]
NotStarted == [started |-> FALSE, next |-> 0]

\* A database that is not embedded is there, and empty, before the first boot.
Init ==
    /\ config \in Config
    /\ disk = "empty"
    /\ server = IF config.embedded THEN "stopped" ELSE "running"
    /\ installed = [Nothing EXCEPT !.database = ~config.embedded]
    /\ main = "config" /\ epg = NotStarted /\ fresh = FALSE
    /\ stopper = NoStopper /\ service = NoService
    /\ down = "no" /\ disturbed = FALSE /\ lapsed = FALSE

Complete == installed = [database |-> TRUE, extensions |-> Extensions, user |-> TRUE,
                         imported |-> Bundles, bundles |-> Bundles]

-----------------------------------------------------------------------------
(* The process.                                                            *)

\* log.Fatal: what was deferred is not run.
Exit(who) ==
    /\ down' = who
    /\ lapsed' = (lapsed \/ main \in {"user", "import", "checkout"})
    /\ UNCHANGED <<config, main, locals, stopper, service>>

At(stage) == down = "no" /\ main = stage /\ stopper["main"] = "none"

Goto(stage) ==
    /\ main' = stage
    /\ UNCHANGED <<config, stopper, service, down, lapsed>>

\* main calls epg.Stop.
StopFirst ==
    /\ stopper' = [stopper EXCEPT !["main"] = "asked"]
    /\ UNCHANGED <<config, main, locals, service, down, lapsed>>

Fine    == UNCHANGED disturbed
Failing == disturbed' = TRUE

\* A query may still be answered while the server stops; when it fails then,
\* nothing outside is to blame.
Answered == server \in {"running", "stopping"} /\ Fine
Refused  == IF server = "running" THEN Failing ELSE Fine

\* Somebody starts the daemon again.
Boot ==
    /\ down # "no" /\ down' = "no"
    /\ main' = "config" /\ epg' = NotStarted /\ fresh' = FALSE
    /\ stopper' = NoStopper /\ service' = NoService
    /\ disturbed' = FALSE
    /\ UNCHANGED <<config, disk, server, installed, lapsed>>

LoadConfig ==
    /\ At("config")
    /\ \/ Fine /\ Goto(IF config.embedded THEN "files" ELSE "connect")
          /\ UNCHANGED locals
       \/ Failing /\ Exit("failure")
    /\ UNCHANGED <<disk, server, installed>>

CheckFiles ==
    /\ At("files") /\ Fine
    /\ fresh' = (disk = "empty")
    /\ Goto(IF fresh' THEN "install" ELSE "start")
    /\ UNCHANGED <<disk, server, installed, epg>>

Install ==
    /\ At("install")
    /\ \/ Fine /\ disk' = "whole" /\ Goto("start") /\ UNCHANGED locals
       \/ Failing /\ disk' \in {"empty", "partial"} /\ Exit("failure")
    /\ UNCHANGED <<server, installed>>

\* A server that runs already keeps its port.
Start ==
    /\ At("start") /\ Fine
    /\ IF disk = "whole" /\ server = "stopped"
       THEN server' = "starting" /\ Goto("starting") /\ UNCHANGED locals
       ELSE Exit("failure") /\ UNCHANGED server
    /\ UNCHANGED <<disk, installed>>

\* The library returns, when the server is up or its time is over.
Started ==
    /\ At("starting")
    /\ \/ /\ server = "running" /\ Fine
          /\ epg' = [epg EXCEPT !.started = TRUE]
          /\ Goto(IF fresh THEN "database" ELSE "connect")
          /\ UNCHANGED fresh
       \/ Failing /\ Exit("failure")
    /\ UNCHANGED <<disk, server, installed>>

\* An error is ignored.
CreateDatabase ==
    /\ At("database")
    /\ \/ Answered /\ installed' = [installed EXCEPT !.database = TRUE]
       \/ Refused /\ UNCHANGED installed
    /\ Goto("connect")
    /\ UNCHANGED <<disk, server, locals>>

\* The server stays behind.
Connect ==
    /\ At("connect")
    /\ \/ installed.database /\ Answered /\ Goto("settings") /\ UNCHANGED locals
       \/ (IF installed.database THEN Refused ELSE Fine) /\ Exit("failure")
    /\ UNCHANGED <<disk, server, installed>>

Settings ==
    /\ At("settings")
    /\ \/ Answered /\ Goto("count") /\ UNCHANGED locals
       \/ Refused /\ StopFirst
    /\ UNCHANGED <<disk, server, installed>>

-----------------------------------------------------------------------------
(* The installation, which is attempted unless all extensions are there.   *)

\* Broken variant: any extension will do.
CountAny ==
    /\ At("count") /\ Answered
    /\ Goto(IF installed.extensions > 0 THEN "serve" ELSE "extensions")
    /\ epg' = [epg EXCEPT !.next = 0]
    /\ UNCHANGED <<disk, server, installed, fresh>>

\* Broken variant: the number is never the expected one.
CountNever ==
    /\ At("count") /\ (Answered \/ Refused)
    /\ Goto("extensions")
    /\ epg' = [epg EXCEPT !.next = 0]
    /\ UNCHANGED <<disk, server, installed, fresh>>

\* If the query fails, its error is ignored and none are counted.
Count ==
    /\ At("count")
    /\ \/ Answered /\ Goto(IF installed.extensions = Extensions THEN "serve" ELSE "extensions")
       \/ Refused /\ Goto("extensions")
    /\ epg' = [epg EXCEPT !.next = 0]
    /\ UNCHANGED <<disk, server, installed, fresh>>

\* In their order, one by one; one that exists is an error, and the call of
\* epg.Stop behind log.Fatalf is never reached.
CreateExtension ==
    /\ At("extensions")
    /\ IF epg.next < installed.extensions
       THEN Fine /\ Exit("failure") /\ UNCHANGED installed
       ELSE \/ /\ Answered
               /\ epg' = [epg EXCEPT !.next = epg.next + 1]
               /\ installed' = [installed EXCEPT !.extensions = epg.next + 1]
               /\ Goto(IF epg.next + 1 = Extensions THEN "user" ELSE "extensions")
               /\ UNCHANGED fresh
            \/ Refused /\ Exit("failure") /\ UNCHANGED installed
    /\ UNCHANGED <<disk, server>>

\* An error of the insert itself comes with its rows, which are not read.
CreateUser ==
    /\ At("user")
    /\ \/ Answered /\ installed' = [installed EXCEPT !.user = TRUE] /\ Goto("import") /\ UNCHANGED locals
       \/ /\ Refused /\ lapsed' = TRUE /\ main' = "import"
          /\ UNCHANGED <<config, stopper, service, down, installed, locals>>
       \/ Refused /\ Exit("failure") /\ UNCHANGED installed
    /\ UNCHANGED <<disk, server>>

ImportBundle ==
    /\ At("import")
    /\ \/ /\ Answered /\ installed' = [installed EXCEPT !.imported = @ + 1]
          /\ Goto("checkout") /\ UNCHANGED locals
       \/ /\ Refused /\ UNCHANGED installed
          /\ IF config.embedded THEN StopFirst ELSE Exit("failure")
    /\ UNCHANGED <<disk, server>>

\* Broken variant: the loop ends with the first bundle.
CheckoutOne ==
    /\ At("checkout") /\ Answered
    /\ installed' = [installed EXCEPT !.bundles = installed.imported]
    /\ Goto("serve")
    /\ UNCHANGED <<disk, server, locals>>

Checkout ==
    /\ At("checkout")
    /\ \/ /\ Answered /\ installed' = [installed EXCEPT !.bundles = installed.imported]
          /\ Goto(IF installed.imported = Bundles THEN "serve" ELSE "import")
          /\ UNCHANGED locals
       \/ Refused /\ Exit("failure") /\ UNCHANGED installed
    /\ UNCHANGED <<disk, server>>

-----------------------------------------------------------------------------
(* Serving, and the ways it ends.                                          *)

Serve ==
    /\ At("serve") /\ Fine
    /\ main' = "select"
    /\ service' = [web |-> "running", mount |-> IF config.mounts THEN "running" ELSE "off"]
    /\ UNCHANGED <<config, disk, server, installed, locals, stopper, down, lapsed>>

\* With https, and with an unknown protocol, the goroutine ends the process.
WebEnds ==
    /\ down = "no" /\ service["web"] = "running"
    /\ IF config.protocol = "http"
       THEN /\ service' = [service EXCEPT !["web"] = "ended"]
            /\ UNCHANGED <<config, main, locals, stopper, down, lapsed>>
       ELSE Exit("web")
    /\ UNCHANGED <<disk, server, installed, disturbed>>

\* It is unmounted, or could not be mounted or served.
MountEnds ==
    /\ down = "no" /\ service["mount"] = "running"
    /\ \/ /\ service' = [service EXCEPT !["mount"] = "ended"]
          /\ UNCHANGED <<config, main, locals, stopper, down, lapsed>>
       \/ Exit("mount")
    /\ UNCHANGED <<disk, server, installed, disturbed>>

Select ==
    /\ At("select") /\ \E s \in {"web", "mount"} : service[s] = "ended"
    /\ Fine
    /\ main' = "closing"
    /\ UNCHANGED <<config, disk, server, installed, locals, stopper, service, down, lapsed>>

Close ==
    /\ At("closing") /\ Fine
    /\ IF config.embedded THEN StopFirst ELSE Exit("main")
    /\ UNCHANGED <<disk, server, installed>>

\* A signal is caught at any time; a request to halt while there are handlers.
Ask(s) ==
    /\ down = "no" /\ stopper[s] = "none"
    /\ s = "signal" \/ (s = "halt" /\ service["web"] = "running")
    /\ stopper' = [stopper EXCEPT ![s] = "asked"]
    /\ UNCHANGED <<config, disk, server, installed, main, locals, service, down, disturbed, lapsed>>

\* Broken variants: the process ends only with the server; or without it.
StopStarted(s) ==
    /\ down = "no" /\ stopper[s] = "asked" /\ epg.started
    /\ stopper' = [stopper EXCEPT ![s] = "stopping"]
    /\ server' = IF server = "running" THEN "stopping" ELSE server
    /\ UNCHANGED <<config, main, locals, service, down, lapsed, disk, installed, disturbed>>

StopWithout(s) ==
    /\ down = "no" /\ stopper[s] = "asked"
    /\ Exit(s)
    /\ UNCHANGED <<disk, server, installed, disturbed>>

\* Nothing is stopped that this process has not started: not even a server
\* that the library has not finished starting.
Stop(s) ==
    /\ down = "no" /\ stopper[s] = "asked"
    /\ IF epg.started
       THEN /\ stopper' = [stopper EXCEPT ![s] = "stopping"]
            /\ server' = IF server = "running" THEN "stopping" ELSE server
            /\ UNCHANGED <<config, main, locals, service, down, lapsed>>
       ELSE Exit(s) /\ UNCHANGED server
    /\ UNCHANGED <<disk, installed, disturbed>>

\* Of two goroutines that stop the server, one may be refused at once.
Stopped(s) ==
    /\ down = "no" /\ stopper[s] = "stopping"
    /\ \/ Fine /\ (server = "stopped" \/ \E t \in Stoppers \ {s} : stopper[t] = "stopping")
       \/ Failing
    /\ Exit(s)
    /\ UNCHANGED <<disk, server, installed>>

-----------------------------------------------------------------------------
(* The world around.                                                       *)

rest == <<config, disk, installed, main, locals, stopper, service, lapsed>>

\* The server does what it was told, with the daemon or without it.
ServerUp      == server = "starting" /\ server' = "running" /\ UNCHANGED <<rest, down, disturbed>>
ServerStopped == server = "stopping" /\ server' = "stopped" /\ UNCHANGED <<rest, down, disturbed>>

\* It is stopped by others, or dies.
ServerDies ==
    /\ config.embedded /\ server # "stopped" /\ server' = "stopped"
    /\ Failing
    /\ UNCHANGED <<rest, down>>

\* The process is killed, perhaps with all others of the machine.
Killed ==
    /\ down = "no" /\ Failing
    /\ server' \in {server, IF config.embedded THEN "stopped" ELSE server}
    /\ Exit("killed")
    /\ UNCHANGED <<disk, installed>>

Main == \/ LoadConfig \/ CheckFiles \/ Install \/ Start \/ Started \/ CreateDatabase
        \/ Connect \/ Settings \/ Count \/ CreateExtension \/ CreateUser
        \/ ImportBundle \/ Checkout \/ Serve \/ Select \/ Close

Next == \/ Boot \/ Main \/ WebEnds \/ MountEnds
        \/ \E s \in Stoppers : Ask(s) \/ Stop(s) \/ Stopped(s)
        \/ ServerUp \/ ServerStopped \/ ServerDies \/ Killed

\* Goroutines run on, and a server comes up or stops once told to.
FairStop(s)  == WF_vars(Stop(s)) /\ WF_vars(Stopped(s))
FairStoppers == \A s \in Stoppers : FairStop(s)
Fairness     == WF_vars(Main) /\ FairStoppers /\ WF_vars(ServerUp) /\ WF_vars(ServerStopped)

Spec     == Init /\ [][Next]_vars
FairSpec == Spec /\ Fairness
=============================================================================
