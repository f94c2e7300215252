------------------------------ MODULE BootProofs -----------------------------
(***************************************************************************)
(* Proofs about module Boot, for any number of extensions and bundles and  *)
(* any number of boots.                                                    *)
(***************************************************************************)
EXTENDS BootProperties, TLAPS

Early     == {"config", "files", "install", "start", "starting"}
Filling   == {"user", "import", "checkout"}
After     == {"serve", "select", "closing"}
Up(stage) == down = "no" /\ main = stage
Halting   == \E s \in Stoppers : stopper[s] = "stopping"
Filled    == installed.user /\ installed.imported = Bundles /\ installed.bundles = Bundles

\* What is installed, by the statement main is at.
Progress ==
    /\ installed.extensions < Extensions =>
          ~installed.user /\ installed.imported = 0 /\ installed.bundles = 0
    /\ installed.extensions > 0 => installed.database
    /\ main \in {"settings", "count", "extensions"} \cup Filling \cup After => installed.database
    /\ main \in Filling \cup After => installed.extensions = Extensions
    /\ Up("extensions") => epg.next < Extensions /\ epg.next <= installed.extensions
    /\ Up("user") => installed.imported = 0 /\ installed.bundles = 0
    /\ Up("import") => installed.imported < Bundles /\ installed.bundles = installed.imported
    /\ Up("checkout") => installed.imported = installed.bundles + 1
    /\ down # "no" /\ main \in Filling => lapsed
    /\ main \in {"import", "checkout"} /\ ~lapsed => installed.user
    /\ ~lapsed /\ main \notin Filling /\ installed.extensions = Extensions => Filled

\* The server, by what this boot has done with it.
Handling ==
    /\ ~config.embedded => server = "running" /\ installed.database /\ main \notin Early \ {"config"}
    /\ down = "no" /\ config.embedded /\ main \notin Early => epg.started
    /\ down = "no" /\ epg.started => config.embedded /\ server # "starting" /\ main \notin Early
    /\ down = "no" /\ epg.started /\ server = "running" => ~Halting
    /\ down = "no" /\ Halting => epg.started
    /\ down = "no" /\ epg.started /\ ~disturbed /\ server # "running" => Halting

\* What an undisturbed boot finds only if it is stopped meanwhile.
Finding ==
    /\ Up("start") => disk # "empty" /\ config.embedded
    /\ Up("connect") /\ ~disturbed /\ fresh /\ ~installed.database => Halting
    /\ Up("extensions") /\ ~disturbed /\ installed.extensions = Extensions => Halting

BootInv == TypeOK /\ Progress /\ Handling /\ Finding /\ CleanStop

(* A daemon that has never run is in order.                                *)
LEMMA InitSafe ==
  ASSUME Init PROVE BootInv
  <1> USE BootAssumption DEF BootAssumption
  <1>0. Nothing \in Installed  BY DEF Installed, Nothing
  <1>1. installed \in Installed
    <2>1. CASE config.embedded
      <3>1. installed = [Nothing EXCEPT !.database = FALSE]  BY <2>1 DEF Init
      <3> QED  BY <1>0, <3>1 DEF Installed
    <2>2. CASE ~config.embedded
      <3>1. installed = [Nothing EXCEPT !.database = TRUE]  BY <2>2 DEF Init
      <3> QED  BY <1>0, <3>1 DEF Installed
    <2> QED  BY <2>1, <2>2
  <1>2. installed.extensions = 0 /\ installed.database = ~config.embedded
        /\ ~installed.user /\ installed.imported = 0 /\ installed.bundles = 0
    BY DEF Init, Nothing
  <1>3. epg \in Handle /\ ~epg.started  BY DEF Init, NotStarted, Handle
  <1>4. TypeOK
    BY <1>1, <1>3 DEF Init, TypeOK, NoStopper, NoService, Stages, Stoppers, Enders, Config
  <1>5. ~Halting  BY DEF Init, NoStopper, Halting
  <1>6. Progress
    BY <1>2 DEF Init, Progress, Up, Filling, After
  <1>7. Handling /\ Finding
    BY <1>2, <1>3, <1>5 DEF Init, Handling, Finding, Up, Early, Config
  <1>8. CleanStop  BY DEF Init, CleanStop, Stoppers
  <1> QED  BY <1>4, <1>6, <1>7, <1>8 DEF BootInv

-----------------------------------------------------------------------------
(* The end of the process, for whatever reason but a stopper's.            *)
LEMMA ExitSafe ==
  ASSUME BootInv, down = "no", NEW who \in Enders \ Stoppers, Exit(who), UNCHANGED installed,
         disk' \in {"empty", "partial", "whole"}, disturbed' \in BOOLEAN,
         server' \in {"stopped", "starting", "running", "stopping"},
         server' = server \/ config.embedded
  PROVE  BootInv'
  <1> USE BootAssumption DEF BootAssumption, BootInv, Exit, locals
  <1>1. TypeOK'  BY DEF TypeOK
  <1>2. Progress'  BY DEF Progress, Up, TypeOK, Filling, Filled, After, Enders
  <1>3. Handling' /\ Finding'  BY DEF Handling, Finding, Up, Enders, Early
  <1>4. CleanStop'  BY DEF CleanStop
  <1> QED  BY <1>1, <1>2, <1>3, <1>4

(* A stopper ends the process: the server is stopped or was not started.   *)
LEMMA StopperExits ==
  ASSUME BootInv, down = "no", NEW who \in Stoppers, Exit(who), UNCHANGED <<installed, disk, server>>,
         disturbed' \in BOOLEAN, disturbed => disturbed',
         ~epg.started \/ Halting
  PROVE  BootInv'
  <1> USE BootAssumption DEF BootAssumption, BootInv, Exit, locals
  <1>1. TypeOK'  BY DEF TypeOK, Enders
  <1>2. Progress'  BY DEF Progress, Up, TypeOK, Filling, Filled, After, Stoppers
  <1>3. Handling' /\ Finding'  BY DEF Handling, Finding, Up, Stoppers, Early
  <1>4. CleanStop'
    <2> SUFFICES ASSUME config.embedded, main \notin Early
                 PROVE  server \in {"stopping", "stopped"}
      BY DEF CleanStop, Early
    <2>1. epg.started /\ Halting  BY DEF Handling
    <2> QED  BY <2>1 DEF Handling, TypeOK
  <1> QED  BY <1>1, <1>2, <1>3, <1>4

-----------------------------------------------------------------------------
(* One lemma for each step of main.  A step that fails is ExitSafe's.      *)

LEMMA BootSafe ==
  ASSUME BootInv, Boot PROVE BootInv'
  <1> USE BootAssumption DEF BootAssumption, BootInv, Boot
  <1>1. ~epg'.started /\ epg' \in Handle  BY DEF NotStarted, Handle
  <1>2. ~Halting'  BY DEF NoStopper, Halting
  <1>3. TypeOK'  BY <1>1 DEF TypeOK, NoStopper, NoService, Stages, Stoppers, Enders
  <1>4. Progress'  BY DEF Progress, Up, Filling, After, Filled, TypeOK
  <1>5. Handling' /\ Finding'  BY <1>1, <1>2 DEF Handling, Finding, Up, Early
  <1>6. CleanStop'  BY DEF CleanStop, Stoppers
  <1> QED  BY <1>3, <1>4, <1>5, <1>6

LEMMA LoadConfigSafe ==
  ASSUME BootInv, LoadConfig PROVE BootInv'
  <1>1. CASE Failing /\ Exit("failure")
    BY <1>1, ExitSafe DEF LoadConfig, At, Failing, Enders, Stoppers, BootInv, TypeOK
  <1>2. CASE Fine /\ Goto(IF config.embedded THEN "files" ELSE "connect") /\ UNCHANGED locals
    <2> USE <1>2, BootAssumption
            DEF BootAssumption, BootInv, LoadConfig, At, Fine, Goto, locals
    <2>1. TypeOK'  BY DEF TypeOK, Stages
    <2>2. Progress'  BY DEF Progress, Up, Filling, After, Filled, TypeOK
    <2>3. Handling' /\ Finding'  BY DEF Handling, Finding, Up, Early, Halting
    <2>4. CleanStop'  BY DEF CleanStop, Stoppers
    <2> QED  BY <2>1, <2>2, <2>3, <2>4
  <1> QED  BY <1>1, <1>2 DEF LoadConfig

LEMMA CheckFilesSafe ==
  ASSUME BootInv, CheckFiles PROVE BootInv'
  <1> USE BootAssumption
          DEF BootAssumption, BootInv, CheckFiles, At, Fine, Goto, locals
  <1>1. TypeOK'  BY DEF TypeOK, Stages
  <1>2. Progress'  BY DEF Progress, Up, Filling, After, Filled, TypeOK
  <1>3. config.embedded  BY DEF Handling, Early
  <1>4. Handling' /\ Finding'  BY <1>3 DEF Handling, Finding, Up, Early, Halting
  <1>5. CleanStop'  BY DEF CleanStop, Stoppers
  <1> QED  BY <1>1, <1>2, <1>4, <1>5

LEMMA InstallSafe ==
  ASSUME BootInv, Install PROVE BootInv'
  <1>1. CASE Failing /\ disk' \in {"empty", "partial"} /\ Exit("failure")
    BY <1>1, ExitSafe DEF Install, At, Failing, Enders, Stoppers, BootInv, TypeOK
  <1>2. CASE Fine /\ disk' = "whole" /\ Goto("start") /\ UNCHANGED locals
    <2> USE <1>2, BootAssumption
            DEF BootAssumption, BootInv, Install, At, Fine, Goto, locals
    <2>1. TypeOK'  BY DEF TypeOK, Stages
    <2>2. Progress'  BY DEF Progress, Up, Filling, After, Filled, TypeOK
    <2>3. config.embedded  BY DEF Handling, Early
    <2>4. Handling' /\ Finding'  BY <2>3 DEF Handling, Finding, Up, Early, Halting
    <2>5. CleanStop'  BY DEF CleanStop, Stoppers
    <2> QED  BY <2>1, <2>2, <2>4, <2>5
  <1> QED  BY <1>1, <1>2 DEF Install

LEMMA StartSafe ==
  ASSUME BootInv, Start PROVE BootInv'
  <1>1. CASE ~(disk = "whole" /\ server = "stopped")
    BY <1>1, ExitSafe DEF Start, At, Fine, Enders, Stoppers, BootInv, TypeOK
  <1>2. CASE disk = "whole" /\ server = "stopped"
    <2> USE <1>2, BootAssumption
            DEF BootAssumption, BootInv, Start, At, Fine, Goto, locals
    <2>1. TypeOK'  BY DEF TypeOK, Stages
    <2>2. Progress'  BY DEF Progress, Up, Filling, After, Filled, TypeOK
    <2>3. config.embedded /\ ~epg.started  BY DEF Handling, Early
    <2>4. Handling' /\ Finding'  BY <2>3 DEF Handling, Finding, Up, Early, Halting
    <2>5. CleanStop'  BY DEF CleanStop, Stoppers
    <2> QED  BY <2>1, <2>2, <2>4, <2>5
  <1> QED  BY <1>1, <1>2

LEMMA StartedSafe ==
  ASSUME BootInv, Started PROVE BootInv'
  <1>1. CASE Failing /\ Exit("failure")
    BY <1>1, ExitSafe DEF Started, At, Failing, Enders, Stoppers, BootInv, TypeOK
  <1>2. CASE /\ server = "running" /\ Fine
             /\ epg' = [epg EXCEPT !.started = TRUE]
             /\ Goto(IF fresh THEN "database" ELSE "connect")
             /\ UNCHANGED fresh
    <2> USE <1>2, BootAssumption DEF BootAssumption, BootInv, Started, At, Fine, Goto
    <2>1. epg' \in Handle /\ epg'.started /\ epg'.next = epg.next  BY DEF TypeOK, Handle
    <2>2. TypeOK'  BY <2>1 DEF TypeOK, Stages
    <2>3. Progress'  BY DEF Progress, Up, Filling, After, Filled, TypeOK
    <2>4. config.embedded /\ ~epg.started /\ ~Halting  BY DEF Handling, Early
    <2>5. ~Halting'  BY <2>4 DEF Halting
    <2>6. Handling'  BY <2>1, <2>4, <2>5 DEF Handling, Early
    <2>7. Finding'
      <3>1. Up("connect")' => ~fresh'  BY DEF Up, TypeOK
      <3> QED  BY <3>1 DEF Finding, Up
    <2>8. CleanStop'  BY DEF CleanStop, Stoppers
    <2> QED  BY <2>2, <2>3, <2>6, <2>7, <2>8
  <1> QED  BY <1>1, <1>2 DEF Started

(* Why a query can fail though nothing outside has: the server is being    *)
(* stopped by this process.                                                *)
LEMMA RefusedFor ==
  ASSUME BootInv, down = "no", main \notin Early, Refused
  PROVE  /\ disturbed' \in BOOLEAN /\ (disturbed => disturbed')
         /\ ~disturbed' => Halting
  <1>1. CASE server = "running"
    BY <1>1 DEF Refused, Failing, BootInv, TypeOK
  <1>2. CASE server # "running"
    <2>1. UNCHANGED disturbed  BY <1>2 DEF Refused, Fine
    <2>2. config.embedded  BY <1>2 DEF BootInv, Handling
    <2>3. epg.started  BY <2>2 DEF BootInv, Handling
    <2> QED  BY <1>2, <2>1, <2>3 DEF BootInv, Handling, TypeOK
  <1> QED  BY <1>1, <1>2

(* Such an exit.                                                           *)
LEMMA RefusedExit ==
  ASSUME BootInv, down = "no", main \notin Early, Refused, Exit("failure"),
         UNCHANGED <<disk, server, installed>>
  PROVE  BootInv'
  BY RefusedFor, ExitSafe DEF Enders, Stoppers, BootInv, TypeOK

(* main asks for the server to be stopped.                                 *)
LEMMA StopFirstSafe ==
  ASSUME BootInv, down = "no", main \notin Early, stopper["main"] = "none", StopFirst,
         UNCHANGED <<disk, server, installed>>,
         disturbed' \in BOOLEAN, disturbed => disturbed'
  PROVE  BootInv'
  <1> USE BootAssumption DEF BootAssumption, BootInv, StopFirst, locals
  <1>1. stopper' \in [Stoppers -> {"none", "asked", "stopping"}]  BY DEF TypeOK
  <1>2. Halting' <=> Halting  BY DEF Halting, TypeOK, Stoppers
  <1>3. TypeOK'  BY <1>1 DEF TypeOK
  <1>4. Progress'  BY DEF Progress, Up, Filling, After, Filled, TypeOK
  <1>5. Handling' /\ Finding'  BY <1>2 DEF Handling, Finding, Up, Early
  <1>6. CleanStop'  BY DEF CleanStop, Stoppers
  <1> QED  BY <1>3, <1>4, <1>5, <1>6

LEMMA CreateDatabaseSafe ==
  ASSUME BootInv, CreateDatabase PROVE BootInv'
  <1> USE BootAssumption
          DEF BootAssumption, BootInv, CreateDatabase, At, Goto, locals
  <1>0. config.embedded /\ ~installed.database => installed.extensions = 0
    BY DEF Progress, TypeOK, Installed
  <1>1. CASE Answered /\ installed' = [installed EXCEPT !.database = TRUE]
    <2>1. /\ installed' \in Installed /\ installed'.database
          /\ installed'.extensions = installed.extensions /\ installed'.user = installed.user
          /\ installed'.imported = installed.imported /\ installed'.bundles = installed.bundles
      BY <1>1 DEF TypeOK, Installed
    <2>2. UNCHANGED disturbed  BY <1>1 DEF Answered, Fine
    <2>3. TypeOK'  BY <2>1, <2>2 DEF TypeOK, Stages
    <2>4. Progress'  BY <2>1 DEF Progress, Up, Filling, After, Filled, TypeOK
    <2>5. Handling' /\ Finding'  BY <2>1, <2>2 DEF Handling, Finding, Up, Early, Halting
    <2>6. CleanStop'  BY DEF CleanStop, Stoppers
    <2> QED  BY <2>3, <2>4, <2>5, <2>6
  <1>2. CASE Refused /\ UNCHANGED installed
    <2>1. disturbed' \in BOOLEAN /\ (disturbed => disturbed') /\ (~disturbed' => Halting)
      BY <1>2, RefusedFor DEF Early
    <2>2. TypeOK'  BY <1>2, <2>1 DEF TypeOK, Stages
    <2>3. Progress'  BY <1>2 DEF Progress, Up, Filling, After, Filled, TypeOK
    <2>4. Halting' <=> Halting  BY DEF Halting
    <2>5. Handling' /\ Finding'  BY <1>2, <2>1, <2>4 DEF Handling, Finding, Up, Early
    <2>6. CleanStop'  BY DEF CleanStop, Stoppers
    <2> QED  BY <2>2, <2>3, <2>5, <2>6
  <1> QED  BY <1>1, <1>2

LEMMA ConnectSafe ==
  ASSUME BootInv, Connect PROVE BootInv'
  <1>0. down = "no" /\ main \notin Early /\ main = "connect" /\ UNCHANGED <<disk, server, installed>>
    BY DEF Connect, At, Early
  <1>1. CASE installed.database /\ Refused /\ Exit("failure")
    BY <1>0, <1>1, RefusedExit
  <1>2. CASE ~installed.database /\ Fine /\ Exit("failure")
    BY <1>0, <1>2, ExitSafe DEF Fine, Enders, Stoppers, BootInv, TypeOK
  <1>3. CASE installed.database /\ Answered /\ Goto("settings") /\ UNCHANGED locals
    <2> USE <1>0, <1>3, BootAssumption
            DEF BootAssumption, BootInv, Answered, Fine, Goto, locals
    <2>1. TypeOK'  BY DEF TypeOK, Stages
    <2>2. Progress'  BY DEF Progress, Up, Filling, After, Filled, TypeOK
    <2>3. Handling' /\ Finding'  BY DEF Handling, Finding, Up, Early, Halting
    <2>4. CleanStop'  BY DEF CleanStop, Stoppers
    <2> QED  BY <2>1, <2>2, <2>3, <2>4
  <1> QED  BY <1>1, <1>2, <1>3 DEF Connect

LEMMA SettingsSafe ==
  ASSUME BootInv, Settings PROVE BootInv'
  <1>0. down = "no" /\ main \notin Early /\ main = "settings" /\ stopper["main"] = "none"
        /\ UNCHANGED <<disk, server, installed>>
    BY DEF Settings, At, Early
  <1>1. CASE Refused /\ StopFirst
    BY <1>0, <1>1, RefusedFor, StopFirstSafe
  <1>2. CASE Answered /\ Goto("count") /\ UNCHANGED locals
    <2> USE <1>0, <1>2, BootAssumption
            DEF BootAssumption, BootInv, Answered, Fine, Goto, locals
    <2>1. TypeOK'  BY DEF TypeOK, Stages
    <2>2. Progress'  BY DEF Progress, Up, Filling, After, Filled, TypeOK
    <2>3. Handling' /\ Finding'  BY DEF Handling, Finding, Up, Early, Halting
    <2>4. CleanStop'  BY DEF CleanStop, Stoppers
    <2> QED  BY <2>1, <2>2, <2>3, <2>4
  <1> QED  BY <1>1, <1>2 DEF Settings

-----------------------------------------------------------------------------
(* The installation.                                                       *)

LEMMA CountSafe ==
  ASSUME BootInv, Count PROVE BootInv'
  <1> USE BootAssumption DEF BootAssumption, BootInv, Count, At, Goto
  <1>0. /\ down = "no" /\ main \notin Early /\ main = "count"
        /\ UNCHANGED <<disk, server, installed, config, stopper, service, down, lapsed, fresh>>
    BY DEF Early
  <1>1. epg' \in Handle /\ epg'.next = 0 /\ epg'.started = epg.started
    BY DEF TypeOK, Handle
  <1>2. /\ disturbed' \in BOOLEAN /\ (disturbed => disturbed')
        /\ ~disturbed' => Halting \/ main' = "serve" \/ installed.extensions # Extensions
        /\ main' \in {"serve", "extensions"}
        /\ main' = "serve" => installed.extensions = Extensions
    BY <1>0, RefusedFor DEF Answered, Fine, TypeOK
  <1>3. TypeOK'  BY <1>0, <1>1, <1>2 DEF TypeOK, Stages
  <1>4. Progress'
    BY <1>0, <1>1, <1>2 DEF Progress, Up, Filling, After, Filled, TypeOK, Installed
  <1>5. Halting' <=> Halting  BY <1>0 DEF Halting
  <1>6. Handling'
    BY <1>0, <1>1, <1>2, <1>5 DEF Handling, Early
  <1>7. Finding'
    BY <1>0, <1>2, <1>5 DEF Finding, Up
  <1>8. CleanStop'  BY <1>0 DEF CleanStop, Stoppers
  <1> QED  BY <1>3, <1>4, <1>6, <1>7, <1>8

LEMMA CreateExtensionSafe ==
  ASSUME BootInv, CreateExtension PROVE BootInv'
  <1>0. down = "no" /\ main \notin Early /\ main = "extensions" /\ UNCHANGED <<disk, server>>
    BY DEF CreateExtension, At, Early
  <1>1. CASE Fine /\ Exit("failure") /\ UNCHANGED installed
    BY <1>0, <1>1, ExitSafe DEF Fine, Enders, Stoppers, BootInv, TypeOK
  <1>2. CASE Refused /\ Exit("failure") /\ UNCHANGED installed
    BY <1>0, <1>2, RefusedExit
  <1>3. CASE /\ ~(epg.next < installed.extensions)
             /\ Answered
             /\ epg' = [epg EXCEPT !.next = epg.next + 1]
             /\ installed' = [installed EXCEPT !.extensions = epg.next + 1]
             /\ Goto(IF epg.next + 1 = Extensions THEN "user" ELSE "extensions")
             /\ UNCHANGED fresh
    <2> USE <1>0, <1>3, BootAssumption DEF BootAssumption, BootInv, Answered, Fine, Goto
    <2>1. /\ epg.next \in 0..Extensions /\ installed.extensions \in 0..Extensions
          /\ epg.next < Extensions /\ epg.next = installed.extensions /\ epg.next + 1 \in 0..Extensions
      BY DEF Progress, Up, TypeOK, Handle, Installed
    <2>2. /\ installed' \in Installed /\ installed'.database = installed.database
          /\ installed'.extensions = epg.next + 1 /\ installed'.user = installed.user
          /\ installed'.imported = installed.imported /\ installed'.bundles = installed.bundles
      BY <2>1 DEF TypeOK, Installed
    <2>3. epg' \in Handle /\ epg'.next = epg.next + 1 /\ epg'.started = epg.started
      BY <2>1 DEF TypeOK, Handle
    <2>4. TypeOK'  BY <2>2, <2>3 DEF TypeOK, Stages
    <2>5. Progress'
      BY <2>1, <2>2, <2>3 DEF Progress, Up, Filling, After, Filled
    <2>6. Halting' <=> Halting  BY DEF Halting
    <2>7. Handling'  BY <2>2, <2>3, <2>6 DEF Handling, Early
    <2>8. Finding'  BY <2>1, <2>2, <2>6 DEF Finding, Up
    <2>9. CleanStop'  BY DEF CleanStop, Stoppers, TypeOK
    <2> QED  BY <2>4, <2>5, <2>7, <2>8, <2>9
  <1> QED  BY <1>1, <1>2, <1>3 DEF CreateExtension

LEMMA CreateUserSafe ==
  ASSUME BootInv, CreateUser PROVE BootInv'
  <1>0. down = "no" /\ main \notin Early /\ main = "user" /\ UNCHANGED <<disk, server>>
    BY DEF CreateUser, At, Early
  <1>1. CASE Refused /\ Exit("failure") /\ UNCHANGED installed
    BY <1>0, <1>1, RefusedExit
  <1>2. CASE Answered /\ installed' = [installed EXCEPT !.user = TRUE] /\ Goto("import") /\ UNCHANGED locals
    <2> USE <1>0, <1>2, BootAssumption
            DEF BootAssumption, BootInv, Answered, Fine, Goto, locals
    <2>1. /\ installed' \in Installed /\ installed'.database = installed.database
          /\ installed'.extensions = installed.extensions /\ installed'.user
          /\ installed'.imported = installed.imported /\ installed'.bundles = installed.bundles
      BY DEF TypeOK, Installed
    <2>2. TypeOK'  BY <2>1 DEF TypeOK, Stages
    <2>3. Progress'  BY <2>1 DEF Progress, Up, Filling, After, Filled
    <2>4. Handling' /\ Finding'  BY <2>1 DEF Handling, Finding, Up, Early, Halting
    <2>5. CleanStop'  BY DEF CleanStop, Stoppers, TypeOK
    <2> QED  BY <2>2, <2>3, <2>4, <2>5
  <1>3. CASE /\ Refused /\ lapsed' = TRUE /\ main' = "import"
             /\ UNCHANGED <<config, stopper, service, down, installed, locals>>
    <2> USE <1>0, <1>3, BootAssumption DEF BootAssumption, BootInv, locals
    <2>1. disturbed' \in BOOLEAN /\ (disturbed => disturbed')  BY RefusedFor
    <2>2. TypeOK'  BY <2>1 DEF TypeOK, Stages
    <2>3. Progress'  BY DEF Progress, Up, Filling, After, Filled
    <2>4. Handling' /\ Finding'  BY <2>1 DEF Handling, Finding, Up, Early, Halting
    <2>5. CleanStop'  BY DEF CleanStop, Stoppers, TypeOK
    <2> QED  BY <2>2, <2>3, <2>4, <2>5
  <1> QED  BY <1>1, <1>2, <1>3 DEF CreateUser

LEMMA ImportBundleSafe ==
  ASSUME BootInv, ImportBundle PROVE BootInv'
  <1>0. down = "no" /\ main \notin Early /\ main = "import" /\ stopper["main"] = "none"
        /\ UNCHANGED <<disk, server>>
    BY DEF ImportBundle, At, Early
  <1>1. CASE Refused /\ UNCHANGED installed /\ StopFirst
    BY <1>0, <1>1, RefusedFor, StopFirstSafe
  <1>2. CASE Refused /\ UNCHANGED installed /\ Exit("failure")
    BY <1>0, <1>2, RefusedExit
  <1>3. CASE /\ Answered /\ installed' = [installed EXCEPT !.imported = @ + 1]
             /\ Goto("checkout") /\ UNCHANGED locals
    <2> USE <1>0, <1>3, BootAssumption
            DEF BootAssumption, BootInv, Answered, Fine, Goto, locals
    <2>1. installed.imported \in 0..Bundles /\ installed.imported + 1 \in 0..Bundles
          /\ installed.bundles = installed.imported
      BY DEF Progress, Up, TypeOK, Installed
    <2>2. /\ installed' \in Installed /\ installed'.database = installed.database
          /\ installed'.extensions = installed.extensions /\ installed'.user = installed.user
          /\ installed'.imported = installed.imported + 1 /\ installed'.bundles = installed.bundles
      BY <2>1 DEF TypeOK, Installed
    <2>3. TypeOK'  BY <2>2 DEF TypeOK, Stages
    <2>4. Progress'  BY <2>1, <2>2 DEF Progress, Up, Filling, After, Filled
    <2>5. Handling' /\ Finding'  BY <2>2 DEF Handling, Finding, Up, Early, Halting
    <2>6. CleanStop'  BY DEF CleanStop, Stoppers, TypeOK
    <2> QED  BY <2>3, <2>4, <2>5, <2>6
  <1> QED  BY <1>1, <1>2, <1>3 DEF ImportBundle

LEMMA CheckoutSafe ==
  ASSUME BootInv, Checkout PROVE BootInv'
  <1>0. down = "no" /\ main \notin Early /\ main = "checkout" /\ UNCHANGED <<disk, server>>
    BY DEF Checkout, At, Early
  <1>1. CASE Refused /\ Exit("failure") /\ UNCHANGED installed
    BY <1>0, <1>1, RefusedExit
  <1>2. CASE /\ Answered /\ installed' = [installed EXCEPT !.bundles = installed.imported]
             /\ Goto(IF installed.imported = Bundles THEN "serve" ELSE "import")
             /\ UNCHANGED locals
    <2> USE <1>0, <1>2, BootAssumption
            DEF BootAssumption, BootInv, Answered, Fine, Goto, locals
    <2>1. /\ installed' \in Installed /\ installed'.database = installed.database
          /\ installed'.extensions = installed.extensions /\ installed'.user = installed.user
          /\ installed'.imported = installed.imported /\ installed'.bundles = installed.imported
          /\ installed.imported \in 0..Bundles
      BY DEF TypeOK, Installed
    <2>2. TypeOK'  BY <2>1 DEF TypeOK, Stages
    <2>3. Progress'  BY <2>1 DEF Progress, Up, Filling, After, Filled
    <2>4. Handling' /\ Finding'  BY <2>1 DEF Handling, Finding, Up, Early, Halting
    <2>5. CleanStop'  BY DEF CleanStop, Stoppers, TypeOK
    <2> QED  BY <2>2, <2>3, <2>4, <2>5
  <1> QED  BY <1>1, <1>2 DEF Checkout

-----------------------------------------------------------------------------
(* Serving and stopping.                                                   *)

LEMMA ServeSafe ==
  ASSUME BootInv, Serve PROVE BootInv'
  <1> USE BootAssumption DEF BootAssumption, BootInv, Serve, At, Fine, locals
  <1>1. TypeOK'  BY DEF TypeOK, Stages
  <1>2. Progress'  BY DEF Progress, Up, Filling, After, Filled, TypeOK
  <1>3. Handling' /\ Finding'  BY DEF Handling, Finding, Up, Early, Halting
  <1>4. CleanStop'  BY DEF CleanStop, Stoppers
  <1> QED  BY <1>1, <1>2, <1>3, <1>4

(* A goroutine of the services that ends, but not the process.             *)
LEMMA ServiceEnds ==
  ASSUME BootInv, down = "no", NEW s \in {"web", "mount"},
         service' = [service EXCEPT ![s] = "ended"],
         UNCHANGED <<config, disk, server, installed, main, locals, stopper, down, disturbed, lapsed>>
  PROVE  BootInv'
  <1> USE BootAssumption DEF BootAssumption, BootInv, locals
  <1>1. TypeOK'  BY DEF TypeOK
  <1>2. Progress'  BY DEF Progress, Up, Filling, After, Filled
  <1>3. Handling' /\ Finding'  BY DEF Handling, Finding, Up, Early, Halting
  <1>4. CleanStop'  BY DEF CleanStop, Stoppers
  <1> QED  BY <1>1, <1>2, <1>3, <1>4

LEMMA ServicesSafe ==
  ASSUME BootInv, WebEnds \/ MountEnds PROVE BootInv'
  <1>1. CASE Exit("web") \/ Exit("mount")
    BY <1>1, ExitSafe DEF WebEnds, MountEnds, Enders, Stoppers, BootInv, TypeOK
  <1>2. CASE ~(Exit("web") \/ Exit("mount"))
    BY <1>2, ServiceEnds DEF WebEnds, MountEnds
  <1> QED  BY <1>1, <1>2

LEMMA SelectSafe ==
  ASSUME BootInv, Select PROVE BootInv'
  <1> USE BootAssumption DEF BootAssumption, BootInv, Select, At, Fine, locals
  <1>1. TypeOK'  BY DEF TypeOK, Stages
  <1>2. Progress'  BY DEF Progress, Up, Filling, After, Filled, TypeOK
  <1>3. Handling' /\ Finding'  BY DEF Handling, Finding, Up, Early, Halting
  <1>4. CleanStop'  BY DEF CleanStop, Stoppers
  <1> QED  BY <1>1, <1>2, <1>3, <1>4

LEMMA CloseSafe ==
  ASSUME BootInv, Close PROVE BootInv'
  <1>0. down = "no" /\ main \notin Early /\ stopper["main"] = "none"
        /\ UNCHANGED <<disk, server, installed, disturbed>>
    BY DEF Close, At, Early, Fine
  <1>1. CASE StopFirst
    BY <1>0, <1>1, StopFirstSafe DEF BootInv, TypeOK
  <1>2. CASE ~config.embedded /\ Exit("main")
    <2>1. CleanStop'  BY <1>2 DEF CleanStop, Exit
    <2>2. TypeOK'  BY <1>0, <1>2 DEF BootInv, TypeOK, Exit, locals, Enders, Stoppers
    <2>3. Progress'
      BY <1>0, <1>2 DEF BootInv, Progress, Up, TypeOK, Filling, Filled, After, Exit, locals
    <2>4. Handling' /\ Finding'
      BY <1>0, <1>2 DEF BootInv, Handling, Finding, Up, Early, Exit, locals
    <2> QED  BY <2>1, <2>2, <2>3, <2>4 DEF BootInv
  <1> QED  BY <1>1, <1>2 DEF Close

LEMMA AskSafe ==
  ASSUME BootInv, NEW s \in Stoppers, Ask(s) PROVE BootInv'
  <1> USE BootAssumption DEF BootAssumption, BootInv, Ask, locals
  <1>1. stopper' \in [Stoppers -> {"none", "asked", "stopping"}]  BY DEF TypeOK
  <1>2. Halting' <=> Halting  BY DEF Halting, TypeOK, Stoppers
  <1>3. TypeOK'  BY <1>1 DEF TypeOK
  <1>4. Progress'  BY DEF Progress, Up, Filling, After, Filled
  <1>5. Handling' /\ Finding'  BY <1>2 DEF Handling, Finding, Up, Early
  <1>6. CleanStop'  BY DEF CleanStop, Stoppers
  <1> QED  BY <1>3, <1>4, <1>5, <1>6

LEMMA StopSafe ==
  ASSUME BootInv, NEW s \in Stoppers, Stop(s) PROVE BootInv'
  <1>0. down = "no" /\ UNCHANGED <<disk, installed, disturbed>>  BY DEF Stop
  <1>1. CASE ~epg.started
    BY <1>0, <1>1, StopperExits DEF Stop, BootInv, TypeOK
  <1>2. CASE epg.started
    <2> USE <1>0, <1>2, BootAssumption DEF BootAssumption, BootInv, Stop, locals
    <2>1. stopper' \in [Stoppers -> {"none", "asked", "stopping"}] /\ Halting'
      BY DEF TypeOK, Halting
    <2>2. server' \in {"stopping", "stopped"}  BY DEF Handling, TypeOK
    <2>4. TypeOK'  BY <2>1, <2>2 DEF TypeOK
    <2>5. Progress'  BY DEF Progress, Up, Filling, After, Filled
    <2>6. config.embedded  BY DEF Handling
    <2>7. Handling' /\ Finding'  BY <2>1, <2>2, <2>6 DEF Handling, Finding, Up, Early
    <2>8. CleanStop'  BY DEF CleanStop, Stoppers
    <2> QED  BY <2>4, <2>5, <2>7, <2>8
  <1> QED  BY <1>1, <1>2

LEMMA StoppedSafe ==
  ASSUME BootInv, NEW s \in Stoppers, Stopped(s) PROVE BootInv'
  <1>1. down = "no" /\ Halting /\ Exit(s) /\ UNCHANGED <<disk, server, installed>>
    BY DEF Stopped, Halting
  <1>2. disturbed' \in BOOLEAN /\ (disturbed => disturbed')
    <2>1. CASE Fine  BY <2>1 DEF Fine, BootInv, TypeOK
    <2>2. CASE Failing  BY <2>2 DEF Failing
    <2> QED  BY <2>1, <2>2 DEF Stopped
  <1> QED  BY <1>1, <1>2, StopperExits

LEMMA ServerSafe ==
  ASSUME BootInv, ServerUp \/ ServerStopped \/ ServerDies PROVE BootInv'
  <1> USE BootAssumption
          DEF BootAssumption, BootInv, ServerUp, ServerStopped, ServerDies, Failing, rest, locals
  <1>1. TypeOK'  BY DEF TypeOK
  <1>2. Progress'  BY DEF Progress, Up, Filling, After, Filled
  <1>3. Halting' <=> Halting  BY DEF Halting
  <1>4. Handling' /\ Finding'  BY <1>3 DEF Handling, Finding, Up, Early
  <1>5. CleanStop'  BY DEF CleanStop
  <1> QED  BY <1>1, <1>2, <1>4, <1>5

LEMMA KilledSafe ==
  ASSUME BootInv, Killed PROVE BootInv'
  <1>1. /\ down = "no" /\ Exit("killed") /\ UNCHANGED <<disk, installed>>
        /\ disturbed' \in BOOLEAN /\ "killed" \in Enders \ Stoppers
        /\ server' \in {"stopped", "starting", "running", "stopping"}
        /\ server' = server \/ config.embedded
        /\ disk' \in {"empty", "partial", "whole"}
    BY DEF Killed, Failing, Enders, Stoppers, BootInv, TypeOK
  <1> QED  BY <1>1, ExitSafe

(* Every step keeps the invariant.                                         *)
LEMMA NextSafe ==
  ASSUME BootInv, [Next]_vars PROVE BootInv'
  <1>1. CASE Main
    BY <1>1, LoadConfigSafe, CheckFilesSafe, InstallSafe, StartSafe, StartedSafe,
       CreateDatabaseSafe, ConnectSafe, SettingsSafe, CountSafe, CreateExtensionSafe,
       CreateUserSafe, ImportBundleSafe, CheckoutSafe, ServeSafe, SelectSafe, CloseSafe
       DEF Main
  <1>2. ASSUME NEW s \in Stoppers, Ask(s) \/ Stop(s) \/ Stopped(s) PROVE BootInv'
    BY <1>2, AskSafe, StopSafe, StoppedSafe
  <1>3. CASE UNCHANGED vars
    BY <1>3 DEF vars, locals, BootInv, TypeOK, Progress, Handling, Finding, CleanStop, Up,
       Halting, Filled
  <1> QED  BY <1>1, <1>2, <1>3, BootSafe, ServicesSafe, ServerSafe, KilledSafe DEF Next

-----------------------------------------------------------------------------
(* However often the daemon is started, stopped and killed, its state and  *)
(* the database server's are in order.                                     *)
THEOREM BootInvariance == Spec => []BootInv
  BY InitSafe, NextSafe, PTL DEF Spec

(* The state keeps its types: no loop passes its end.                      *)
THEOREM BootTyping == Spec => []TypeOK
  <1>1. BootInv => TypeOK  BY DEF BootInv
  <1> QED  BY <1>1, BootInvariance, PTL

(* Who is served, is served by a complete installation, unless a boot has  *)
(* been cut short between its last extension and its last checkout.        *)
THEOREM InstallationComplete == Spec => []ServesComplete
  <1>1. ASSUME BootInv PROVE ServesComplete
    <2> SUFFICES ASSUME Serving, ~lapsed PROVE Complete
      BY DEF ServesComplete
    <2>1. installed.database /\ installed.extensions = Extensions /\ Filled
      BY <1>1 DEF Serving, BootInv, Progress, Filling, After
    <2>2. installed.database = TRUE /\ installed.user = TRUE
      BY <1>1, <2>1 DEF BootInv, TypeOK, Installed, Filled
    <2> QED  BY <1>1, <2>1, <2>2 DEF BootInv, TypeOK, Installed, Filled, Complete
  <1> QED  BY <1>1, BootInvariance, PTL

(* A daemon that is told to stop leaves no server behind.                  *)
THEOREM StopsClean == Spec => []CleanStop
  <1>1. BootInv => CleanStop  BY DEF BootInv
  <1> QED  BY <1>1, BootInvariance, PTL

(* A boot that fails though nothing outside did has met what an earlier    *)
(* one left.                                                               *)
THEOREM FailuresExplained == Spec => FailsForLeftOvers
  <1>1. ASSUME BootInv, [Next]_vars, down = "no", down' = "failure", ~disturbed'
        PROVE  LeftOver
    <2> USE <1>1
    <2>1. ASSUME main \notin Early, Refused PROVE LeftOver
      BY <2>1, RefusedFor DEF LeftOver, Halting
    <2>2. CASE Start
      <3>1. main = "start" /\ disk # "empty" /\ config.embedded
        BY <2>2 DEF Start, At, BootInv, Finding, Up
      <3>2. disk # "whole" \/ server # "stopped"  BY <2>2 DEF Start, Goto
      <3> QED  BY <3>1, <3>2 DEF LeftOver, BootInv, TypeOK
    <2>3. CASE Connect
      <3>1. main = "connect" /\ main \notin Early  BY <2>3 DEF Connect, At, Early
      <3>2. CASE installed.database
        BY <2>1, <2>3, <3>1, <3>2 DEF Connect, Goto
      <3>3. CASE ~installed.database
        <4>1. UNCHANGED disturbed  BY <2>3, <3>3 DEF Connect, Fine
        <4>2. ~fresh \/ Halting  BY <3>1, <3>3, <4>1 DEF BootInv, Finding, Up
        <4> QED  BY <3>3, <4>2 DEF LeftOver, Halting
      <3> QED  BY <3>2, <3>3
    <2>4. CASE CreateExtension
      <3>1. main = "extensions" /\ main \notin Early  BY <2>4 DEF CreateExtension, At, Early
      <3>2. CASE epg.next < installed.extensions
        <4>1. UNCHANGED disturbed  BY <2>4, <3>2 DEF CreateExtension, Fine
        <4>2. installed.extensions = Extensions => Halting
          BY <3>1, <4>1 DEF BootInv, Finding, Up
        <4>3. installed.extensions \in 0..Extensions /\ epg.next \in 0..Extensions
          BY DEF BootInv, TypeOK, Installed, Handle
        <4> QED  BY <3>2, <4>2, <4>3, BootAssumption DEF LeftOver, Halting, BootAssumption
      <3>3. CASE ~(epg.next < installed.extensions)
        BY <2>1, <2>4, <3>1, <3>3 DEF CreateExtension, Goto
      <3> QED  BY <3>2, <3>3
    <2>5. CASE CreateUser \/ ImportBundle \/ Checkout
      <3>1. main \notin Early  BY <2>5 DEF CreateUser, ImportBundle, Checkout, At, Early
      <3>2. Refused
        BY <2>5 DEF CreateUser, ImportBundle, Checkout, Goto, StopFirst
      <3> QED  BY <2>1, <3>1, <3>2
    <2>6. CASE LoadConfig \/ Install \/ Started
      BY <2>6 DEF LoadConfig, Install, Started, Failing, Goto
    <2>7. CASE CheckFiles \/ CreateDatabase \/ Settings \/ Count \/ Serve \/ Select \/ Close
      BY <2>7 DEF CheckFiles, CreateDatabase, Settings, Count, Serve, Select, Close, Goto,
                  StopFirst, Exit
    <2>8. CASE Boot \/ WebEnds \/ MountEnds \/ ServerUp \/ ServerStopped \/ ServerDies \/ Killed
      BY <2>8 DEF Boot, WebEnds, MountEnds, ServerUp, ServerStopped, ServerDies, Killed, Exit
    <2>9. ASSUME NEW s \in Stoppers, Ask(s) \/ Stop(s) \/ Stopped(s) PROVE FALSE
      BY <2>9 DEF Ask, Stop, Stopped, Exit, Stoppers
    <2>10. CASE UNCHANGED vars  BY <2>10 DEF vars
    <2> QED  BY <2>2, <2>3, <2>4, <2>5, <2>6, <2>7, <2>8, <2>9, <2>10 DEF Next, Main
  <1>2. BootInv /\ [Next]_vars
        => [down = "no" /\ down' = "failure" /\ ~disturbed' => LeftOver]_vars
    BY <1>1
  <1> QED  BY <1>2, BootInvariance, PTL DEF Spec, FailsForLeftOvers

-----------------------------------------------------------------------------
(* What is spoilt is found so by every later boot, up to its end.          *)

SpoiltExtensions ==
    /\ installed.extensions \in 1..(Extensions - 1)
    /\ down = "no" => /\ main \in Early \cup {"database", "connect", "settings", "count", "extensions"}
                      /\ main = "extensions" => epg.next = 0

SpoiltFiles ==
    /\ config.embedded /\ disk = "partial"
    /\ down = "no" => main \in {"config", "files", "start"}

SpoiltDatabase ==
    /\ config.embedded /\ disk = "whole" /\ ~installed.database
    /\ down = "no" => /\ main \in {"config", "files", "start", "starting", "connect"}
                      /\ main \in {"start", "starting"} => ~fresh

StillSpoilt == SpoiltExtensions \/ SpoiltFiles \/ SpoiltDatabase

(* A part of the extensions stays a part.                                  *)
LEMMA ExtensionsStaySpoilt ==
  ASSUME BootInv, SpoiltExtensions, [Next]_vars PROVE SpoiltExtensions'
  <1> USE BootAssumption DEF BootAssumption, SpoiltExtensions
  <1>1. CASE LoadConfig \/ CheckFiles \/ Install \/ Start \/ Connect \/ Settings
    BY <1>1 DEF LoadConfig, CheckFiles, Install, Start, Connect, Settings, Exit, Goto, StopFirst,
                At, Early, locals, Enders
  <1>2. CASE Started
    BY <1>2 DEF Started, Exit, Goto, At, Early, locals
  <1>3. CASE CreateDatabase
    BY <1>3 DEF CreateDatabase, Goto, At, Early, locals, BootInv, TypeOK, Installed
  <1>4. CASE Count
    BY <1>4 DEF Count, Goto, At, Early, BootInv, TypeOK, Handle, Installed
  <1>5. CASE CreateExtension
    BY <1>5 DEF CreateExtension, Exit, At, Early, locals, BootInv, TypeOK, Installed
  <1>6. CASE CreateUser \/ ImportBundle \/ Checkout \/ Serve \/ Select \/ Close
    BY <1>6 DEF CreateUser, ImportBundle, Checkout, Serve, Select, Close, At, Early
  <1>7. CASE Boot
    BY <1>7 DEF Boot, Early
  <1>8. CASE WebEnds \/ MountEnds
    BY <1>8 DEF WebEnds, MountEnds, Exit, locals
  <1>9. ASSUME NEW s \in Stoppers, Ask(s) \/ Stop(s) \/ Stopped(s) PROVE SpoiltExtensions'
    BY <1>9 DEF Ask, Stop, Stopped, Exit, locals
  <1>10. CASE ServerUp \/ ServerStopped \/ ServerDies \/ Killed
    BY <1>10 DEF ServerUp, ServerStopped, ServerDies, Killed, Exit, rest, locals
  <1>11. CASE UNCHANGED vars  BY <1>11 DEF vars, locals
  <1> QED
    BY <1>1, <1>2, <1>3, <1>4, <1>5, <1>6, <1>7, <1>8, <1>9, <1>10, <1>11 DEF Next, Main

(* A part of the files stays a part.                                       *)
LEMMA FilesStaySpoilt ==
  ASSUME BootInv, SpoiltFiles, [Next]_vars PROVE SpoiltFiles'
  <1> USE DEF SpoiltFiles
  <1>1. CASE LoadConfig \/ CheckFiles \/ Start
    BY <1>1 DEF LoadConfig, CheckFiles, Start, Exit, Goto, At, locals
  <1>2. CASE \/ Install \/ Started \/ CreateDatabase \/ Connect \/ Settings \/ Count \/ CreateExtension
             \/ CreateUser \/ ImportBundle \/ Checkout \/ Serve \/ Select \/ Close
    BY <1>2 DEF Install, Started, CreateDatabase, Connect, Settings, Count, CreateExtension,
                CreateUser, ImportBundle, Checkout, Serve, Select, Close, At
  <1>3. CASE Boot
    BY <1>3 DEF Boot
  <1>4. CASE WebEnds \/ MountEnds
    BY <1>4 DEF WebEnds, MountEnds, Exit, locals
  <1>5. ASSUME NEW s \in Stoppers, Ask(s) \/ Stop(s) \/ Stopped(s) PROVE SpoiltFiles'
    BY <1>5 DEF Ask, Stop, Stopped, Exit, locals
  <1>6. CASE ServerUp \/ ServerStopped \/ ServerDies \/ Killed
    BY <1>6 DEF ServerUp, ServerStopped, ServerDies, Killed, Exit, rest, locals
  <1>7. CASE UNCHANGED vars  BY <1>7 DEF vars, locals
  <1> QED  BY <1>1, <1>2, <1>3, <1>4, <1>5, <1>6, <1>7 DEF Next, Main

(* Files without a database stay without.                                  *)
LEMMA DatabaseStaysSpoilt ==
  ASSUME BootInv, SpoiltDatabase, [Next]_vars PROVE SpoiltDatabase'
  <1> USE DEF SpoiltDatabase
  <1>1. CASE LoadConfig \/ CheckFiles \/ Start \/ Started \/ Connect
    BY <1>1 DEF LoadConfig, CheckFiles, Start, Started, Connect, Exit, Goto, At, locals
  <1>2. CASE \/ Install \/ CreateDatabase \/ Settings \/ Count \/ CreateExtension
             \/ CreateUser \/ ImportBundle \/ Checkout \/ Serve \/ Select \/ Close
    BY <1>2 DEF Install, CreateDatabase, Settings, Count, CreateExtension,
                CreateUser, ImportBundle, Checkout, Serve, Select, Close, At
  <1>3. CASE Boot
    BY <1>3 DEF Boot
  <1>4. CASE WebEnds \/ MountEnds
    BY <1>4 DEF WebEnds, MountEnds, Exit, locals
  <1>5. ASSUME NEW s \in Stoppers, Ask(s) \/ Stop(s) \/ Stopped(s) PROVE SpoiltDatabase'
    BY <1>5 DEF Ask, Stop, Stopped, Exit, locals
  <1>6. CASE ServerUp \/ ServerStopped \/ ServerDies \/ Killed
    BY <1>6 DEF ServerUp, ServerStopped, ServerDies, Killed, Exit, rest, locals
  <1>7. CASE UNCHANGED vars  BY <1>7 DEF vars, locals
  <1> QED  BY <1>1, <1>2, <1>3, <1>4, <1>5, <1>6, <1>7 DEF Next, Main

(* A daemon whose files or database a cut boot has spoilt never serves     *)
(* again, however often it is started.                                     *)
THEOREM SpoiltForEver == Spec => SpoiltStaysDown
  <1>1. BootInv /\ StillSpoilt /\ [Next]_vars => StillSpoilt'
    BY ExtensionsStaySpoilt, FilesStaySpoilt, DatabaseStaysSpoilt DEF StillSpoilt
  <1>2. Spoilt => StillSpoilt
    BY DEF Spoilt, StillSpoilt, SpoiltExtensions, SpoiltFiles, SpoiltDatabase
  <1>3. StillSpoilt => ~Serving
    BY DEF StillSpoilt, SpoiltExtensions, SpoiltFiles, SpoiltDatabase, Serving, Early
  <1>4. Spec => [](StillSpoilt => []StillSpoilt)
    BY <1>1, BootInvariance, PTL DEF Spec
  <1> QED  BY <1>2, <1>3, <1>4, PTL DEF SpoiltStaysDown

-----------------------------------------------------------------------------
(* Stopping.  The provers have no rule for ENABLED, so that the goroutines *)
(* are not stuck is a hypothesis here; a run checks it.                    *)

\* Where a goroutine that was asked to stop the server can be.
Asked(s)    == down = "no" /\ stopper[s] = "asked"
Stopping(s) == down = "no" /\ stopper[s] = "stopping"
Ended       == down # "no"

\* No step takes it elsewhere while the process lives.
LEMMA StopperMoves ==
  ASSUME TypeOK, [Next]_vars, NEW s \in Stoppers
  PROVE  /\ Asked(s) => Asked(s)' \/ Stopping(s)' \/ Ended'
         /\ Stopping(s) => Stopping(s)' \/ Ended'
  <1> USE DEF Asked, Stopping, Ended, TypeOK, Exit, Goto, StopFirst, locals
  <1>1. CASE LoadConfig \/ CheckFiles \/ Install \/ Start \/ Started \/ CreateDatabase
    BY <1>1 DEF LoadConfig, CheckFiles, Install, Start, Started, CreateDatabase
  <1>2. CASE Connect \/ Settings \/ Count \/ CreateExtension \/ CreateUser
    BY <1>2 DEF Connect, Settings, Count, CreateExtension, CreateUser, At
  <1>3. CASE ImportBundle \/ Checkout \/ Serve \/ Select \/ Close
    BY <1>3 DEF ImportBundle, Checkout, Serve, Select, Close, At
  <1>4. CASE Boot \/ WebEnds \/ MountEnds
    BY <1>4 DEF Boot, WebEnds, MountEnds
  <1>5. ASSUME NEW t \in Stoppers, Ask(t) \/ Stop(t) \/ Stopped(t)
        PROVE  /\ Asked(s) => Asked(s)' \/ Stopping(s)' \/ Ended'
               /\ Stopping(s) => Stopping(s)' \/ Ended'
    BY <1>5 DEF Ask, Stop, Stopped, Stoppers, Enders
  <1>6. CASE ServerUp \/ ServerStopped \/ ServerDies \/ Killed
    BY <1>6 DEF ServerUp, ServerStopped, ServerDies, Killed, rest
  <1>7. CASE UNCHANGED vars  BY <1>7 DEF vars
  <1> QED  BY <1>1, <1>2, <1>3, <1>4, <1>5, <1>6, <1>7 DEF Next, Main

(* Every stop that is asked for ends the process, if goroutines run on and *)
(* are not stuck.                                                          *)
THEOREM StopsAreObeyed == FairSpec /\ []StopsNotBlocked => StopObeyed
  <1>1. ASSUME NEW s \in Stoppers
        PROVE  FairSpec /\ []StopsNotBlocked => (stopper[s] = "asked" ~> down # "no")
    <2>1. TypeOK /\ [Next]_vars => (Asked(s) => Asked(s)' \/ Stopping(s)' \/ Ended')
      BY StopperMoves
    <2>2. TypeOK /\ [Next]_vars => (Stopping(s) => Stopping(s)' \/ Ended')
      BY StopperMoves
    <2>3. TypeOK /\ <<Stop(s)>>_vars => Stopping(s)' \/ Ended'
      BY DEF TypeOK, Stop, Exit, Stopping, Ended, Stoppers, Enders
    <2>4. <<Stopped(s)>>_vars => Ended'
      BY DEF Stopped, Exit, Ended, Stoppers
    <2>5. StopsNotBlocked => (Asked(s) => ENABLED <<Stop(s)>>_vars)
      BY DEF StopsNotBlocked, Asked
    <2>6. StopsNotBlocked => (Stopping(s) => ENABLED <<Stopped(s)>>_vars)
      BY DEF StopsNotBlocked, Stopping
    <2>7. FairSpec => WF_vars(Stop(s)) /\ WF_vars(Stopped(s))
      <3>1. FairSpec => FairStoppers
        BY PTL DEF FairSpec, Fairness
      <3>2. FairStoppers => FairStop(s)
        BY DEF FairStoppers
      <3> QED  BY <3>1, <3>2, PTL DEF FairStop
    <2>8. FairSpec => []TypeOK /\ [][Next]_vars
      BY BootTyping, PTL DEF FairSpec, Spec
    <2>9. stopper[s] = "asked" => Asked(s) \/ Ended
      BY DEF Asked, Ended
    <2>10. Ended <=> down # "no"
      BY DEF Ended
    <2> QED
      BY <2>1, <2>2, <2>3, <2>4, <2>5, <2>6, <2>7, <2>8, <2>9, <2>10, PTL
  <1> QED  BY <1>1 DEF StopObeyed
=============================================================================
