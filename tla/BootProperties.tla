--------------------------- MODULE BootProperties ----------------------------
(***************************************************************************)
(* What module Boot owes to those who start and stop the daemon.           *)
(***************************************************************************)
EXTENDS Boot

Serving == down = "no" /\ main = "select"

(* Whoever is served is served by a complete installation: database,       *)
(* extensions, superuser and every core bundle.  The number of extensions  *)
(* alone is looked at (main.go:184), so this holds as long as no boot,     *)
(* however many there have been, ended after its last extension and before *)
(* its last checkout, and the superuser's insert raised no error.          *)
ServesComplete == Serving => Complete \/ lapsed

(* A boot that nothing outside disturbs gets as far as serving, unless an  *)
(* earlier one was cut short and left what this one cannot take over: a    *)
(* part of the files, files without a database, some of the extensions, or *)
(* the server; or the server is being stopped under it.                    *)
LeftOver ==
    \/ config.embedded /\ disk = "partial"
    \/ main = "start" /\ server # "stopped"
    \/ ~installed.database /\ ~fresh
    \/ installed.extensions \in 1..(Extensions - 1)
    \/ \E s \in Stoppers : stopper[s] = "stopping"

FailsForLeftOvers == [][down = "no" /\ down' = "failure" /\ ~disturbed' => LeftOver]_vars

(* What no later boot repairs: it is found by every one, and never served. *)
Spoilt ==
    /\ down # "no"
    /\ \/ config.embedded /\ (disk = "partial" \/ (disk = "whole" /\ ~installed.database))
       \/ installed.extensions \in 1..(Extensions - 1)

SpoiltStaysDown == [](Spoilt => []~Serving)

(* A signal, a request to halt, the end of the web server or of the mount, *)
(* and a failure of the settings or of an import stop the database with    *)
(* the daemon, also when several of them come at once; but for a signal    *)
(* that finds the server still starting.                                   *)
CleanStop ==
    down \in Stoppers /\ config.embedded /\ ~disturbed
    /\ main \notin {"config", "files", "install", "start", "starting"}
    => server \in {"stopping", "stopped"}

(* A signal is obeyed, and so is a request to halt and main's own decision *)
(* to stop, whatever else the goroutines and the server are doing.         *)
StopObeyed == \A s \in Stoppers : stopper[s] = "asked" ~> down # "no"

(* A hypothesis of the theorem about StopObeyed, not a property of its     *)
(* own: a goroutine that stops the server has a next step in every state.  *)
(* It holds by the form of the actions, but it is about ENABLED, which the *)
(* provers do not know.                                                    *)
StopsNotBlocked ==
    \A s \in Stoppers : down = "no" =>
        /\ stopper[s] = "asked" => ENABLED <<Stop(s)>>_vars
        /\ stopper[s] = "stopping" => ENABLED <<Stopped(s)>>_vars
=============================================================================
