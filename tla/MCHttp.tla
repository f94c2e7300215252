------------------------------- MODULE MCHttp --------------------------------
(* The rows and paths for checking module Http with TLC: a text and a      *)
(* function that may answer the same path.                                 *)
EXTENDS HttpProperties

CONSTANTS text, func, home, other, plus, percent, old, new

Version(paths, active, content, valid, holes, short) ==
    [paths |-> paths, active |-> active, content |-> content,
     valid |-> valid, holes |-> holes, short |-> short]

MCDecoded  == [p \in {home, plus, percent} |->
                  CASE p = home -> home [] p = plus -> other [] p = percent -> Malformed]
MCVersions ==
    [i \in {text, func} |->
        IF i = text
        THEN {Version({home}, TRUE, old, TRUE, FALSE, FALSE),
              Version({home}, FALSE, new, TRUE, FALSE, FALSE)}
        ELSE {Version({home}, TRUE, old, TRUE, TRUE, FALSE),
              Version({home, other}, TRUE, Null, TRUE, FALSE, FALSE),
              Version({other}, TRUE, new, TRUE, TRUE, TRUE),
              Version({}, TRUE, new, FALSE, FALSE, FALSE)}]
=============================================================================
