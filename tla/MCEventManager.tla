---------------------------- MODULE MCEventManager ----------------------------
(***************************************************************************)
(* Two calendars, so that one can fail while the other does not.  The first *)
(* server gives a content of one line or a malformed one, which costs the  *)
(* second its events; the second gives a content of three lines.  One      *)
(* retry; a cache file; an entry is fresh, stale and useless one time unit *)
(* each.  For the restart one calendar is enough.                          *)
(***************************************************************************)
EXTENDS EventManager

CONSTANTS u1, u2, sound, malformed, page, first, rest

MCOrder     == <<u1, u2>>
MCOneUrl    == <<u1>>
MCContents  == {sound, malformed, page, first, rest}
MCLines     == [c \in MCContents |->
                   IF c \in {sound, malformed} THEN <<first, rest, rest>> ELSE <<c>>]
MCServed    == [u \in {u1, u2} |-> IF u = u1 THEN {page, malformed} ELSE {sound}]
MCOneServed == [u \in {u1} |-> {sound, malformed}]
=============================================================================
