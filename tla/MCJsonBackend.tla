---------------------------- MODULE MCJsonBackend ----------------------------
(***************************************************************************)
(* One key of each kind, a value that can be written and one that cannot.  *)
(* One key of a kind is enough: the code never relates two of them.        *)
(***************************************************************************)
EXTENDS JsonBackend

CONSTANTS service, url, key, good, bad

MCServices   == {service}
MCUrls       == {url}
MCMetaKeys   == {key}
MCValues     == {good, bad}
MCUnwritable == {bad}
MCPlatforms  == {"windows", "posix"}
=============================================================================
