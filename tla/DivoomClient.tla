---------------------------- MODULE DivoomClient ----------------------------
(***************************************************************************)
(* What divoom::client makes of one answer of the Divoom cloud.  A request *)
(* names its handler, an answer is the class of what came back:            *)
(*                                                                         *)
(*   curlError, httpError   no response, or a status other than 200        *)
(*   notJson                a 200 whose body does not parse                *)
(*   noCode                 JSON whose ReturnCode cannot be read           *)
(*   apiError               any return code but the ones below             *)
(*   noUser, wrongPassword  HTTP_LOGIN_ERROR_NO_USER, .._PASSWORD          *)
(*   tokenExpired           HTTP_ERROR_TOKEN_MISSMATCH, FORBIDEN_ERROR     *)
(*   incomplete             ReturnCode OK without the expected fields      *)
(*   ok                     ReturnCode OK with them                        *)
(***************************************************************************)

\* One request per kind of handler: the device, clock and font lists share
\* their handle(), and so do the commands that return no data.
Requests == {"login", "list", "getConfig", "command"}

NoResponse == {"curlError", "httpError"}
Rejections == {"noUser", "wrongPassword", "tokenExpired"}
Answers    == NoResponse \cup Rejections
                \cup {"notJson", "noCode", "apiError", "incomplete", "ok"}

\* handler::parse_json: the document, no document, or an exception.
ParseJson(a) ==
    CASE a \in {"notJson", "apiError"}      -> "null"
      [] a \in Rejections \cup {"noCode"}   -> "throws"
      [] OTHER                              -> "json"

\* Mutant of HandleNull: the login handler lacks its null check as well.
MutHandleNull(req) == IF req \in {"list", "login"} THEN "crash" ELSE "false"

\* handle() after parse_json returned no document.  The list handlers
\* dereference it, which is undefined and in practice ends the process.
HandleNull(req) == IF req = "list" THEN "crash" ELSE "false"

\* handle() on a document that lacks what the handler reads from it.
HandleIncomplete(req) ==
    CASE req = "login" -> "throws"
      [] req = "list"  -> "false"
      [] OTHER         -> "true"

\* The virtual handle() of the request's handler.
Handle(req, a) ==
    CASE ParseJson(a) = "throws" -> "throws"
      [] ParseJson(a) = "null"   -> HandleNull(req)
      [] a = "incomplete"        -> HandleIncomplete(req)
      [] OTHER                   -> "true"

\* client::execute: every exception of a handler becomes FALSE.
Execute(req, a) ==
    CASE a \in NoResponse           -> "false"
      [] Handle(req, a) = "throws"  -> "false"
      [] OTHER                      -> Handle(req, a)
=============================================================================
