-------------------------------- MODULE Errlocal --------------------------------
(***************************************************************************)
(* internal/errlocal: the kinds of error a handler answers with, each      *)
(* named by the status its Code method gives it.                           *)
(***************************************************************************)
BadRequest == "400"
Unauthorized == "401"
Forbidden == "403"
NotFound == "404"
Conflict == "409"
TooManyRequests == "429"
Internal == "500"

Errors == {BadRequest, Unauthorized, Forbidden, NotFound, Conflict,
           TooManyRequests, Internal}
=============================================================================
