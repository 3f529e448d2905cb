--------------------------- MODULE MCHttpRequest ---------------------------
(* Instances of HttpRequest for TLC. *)
EXTENDS HttpRequest

\* The replies that end differently, one of each kind.
SomeReplies == {"notOk", "length", "length0", "chunked", "noSize"}
=============================================================================
