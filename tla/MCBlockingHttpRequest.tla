----------------------- MODULE MCBlockingHttpRequest -----------------------
(* Instances of BlockingHttpRequest for TLC. *)
EXTENDS BlockingHttpRequest

BlockingReplies == AllReplies \ {"notOk"}
=============================================================================
