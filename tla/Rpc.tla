--------------------------------- MODULE Rpc ---------------------------------
(***************************************************************************)
(* workers/common/rpc.py: CelestiaRPC.call makes one request and turns     *)
(* whatever becomes of it into one _Response; nothing is retried.  The     *)
(* callers read success, error_type and the wording of the error.  Of the  *)
(* wording only the words that some caller looks for are kept.             *)
(***************************************************************************)

\* How a request can end.
Ending == {"timeout", "connection", "request", "non_json", "error", "no_result", "result"}

\* What a JSON-RPC error can say: "insufficient", "fund"; "out of gas"; "deadline
\* exceeded"; "namespace"; "not found", "datastore"; or nothing anybody looks for.
\* Texts made by the client itself contain none of these.
Word == {"insufficient", "out_of_gas", "deadline", "namespace", "not_found", "other"}

Response(ending, says) ==
    [success |-> ending = "result",
     error_type |->
        CASE ending = "result" -> "none"
          [] ending \in {"timeout", "connection", "request"} -> ending
          [] ending \in {"non_json", "no_result"} -> "bad_response"
          [] ending = "error" -> "rpc_error",
     error |-> IF ending = "error" THEN says ELSE "other"]

\* Every response call can return.
Responses == {Response(ending, says) : ending \in Ending, says \in Word}

==============================================================================
