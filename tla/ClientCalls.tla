----------------------------- MODULE ClientCalls -----------------------------
(***************************************************************************)
(* How zizq/src/client.rs turns what comes back from the server into a     *)
(* result, and how zizq/src/error.rs classifies it.                        *)
(***************************************************************************)
EXTENDS Naturals

CONSTANT Statuses    \* the HTTP statuses the server may answer with

ASSUME StatusesAssumption == Statuses \subseteq 100 .. 999

(* Status 0: no answer at all.  A body may arrive whole, break off, or     *)
(* arrive and not decode.                                                  *)
Answers == [status : Statuses \cup {0}, body : {"good", "cut", "garbled"}]

IsSuccess(status) == status \in 200 .. 299

OkResult    == [variant |-> "Ok", status |-> 0]
Transport   == [variant |-> "Transport", status |-> 0]
Decode      == [variant |-> "Decode", status |-> 0]
Response(s) == [variant |-> "Response", status |-> s]

Errors  == {Transport, Decode} \cup {Response(s) : s \in Statuses}
Results == Errors \cup {OkResult}

-----------------------------------------------------------------------------
(* ZizqError's predicates. *)

M_ClientErrorTo500(e) == e.variant = "Response" /\ e.status \in 400 .. 500
M_ClientErrorIs400(e) == e.variant = "Response" /\ e.status = 400

IsClientError(e) == e.variant = "Response" /\ e.status \in 400 .. 499
IsServerError(e) == e.variant = "Response" /\ e.status \in 500 .. 599
IsTransport(e)   == e.variant = "Transport"
IsRetryable(e)   == IsTransport(e) \/ IsServerError(e)

-----------------------------------------------------------------------------
(* The error of an answer that is not the one hoped for: reading its body  *)
(* comes first, and a body that breaks off hides the status.               *)
Refusal(a) == IF a.body = "cut" THEN Transport ELSE Response(a.status)

DecodeBody(a) ==
  CASE a.body = "good"    -> OkResult
    [] a.body = "cut"     -> Transport
    [] a.body = "garbled" -> Decode

(* parse_job_response, and send_decoded, patch_decoded, send_body_decoded. *)
Decoded(a) ==
  CASE a.status = 0 -> Transport
    [] IsSuccess(a.status) -> DecodeBody(a)
    [] OTHER -> Refusal(a)

(* expect_status does not look at the body of a status it expects. *)
Expected(a, oks) ==
  CASE a.status = 0 -> Transport
    [] a.status \in oks -> OkResult
    [] OTHER -> Refusal(a)

ReportFailure(a)     == Decoded(a)
ReportSuccessBulk(a) == Expected(a, {204, 422})

(* take_raw hands the body of a 2xx on as the stream. *)
Take(a) ==
  CASE a.status = 0 -> Transport
    [] IsSuccess(a.status) -> OkResult
    [] OTHER -> Refusal(a)
=============================================================================
