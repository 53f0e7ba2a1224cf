----------------------------- MODULE NudgeAnswer -----------------------------
(***************************************************************************)
(* What export (nudgehttpexporter/nudge.go) makes of the answer of the     *)
(* Nudge server: the class of the outcome, which is all that pushTraces    *)
(* and the retry sender look at.  Retry-After only lengthens the pause of  *)
(* the retry sender, the text of an error is for the log.                  *)
(***************************************************************************)
EXTENDS Naturals

(* An answer: the status code; how much of the body there is to read; what *)
(* the Content-Type says it is; whether those bytes are such a message.    *)
Answer ==
    [ code   : {200, 202, 301, 400, 404, 413, 429, 500, 502, 503, 504},
      body   : {"empty", "whole", "cut", "reset"},
      type   : {"proto", "json", "other"},
      parses : BOOLEAN ]

isRetryableStatusCode(code) == code \in {429, 502, 503, 504}

(* A body that ends too early is taken as it is, an absent one as none;    *)
(* any other error of the connection is an error.                          *)
readResponseBodyFails(a) == a.body = "reset"

(* The handlers parse what claims to be an export response.                *)
PartialSuccessHandlerFails(a) ==
    a.body # "empty" /\ a.type \in {"proto", "json"} /\ ~a.parses

(* An error that is not marked permanent is one the retry sender retries,  *)
(* also when the server has accepted the packet.                           *)
Outcome(a) ==
    IF a.code \in 200..299
    THEN IF readResponseBodyFails(a) \/ PartialSuccessHandlerFails(a)
         THEN "unreadable" ELSE "ok"
    ELSE IF isRetryableStatusCode(a.code) THEN "retryable"
    ELSE "permanent"
=============================================================================
