--------------------------- MODULE MCReplyDelivery ---------------------------
(* Model-checking instances of ReplyDelivery. *)
EXTENDS ReplyDelivery, TLC

AnswerSymmetry == Permutations(Answer)

\* A state the lane reaches when its first turns, with the drivers of Dead, were
\* answered and failed: their actions were reserved and could not be sent.
Undelivered(x) ==
  /\ turn = [t \in Turn |-> IF t \in Dead THEN "FAILED" ELSE "PENDING"]
  /\ requested = [t \in Turn |-> IF t \in Dead THEN x ELSE NoText]
  /\ action = [t \in Turn |-> IF t \in Dead THEN "PENDING" ELSE "NONE"]
  /\ stored = requested
  /\ aged = [t \in Turn |-> t \in Dead]
  /\ response = [t \in Turn |-> NoText] /\ outcome = response
  /\ wpc = "idle" /\ item = 0 /\ text = NoText /\ apology = FALSE
  /\ stopping = FALSE /\ dpc = "idle" /\ list = {}
  /\ calls = [k \in Slot |-> Free]
  /\ driver = [t \in Turn |-> "NONE"] /\ posts = [t \in Turn |-> {}]
  /\ twice = {} /\ connected = TRUE /\ losses = 0 /\ restarts = 0

\* Bound: one loss or one restart.
OneMishap == losses' + restarts' <= 1

LiveSpec == (\E x \in Answer : Undelivered(x)) /\ [][Next /\ OneMishap]_vars /\ Fairness
=============================================================================
