------------------------------ MODULE MCKbpmClient ------------------------------
(* Instances of KbpmClient for TLC. *)
EXTENDS KbpmClientProps

CONSTANTS a, b

\* What is left out to keep the run short: after `stop` every word but an id, after
\* `restart` every word but a name (all are looked up as those after `start` and
\* `remove` are); terminals that fall silent when the command at hand has no connection
\* in the queue behind them; programs of b that end by themselves, which no table and no
\* command looks at; and the rest of a boot loop that a removal raced, after which no id
\* is promised.
Focus ==
  /\ cmd'.op = "stop" => cmd'.msg.kind \in {"id", "unknown"}
  /\ cmd'.op = "restart" => cmd'.msg.kind \in {"name", "unknown"}
  /\ silent' => silent \/ conn = "queued"
  /\ up' /\ apps' = apps /\ b \in alive => b \in alive'
  /\ skipped /\ boot /\ up' => UNCHANGED <<boot, visit>>
===============================================================================
