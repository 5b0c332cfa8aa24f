---------------------------- MODULE TurnContract ----------------------------
(* What the agent promises about the turns of one conversation, whatever     *)
(* worker runs them: a prompt is tried one attempt at a time, an attempt     *)
(* that may have written is never offered for a retry, and one whose end is  *)
(* not known is left to the user.                                            *)
EXTENDS Integers, FiniteSets

CONSTANTS Attempts, NoAttempt

VARIABLES
  phase,    \* where each attempt stands
  prompt,   \* the attempt that was first asked the same prompt
  wrote     \* the attempts whose write took effect

contract == <<phase, prompt, wrote>>

Phases == {"new", "open", "offered", "lost", "closed"}

ContractInit ==
  /\ phase = [a \in Attempts |-> "new"]
  /\ prompt = [a \in Attempts |-> NoAttempt]
  /\ wrote = {}

(* A page asks: a prompt of its own or that of an earlier attempt again.     *)
Ask(a, p) ==
  /\ prompt[a] = NoAttempt
  /\ p = a \/ \E b \in Attempts : prompt[b] = p
  /\ prompt' = [prompt EXCEPT ![a] = p]
  /\ UNCHANGED <<phase, wrote>>

(* A new attempt takes every offer away, the one it retries among them.      *)
Open(a) ==
  /\ phase[a] = "new"
  /\ \A b \in Attempts : phase[b] \notin {"open", "lost"}
  /\ prompt[a] = a \/ \E b \in Attempts : phase[b] = "offered" /\ prompt[a] = prompt[b]
  /\ phase' = [b \in Attempts |->
       IF b = a THEN "open" ELSE IF phase[b] = "offered" THEN "closed" ELSE phase[b]]
  /\ UNCHANGED <<prompt, wrote>>

Write(a) ==
  /\ phase[a] = "open" /\ a \notin wrote
  /\ wrote' = wrote \cup {a}
  /\ UNCHANGED <<phase, prompt>>

End(a) ==
  /\ phase[a] = "open"
  /\ \E p \in (IF a \in wrote THEN {"closed"} ELSE {"closed", "offered"}) :
       phase' = [phase EXCEPT ![a] = p]
  /\ UNCHANGED <<prompt, wrote>>

Lose(a) ==
  /\ phase[a] = "open"
  /\ phase' = [phase EXCEPT ![a] = "lost"]
  /\ UNCHANGED <<prompt, wrote>>

GiveUp(a) ==
  /\ phase[a] \in {"offered", "lost"}
  /\ phase' = [phase EXCEPT ![a] = "closed"]
  /\ UNCHANGED <<prompt, wrote>>

(* The conversation is deleted. *)
Erase ==
  /\ phase' = [a \in Attempts |-> "closed"]
  /\ UNCHANGED <<prompt, wrote>>

ContractNext ==
  \/ \E a, p \in Attempts : Ask(a, p)
  \/ \E a \in Attempts : Open(a) \/ Write(a) \/ End(a) \/ Lose(a) \/ GiveUp(a)
  \/ Erase

ContractSpec == ContractInit /\ [][ContractNext]_contract

(* A prompt takes effect once: of the attempts that tried it, at most one    *)
(* has written.                                                              *)
PromptWritesOnce ==
  \A a, b \in wrote : prompt[a] = prompt[b] => a = b
=============================================================================
