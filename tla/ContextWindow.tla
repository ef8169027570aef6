--------------------------- MODULE ContextWindow ---------------------------
(***************************************************************************)
(* What the model is asked in a session: cmd/server/context_assembler.go    *)
(* and the token estimates of pkg/llm, on top of the sessions of Session.   *)
(*                                                                          *)
(* A request that asks the model has stored its prompt in the row, and the  *)
(* copy it holds may be one that others have overtaken.  The assembler cuts *)
(* that copy's history to a window, and puts a system prompt before it.     *)
(* Texts are their numbers of words.                                        *)
(***************************************************************************)
EXTENDS Session

LOCAL INSTANCE FiniteSetsExt

CONSTANTS
    Words,          \* the words of each user message
    ReplyWords,     \* the words of a reply
    PartWords       \* the words of what a system prompt is made of

Part == {"role", "seed", "constraints", "parent", "sources"}

ASSUME ContextAssumption ==
    /\ Words \in [Texts -> Nat]
    /\ ReplyWords \in Nat
    /\ PartWords \in [Part -> Nat]

-----------------------------------------------------------------------------
(* Tokens. *)

(* About four tokens for three words. *)
EstimateTokens(words) == IF words = 0 THEN 0 ELSE (words * 4 + 2) \div 3

TruncateToTokenBudget(words, budget) ==
    IF EstimateTokens(words) <= budget THEN words ELSE (budget * 3) \div 4

-----------------------------------------------------------------------------
(* The system prompt. *)

SessionType == {"exploration", "shaping", "synthesis", "digest"}

Budget(system, seed, leaf, history) ==
    [SystemPrompt |-> system, SeedContext |-> seed, LeafContext |-> leaf, History |-> history]

budgetForSessionType(type) ==
    CASE type = "exploration" -> Budget(600, 500, 800, 4000)
      [] type = "shaping"     -> Budget(600, 400, 600, 4000)
      [] type = "synthesis"   -> Budget(600, 400, 4000, 1000)
      [] type = "digest"      -> Budget(600, 500, 0, 3000)

(* What each kind of prompt tells, as far as it was found. *)
PartsOf(type) ==
    {"role", "seed"} \cup
        CASE type = "exploration" -> {"constraints", "parent"}
          [] type = "shaping"     -> {"parent"}
          [] type = "synthesis"   -> {"sources"}
          [] type = "digest"      -> {}

(* A parent or sources that were not found are left out, with a warning.    *)
(* Without its seed nothing is assembled (Session!AskFails).                *)
Found == {{"role", "seed", "constraints"} \cup s : s \in SUBSET {"parent", "sources"}}

PromptWords(type, found) == MapThenSumSet(LAMBDA p : PartWords[p], PartsOf(type) \cap found)

-----------------------------------------------------------------------------
(* The history. *)

WordsOf(m) == IF m.role = "user" THEN Words[m.text] ELSE ReplyWords

(* Four tokens for what marks a message. *)
CostOf(m) == EstimateTokens(WordsOf(m)) + 4

(* What the messages from the i-th on cost. *)
Used(messages, i) == MapThenSumSet(LAMBDA j : CostOf(messages[j]), i .. Len(messages))

Fits(messages, i, budget) == Used(messages, i) <= budget

(* Mutant of slidingWindowHistory: the last message is kept only if it fits. *)
StrictWindow(messages, budget) ==
    LET n == Len(messages)
        start[i \in 0 .. n] ==
            IF i = 0 THEN 1
            ELSE IF ~Fits(messages, i, budget) THEN i + 1
            ELSE start[i - 1]
    IN  SubSeq(messages, start[n], n)

(* The walk back from the end: it stops before the message that no longer   *)
(* fits, but takes the last one whatever it costs.                          *)
slidingWindowHistory(messages, budget) ==
    LET n == Len(messages)
        start[i \in 0 .. n] ==
            IF i = 0 THEN 1
            ELSE IF ~Fits(messages, i, budget) /\ i < n THEN i + 1
            ELSE start[i - 1]
    IN  SubSeq(messages, start[n], n)

Assemble(type, found, messages) ==
    LET b == budgetForSessionType(type)
    IN  [system  |-> TruncateToTokenBudget(PromptWords(type, found),
                                           b.SystemPrompt + b.SeedContext + b.LeafContext),
         history |-> slidingWindowHistory(messages, b.History)]

-----------------------------------------------------------------------------
(* Whatever a request has been overtaken by, the model is asked the prompt  *)
(* of this request, last, after as many of the messages before it as the    *)
(* budget has room for: all that fit, in their order, with no gap; and the  *)
(* system prompt keeps to its budget.  Only a prompt that is too long by    *)
(* itself exceeds the budget.                                               *)
ModelSeesPrompt ==
    \A r \in Requests : at[r] = "asking" =>
        LET messages == snap[r].messages
            n == Len(messages)
        IN  \A type \in SessionType, found \in Found :
                LET b == budgetForSessionType(type)
                    asked == Assemble(type, found, messages)
                    k == Len(asked.history)
                IN  /\ k > 0
                    /\ asked.history = SubSeq(messages, n - k + 1, n)
                    /\ asked.history[k] = [role |-> "user", by |-> r, text |-> job[r].text]
                    /\ k > 1 => Fits(messages, n - k + 1, b.History)
                    /\ k < n => ~Fits(messages, n - k, b.History)
                    /\ EstimateTokens(asked.system)
                           <= b.SystemPrompt + b.SeedContext + b.LeafContext
=============================================================================
