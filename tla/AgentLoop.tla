------------------------------ MODULE AgentLoop ------------------------------
(***************************************************************************)
(* One run of an agent on the native runtime (AgentRuntime.run in          *)
(* src/teaming24/agent/framework/native/runtime.py): the messages are sent   *)
(* to the LLM, the tools it asks for are executed and their results          *)
(* appended, until it answers with a text or the iterations are used up.     *)
(* Before each request the messages are compacted when they come near the     *)
(* limit of the model (src/teaming24/agent/context.py).                     *)
(*                                                                         *)
(* A message is its role, the number of tool calls it asks for, and its size;  *)
(* a unit of size is a share of the context window.  What the LLM answers and   *)
(* what tools return are choices.                                            *)
(***************************************************************************)
EXTENDS Integers, SequencesExt

CONSTANTS MaxIterations,   \* framework.native.max_iterations
          Threshold,       \* 85 % of the window less the reserve for the response
          MaxToolCalls,    \* bound: tool calls of one answer
          ReplySizes,      \* sizes of what tools return
          SummarySize      \* size of a summary, which is cut to 2000 characters

AgentLoopAssumption ==
  /\ {MaxIterations, Threshold, MaxToolCalls, SummarySize} \subseteq Nat \ {0}
  /\ ReplySizes \subseteq Nat \ {0}

VARIABLES
  messages,   \* the conversation
  iteration,  \* requests sent
  phase,      \* "ask", "wait" for the LLM, "tools", "ended"
  left,       \* tool calls of the last answer that are not executed yet
  outcome     \* "text", "llm error", "last message", or "none" while the loop runs

loopVars == <<messages, iteration, phase, left, outcome>>

Message(role, calls, size) == [role |-> role, calls |-> calls, size |-> size]

LoopTypeOK ==
  /\ messages \in Seq([role : {"system", "user", "assistant", "tool"},
                       calls : 0 .. MaxToolCalls, size : Nat])
  /\ iteration \in 0 .. MaxIterations
  /\ phase \in {"ask", "wait", "tools", "ended"}
  /\ left \in 0 .. MaxToolCalls
  /\ outcome \in {"none", "text", "llm error", "last message"}
  /\ phase = "ended" <=> outcome # "none"

LoopInit ==
  /\ messages = <<Message("system", 0, 1), Message("user", 0, 1)>>
  /\ iteration = 0 /\ phase = "ask" /\ left = 0 /\ outcome = "none"

\* count_message_tokens.
Tokens(ms) == FoldLeft(LAMBDA sum, m : sum + m.size, 0, ms)

NeedsCompaction(ms) == Tokens(ms) > Threshold

\* The system message, a summary of the middle, and the last four messages.
Compacted(ms) ==
  IF Len(ms) <= 6
  THEN ms
  ELSE <<Head(ms), Message("system", 0, SummarySize)>> \o SubSeq(ms, Len(ms) - 3, Len(ms))

\* The next request, with the guard of the context window before it.
Ask ==
  /\ phase = "ask" /\ iteration < MaxIterations
  /\ messages' = IF NeedsCompaction(messages) THEN Compacted(messages) ELSE messages
  /\ iteration' = iteration + 1
  /\ phase' = "wait"
  /\ UNCHANGED <<left, outcome>>

\* A failed call ends the run with a text that says so.
LLMFails ==
  /\ phase = "wait"
  /\ phase' = "ended" /\ outcome' = "llm error"
  /\ UNCHANGED <<messages, iteration, left>>

FinalAnswer ==
  /\ phase = "wait"
  /\ phase' = "ended" /\ outcome' = "text"
  /\ UNCHANGED <<messages, iteration, left>>

CallTools(n) ==
  /\ phase = "wait"
  /\ messages' = Append(messages, Message("assistant", n, 1))
  /\ phase' = "tools" /\ left' = n
  /\ UNCHANGED <<iteration, outcome>>

\* Mutated form: the loop skips a tool it does not know.
SkipUnknown(size) ==
  /\ phase = "tools"
  /\ messages' \in {messages, Append(messages, Message("tool", 0, size))}
  /\ left' = left - 1
  /\ phase' = IF left = 1 THEN "ask" ELSE "tools"
  /\ UNCHANGED <<iteration, outcome>>

\* A tool that fails, is unknown or gets arguments that cannot be parsed has a reply too.
ToolReplies(size) ==
  /\ phase = "tools"
  /\ messages' = Append(messages, Message("tool", 0, size))
  /\ left' = left - 1
  /\ phase' = IF left = 1 THEN "ask" ELSE "tools"
  /\ UNCHANGED <<iteration, outcome>>

\* After the last iteration the answer is what the last message says, a tool's result.
OutOfIterations ==
  /\ phase = "ask" /\ iteration = MaxIterations
  /\ phase' = "ended" /\ outcome' = "last message"
  /\ UNCHANGED <<messages, iteration, left>>

LoopNext ==
  \/ Ask
  \/ LLMFails
  \/ FinalAnswer
  \/ \E n \in 1 .. MaxToolCalls : CallTools(n)
  \/ \E s \in ReplySizes : ToolReplies(s)
  \/ OutOfIterations

LoopSpec == LoopInit /\ [][LoopNext]_loopVars

-----------------------------------------------------------------------------

\* Whatever tools do and wherever compaction cuts, in each request a message that asks
\* for tools is followed by as many replies: a provider refuses a conversation with a
\* call that has none, and the run would end with an error.
CallsAreAnswered ==
  phase = "wait" =>
    \A i \in DOMAIN messages : \A k \in 1 .. messages[i].calls :
      i + k \in DOMAIN messages /\ messages[i + k].role = "tool"
=============================================================================
