----------------------------- MODULE ToolRunner -----------------------------
(***************************************************************************)
(* runToolStreaming (internal/linkplane/exec.go) running objdump with      *)
(* parseObjdumpStream (objdump.go) as its consumer: a child process, two   *)
(* bounded kernel pipes, the goroutine exec.Cmd starts for stderr, and the *)
(* caller, which reads, drains on a parse error, and waits.                *)
(*                                                                         *)
(* The child and the pipes are external; they are modelled from what       *)
(* runToolStreaming relies on.  A line of output is a record; its text is  *)
(* only what parseObjdumpStream's expressions tell apart.                  *)
(***************************************************************************)
EXTENDS Naturals, Sequences, SequencesExt, Ordered

CONSTANTS
    Syms,       \* symbols the disassembly mentions
    MaxLines,   \* bound: lines the child would print
    PipeCap,    \* lines a pipe holds
    HeadLimit,  \* stdoutHeadLimit, in lines
    MaxStderr   \* bound: lines the child may print on stderr

ASSUME ToolRunnerAssumption ==
    /\ MaxLines \in Nat /\ HeadLimit \in Nat /\ MaxStderr \in Nat
    /\ PipeCap \in Nat \ {0}
    /\ "" \notin Syms   \* odFuncRe's name is not empty

\* "func": a line odFuncRe matches; "call": one odDirectCallRe matches;
\* "other": neither; "long": one longer than the scanner's 4 MiB buffer.
Lines == [kind : {"func", "call"}, sym : Syms]
            \cup [kind : {"other", "long"}, sym : {"-"}]

VARIABLES
    script,   \* what the child prints if it is not cut short
    printed,  \* lines written to stdout so far
    stderrs,  \* lines written to stderr so far
    child,    \* "running", "ok" or "fail" once exited
    out,      \* stdout pipe
    err,      \* stderr pipe: lines not yet copied
    copied,   \* stderr bytes.Buffer: lines copied by the goroutine
    pc,       \* the caller: "consume", "drain", "wait", "returned"
    curFunc,  \* parseObjdumpStream's curFunc, "" before the first header
    edges,    \* parseObjdumpStream's edges
    head,     \* boundedBuffer
    n,        \* countingReader.n
    perr,     \* consumeErr # nil
    result    \* "none", "ok", "consume error", "tool error"

childVars  == <<script, printed, stderrs, child>>
parserVars == <<curFunc, edges>>
teeVars    == <<head, n>>
vars == <<script, printed, stderrs, child, out, err, copied, pc, curFunc, edges,
          head, n, perr, result>>

\* cmd.Start succeeded; the caller is about to call consume.
Init ==
    /\ script \in BoundedSeq(Lines, MaxLines)
    /\ printed = 0 /\ stderrs = 0 /\ child = "running"
    /\ out = <<>> /\ err = 0 /\ copied = 0
    /\ pc = "consume"
    /\ curFunc = "" /\ edges = <<>>
    /\ head = <<>> /\ n = 0
    /\ perr = FALSE /\ result = "none"

-----------------------------------------------------------------------------
(* The child.                                                              *)

WriteOut ==
    /\ child = "running"
    /\ printed < Len(script)
    /\ Len(out) < PipeCap
    /\ out' = Append(out, script[printed + 1])
    /\ printed' = printed + 1
    /\ UNCHANGED <<script, stderrs, child, err, copied, pc, parserVars, teeVars, perr, result>>

WriteErr ==
    /\ child = "running"
    /\ stderrs < MaxStderr
    /\ err < PipeCap
    /\ err' = err + 1
    /\ stderrs' = stderrs + 1
    /\ UNCHANGED <<script, printed, child, out, copied, pc, parserVars, teeVars, perr, result>>

\* It exits 0 only when it has printed everything,
Exit ==
    /\ child = "running" /\ printed = Len(script)
    /\ child' = "ok"
    /\ UNCHANGED <<script, printed, stderrs, out, err, copied, pc, parserVars, teeVars, perr, result>>

\* and fails, or is killed, at any time.
Die ==
    /\ child = "running"
    /\ child' = "fail"
    /\ UNCHANGED <<script, printed, stderrs, out, err, copied, pc, parserVars, teeVars, perr, result>>

\* exec.Cmd's goroutine copying stderr into the buffer.
CopyStderr ==
    /\ err > 0
    /\ err' = err - 1
    /\ copied' = copied + 1
    /\ UNCHANGED <<childVars, out, pc, parserVars, teeVars, perr, result>>

-----------------------------------------------------------------------------
(* The caller.                                                             *)

EOF == out = <<>> /\ child # "running"

\* io.TeeReader into boundedBuffer.Write, under countingReader.Read.
Tee(line) ==
    /\ head' = IF Len(head) < HeadLimit THEN Append(head, line) ELSE head
    /\ n' = n + 1

\* One turn of parseObjdumpStream's loop.
ParseLine(line) ==
    CASE line.kind = "func" -> curFunc' = line.sym /\ UNCHANGED edges
      [] line.kind = "call" /\ curFunc # "" ->
            edges' = Append(edges, <<curFunc, line.sym>>) /\ UNCHANGED curFunc
      [] OTHER -> UNCHANGED parserVars

\* Mutant of Consume: a parse error goes straight to Wait.
ConsumeNoDrain ==
    /\ pc = "consume"
    /\ out # <<>>
    /\ out' = Tail(out)
    /\ Tee(Head(out))
    /\ \/ /\ Head(out).kind = "long"
          /\ perr' = TRUE
          /\ pc' = "wait"
          /\ UNCHANGED parserVars
       \/ /\ Head(out).kind # "long"
          /\ ParseLine(Head(out))
          /\ UNCHANGED <<perr, pc>>
    /\ UNCHANGED <<childVars, err, copied, result>>

\* consume reads a line; one over the buffer ends the scan with an error.
Consume ==
    /\ pc = "consume"
    /\ out # <<>>
    /\ out' = Tail(out)
    /\ Tee(Head(out))
    /\ \/ /\ Head(out).kind = "long"
          /\ perr' = TRUE
          /\ pc' = "drain"
          /\ UNCHANGED parserVars
       \/ /\ Head(out).kind # "long"
          /\ ParseLine(Head(out))
          /\ UNCHANGED <<perr, pc>>
    /\ UNCHANGED <<childVars, err, copied, result>>

\* The scan ends at end of file.
ConsumeDone ==
    /\ pc = "consume"
    /\ EOF
    /\ pc' = "wait"
    /\ UNCHANGED <<childVars, out, err, copied, parserVars, teeVars, perr, result>>

\* io.Copy(io.Discard, counter): reads on, through the same tee.
Drain ==
    /\ pc = "drain"
    /\ \/ /\ out # <<>>
          /\ out' = Tail(out)
          /\ Tee(Head(out))
          /\ UNCHANGED pc
       \/ /\ EOF
          /\ pc' = "wait"
          /\ UNCHANGED <<out, teeVars>>
    /\ UNCHANGED <<childVars, err, copied, parserVars, perr, result>>

\* Mutant of Wait: the exit status of the tool is ignored.
WaitIgnoresStatus ==
    /\ pc = "wait"
    /\ child # "running"
    /\ err = 0
    /\ pc' = "returned"
    /\ result' = IF perr THEN "consume error" ELSE "ok"
    /\ UNCHANGED <<childVars, out, err, copied, parserVars, teeVars, perr>>

\* Mutant of Wait: the process is left behind when the consumer failed.
WaitUnreaped ==
    /\ pc = "wait"
    /\ perr \/ (child # "running" /\ err = 0)
    /\ pc' = "returned"
    /\ result' = CASE perr -> "consume error"
                   [] ~perr /\ child = "fail" -> "tool error"
                   [] OTHER -> "ok"
    /\ UNCHANGED <<childVars, out, err, copied, parserVars, teeVars, perr>>

\* cmd.Wait: the child has exited and the stderr goroutine is done.
Wait ==
    /\ pc = "wait"
    /\ child # "running"
    /\ err = 0
    /\ pc' = "returned"
    /\ result' = CASE perr -> "consume error"
                   [] ~perr /\ child = "fail" -> "tool error"
                   [] OTHER -> "ok"
    /\ UNCHANGED <<childVars, out, err, copied, parserVars, teeVars, perr>>

Returned == pc = "returned" /\ UNCHANGED vars

Caller == Consume \/ ConsumeDone \/ Drain \/ Wait

Next == WriteOut \/ WriteErr \/ Exit \/ Die \/ CopyStderr \/ Caller \/ Returned

\* The child runs whenever it is not blocked on a pipe, and so do the caller
\* and the goroutine.  Nothing makes a blocked child die.
Spec ==
    /\ Init /\ [][Next]_vars
    /\ WF_vars(WriteOut \/ WriteErr \/ Exit)
    /\ WF_vars(CopyStderr)
    /\ WF_vars(Caller)

-----------------------------------------------------------------------------
(* Properties.                                                             *)

\* The edges lines 1..m of an output stand for: every call line below some
\* function header, attributed to the closest header above it.
Headers(s, m) == {j \in 1..m : s[j].kind = "func"}

CallerOf(s, i) ==
    LET heads == Headers(s, i - 1)
    IN  CHOOSE j \in heads : \A k \in heads : k <= j

EdgeLines(s, m) == {i \in 1..m : s[i].kind = "call" /\ Headers(s, i - 1) # {}}

EdgeAt(s) == [i \in EdgeLines(s, Len(s)) |-> <<s[CallerOf(s, i)].sym, s[i].sym>>]

\* Success means the whole disassembly was parsed: a child that died half way
\* or a line too long never passes for a smaller call graph (exec.go 111-128).
OkMeansComplete ==
    result = "ok" =>
        child = "ok" /\ InOrder(edges, EdgeLines(script, Len(script)), EdgeAt(script))

\* No zombies, no lost diagnostics: the caller returns only after the child
\* exited and all of its stderr was copied, a failing consumer included, and
\* the head spliced into an error is the beginning of the output, as much of it
\* as the limit allows.
Reaped ==
    pc = "returned" =>
        /\ child # "running" /\ copied = stderrs
        /\ head = SubSeq(script, 1, IF n < HeadLimit THEN n ELSE HeadLimit)

\* runToolStreaming returns: no full pipe leaves child and caller waiting for
\* each other (exec.go 112-117).
Returns == <>(pc = "returned")
=============================================================================
