-------------------------- MODULE ToolRunnerProof --------------------------
(***************************************************************************)
(* Safety of runToolStreaming, for every output, every capacity of the     *)
(* pipes and every limit of the head.                                      *)
(***************************************************************************)
EXTENDS ToolRunner, Lemmas

TypeOK ==
    /\ script \in Seq(Lines) /\ out \in Seq(Lines) /\ head \in Seq(Lines)
    /\ printed \in 0..Len(script) /\ n \in Nat
    /\ stderrs \in Nat /\ err \in Nat /\ copied \in Nat
    /\ child \in {"running", "ok", "fail"}
    /\ pc \in {"consume", "drain", "wait", "returned"}
    /\ curFunc \in Syms \cup {""}
    /\ edges \in Seq(Syms \X Syms)
    /\ perr \in BOOLEAN
    /\ result \in {"none", "ok", "consume error", "tool error"}

\* The pipes lose and reorder nothing: what was read and what is in the pipe
\* make up what the child printed, on either stream, and the head is the
\* beginning of what was read.
PipeInv ==
    /\ n + Len(out) = printed
    /\ \A k \in 1..Len(out) : out[k] = script[n + k]
    /\ Len(head) = IF n < HeadLimit THEN n ELSE HeadLimit
    /\ \A k \in 1..Len(head) : head[k] = script[k]
    /\ stderrs = err + copied

\* The parser's state is what the lines it has read stand for.
Parsed(m) ==
    /\ InOrder(edges, EdgeLines(script, m), EdgeAt(script))
    /\ curFunc = IF Headers(script, m) = {} THEN ""
                 ELSE script[CallerOf(script, m + 1)].sym

\* How far the caller is: it leaves the loops only at the end of the file, and
\* with a line unread only after an error.
CallerInv ==
    /\ child = "ok" => printed = Len(script)
    /\ pc = "consume" => ~perr
    /\ pc = "drain" => perr
    /\ ~perr => Parsed(n)
    /\ pc \in {"wait", "returned"} => EOF
    /\ pc = "returned" => err = 0
    /\ result = "ok" => pc = "returned" /\ ~perr /\ child = "ok"

IInv == TypeOK /\ PipeInv /\ CallerInv

-----------------------------------------------------------------------------
(* One more line of an output.                                             *)

\* A line that is no header changes neither the headers above the next line nor
\* the closest of them; a header becomes the closest.
LEMMA NextHeader ==
    ASSUME NEW s \in Seq(Lines), NEW m \in Nat, m < Len(s)
    PROVE  /\ s[m + 1].kind # "func" =>
                /\ Headers(s, m + 1) = Headers(s, m)
                /\ CallerOf(s, m + 2) = CallerOf(s, m + 1)
           /\ s[m + 1].kind = "func" =>
                /\ Headers(s, m + 1) # {}
                /\ CallerOf(s, m + 2) = m + 1
<1>1. CASE s[m + 1].kind # "func"
  <2>1. Headers(s, m + 1) = Headers(s, m)
    BY <1>1 DEF Headers
  <2>2. (m + 2) - 1 = m + 1 /\ (m + 1) - 1 = m
    OBVIOUS
  <2> QED
    BY <1>1, <2>1, <2>2 DEF CallerOf
<1>2. CASE s[m + 1].kind = "func"
  <2>1. m + 1 \in Headers(s, m + 1)
    BY <1>2 DEF Headers
  <2>2. \A k \in Headers(s, m + 1) : k \in Nat /\ k <= m + 1
    BY DEF Headers
  <2>3. \A j \in Headers(s, m + 1) :
            (\A k \in Headers(s, m + 1) : k <= j) <=> j = m + 1
    BY <2>1, <2>2
  <2>4. (m + 2) - 1 = m + 1
    OBVIOUS
  <2>5. (CHOOSE j \in Headers(s, m + 1) : \A k \in Headers(s, m + 1) : k <= j) = m + 1
    BY <2>1, <2>3
  <2> QED
    BY <1>2, <2>1, <2>4, <2>5 DEF CallerOf
<1> QED
  BY <1>1, <1>2

\* The lines that make an edge are finitely many, and the next line is one of
\* them if it is a call below a header.
LEMMA NextEdgeLine ==
    ASSUME NEW s \in Seq(Lines), NEW m \in Nat, m < Len(s)
    PROVE  /\ EdgeLines(s, m) \in SUBSET Nat /\ IsFiniteSet(EdgeLines(s, m))
           /\ \A j \in EdgeLines(s, m) : j < m + 1
           /\ EdgeLines(s, m) \subseteq EdgeLines(s, Len(s))
           /\ EdgeLines(s, m + 1) =
                IF s[m + 1].kind = "call" /\ Headers(s, m) # {}
                THEN EdgeLines(s, m) \cup {m + 1} ELSE EdgeLines(s, m)
<1>1. EdgeLines(s, m) \in SUBSET Nat /\ \A j \in EdgeLines(s, m) : j < m + 1 /\ j <= m
  BY DEF EdgeLines
<1>2. IsFiniteSet(EdgeLines(s, m))
  BY <1>1, FS_BoundedSetOfNaturals
<1>3. EdgeLines(s, m) \subseteq EdgeLines(s, Len(s))
  BY DEF EdgeLines
<1>4. (m + 1) - 1 = m
  OBVIOUS
<1>5. EdgeLines(s, m + 1) = EdgeLines(s, m) \cup
         {i \in {m + 1} : s[i].kind = "call" /\ Headers(s, i - 1) # {}}
  BY DEF EdgeLines
<1> QED
  BY <1>1, <1>2, <1>3, <1>4, <1>5

\* A turn of the parser's loop takes it from what m lines stand for to what
\* m + 1 lines stand for.
LEMMA ParseStep ==
    ASSUME TypeOK, NEW m \in Nat, m < Len(script), Parsed(m), ParseLine(script[m + 1]),
           script' = script
    PROVE  Parsed(m + 1)' /\ curFunc' \in Syms \cup {""} /\ edges' \in Seq(Syms \X Syms)
<1> DEFINE line == script[m + 1]
<1>a. script \in Seq(Lines)
  BY DEF TypeOK
<1>b. Len(script) \in Nat /\ m + 1 \in 1..Len(script) /\ (m + 1) - 1 = m
  BY <1>a
<1>0. line \in Lines
  BY <1>a, <1>b
<1>1. /\ line.kind \in {"func", "call", "other", "long"}
      /\ line.kind \in {"func", "call"} => line.sym \in Syms
  BY <1>0 DEF Lines
<1>2. (curFunc = "") <=> (Headers(script, m) = {})
  <2>1. ASSUME Headers(script, m) # {} PROVE script[CallerOf(script, m + 1)].sym \in Syms
    <3>1. /\ Headers(script, m) \in SUBSET Nat
          /\ \A k \in Headers(script, m) : k <= m
      BY DEF Headers
    <3>2. \E j \in Headers(script, m) : \A k \in Headers(script, m) : k <= j
      BY <2>1, <3>1, GreatestElement
    <3>3. (m + 1) - 1 = m
      OBVIOUS
    <3>4. CallerOf(script, m + 1) \in Headers(script, m)
      BY <3>2, <3>3 DEF CallerOf
    <3>5. /\ CallerOf(script, m + 1) \in 1..Len(script)
          /\ script[CallerOf(script, m + 1)].kind = "func"
      BY <3>4 DEF Headers
    <3>6. script[CallerOf(script, m + 1)] \in Lines
      BY <1>a, <3>5
    <3> QED
      BY <3>5, <3>6 DEF Lines
  <2> QED
    BY <2>1, ToolRunnerAssumption DEF Parsed
<1>3. (m + 1) + 1 = m + 2
  OBVIOUS
<1>4. CASE line.kind = "func"
  <2>1. curFunc' = line.sym /\ edges' = edges
    BY <1>4 DEF ParseLine
  <2>2. Headers(script, m + 1) # {} /\ CallerOf(script, m + 2) = m + 1
    BY <1>4, NextHeader DEF TypeOK
  <2>3. EdgeLines(script, m + 1) = EdgeLines(script, m)
    BY <1>4, NextEdgeLine DEF TypeOK
  <2> QED
    BY <1>1, <1>3, <1>4, <2>1, <2>2, <2>3 DEF Parsed, TypeOK
<1>5. CASE line.kind = "call" /\ curFunc # ""
  <2>1. curFunc' = curFunc /\ edges' = Append(edges, <<curFunc, line.sym>>)
    BY <1>5 DEF ParseLine
  <2>2. /\ Headers(script, m) # {} /\ Headers(script, m + 1) = Headers(script, m)
        /\ CallerOf(script, m + 2) = CallerOf(script, m + 1)
    BY <1>2, <1>5, NextHeader DEF TypeOK
  <2>3. /\ EdgeLines(script, m + 1) = EdgeLines(script, m) \cup {m + 1}
        /\ EdgeLines(script, m) \in SUBSET Nat /\ IsFiniteSet(EdgeLines(script, m))
        /\ \A j \in EdgeLines(script, m) : j < m + 1
    BY <1>5, <2>2, NextEdgeLine DEF TypeOK
  <2>4. m + 1 \in EdgeLines(script, Len(script))
    BY <1>b, <1>5, <2>2 DEF EdgeLines
  <2>5. <<curFunc, line.sym>> = EdgeAt(script)[m + 1]
    BY <2>2, <2>4 DEF EdgeAt, Parsed
  <2>6. <<curFunc, line.sym>> \in Syms \X Syms
    BY <1>1, <1>5 DEF TypeOK
  <2>7. InOrder(edges, EdgeLines(script, m), EdgeAt(script)) /\ edges \in Seq(Syms \X Syms)
    BY DEF Parsed, TypeOK
  <2>8. InOrder(Append(edges, <<curFunc, line.sym>>), EdgeLines(script, m) \cup {m + 1},
                EdgeAt(script))
    <3> DEFINE S == EdgeLines(script, m)
               i == m + 1
               A == Syms \X Syms
               e == <<curFunc, line.sym>>
               f == EdgeAt(script)
    <3>1. S \in SUBSET Nat /\ IsFiniteSet(S) /\ (\A j \in S : j < i) /\ i \in Nat
      BY <2>3
    <3>2. InOrder(edges, S, f) /\ edges \in Seq(A) /\ e \in A /\ e = f[i]
      BY <2>5, <2>6, <2>7
    <3> HIDE DEF S, i, A, e, f
    <3>3. InOrder(Append(edges, e), S \cup {i}, f)
      BY <3>1, <3>2, InOrderAppend
    <3> QED
      BY <3>3 DEF S, i, e, f
  <2>9. edges' \in Seq(Syms \X Syms)
    BY <2>1, <2>6, <2>7
  <2> QED
    BY <1>3, <2>1, <2>2, <2>3, <2>8, <2>9 DEF Parsed, TypeOK
<1>6. CASE line.kind # "func" /\ ~(line.kind = "call" /\ curFunc # "")
  <2>1. curFunc' = curFunc /\ edges' = edges
    BY <1>6 DEF ParseLine, parserVars
  <2>2. /\ Headers(script, m + 1) = Headers(script, m)
        /\ CallerOf(script, m + 2) = CallerOf(script, m + 1)
    BY <1>6, NextHeader DEF TypeOK
  <2>3. EdgeLines(script, m + 1) = EdgeLines(script, m)
    BY <1>2, <1>6, NextEdgeLine DEF TypeOK
  <2> QED
    BY <1>3, <2>1, <2>2, <2>3 DEF Parsed, TypeOK
<1> QED
  BY <1>4, <1>5, <1>6

-----------------------------------------------------------------------------
(* The invariant.                                                          *)

\* The inductive invariant holds before the child is started.
LEMMA Initially == Init => IInv
<1> SUFFICES ASSUME Init PROVE IInv
  OBVIOUS
<1>1. script \in Seq(Lines) /\ Len(script) \in Nat
  <2>1. PICK m \in 0..MaxLines : script \in [1..m -> Lines]
    BY DEF Init, BoundedSeq, SeqOf
  <2>2. MaxLines \in Nat
    BY ToolRunnerAssumption
  <2>3. m \in Nat
    BY <2>1, <2>2
  <2> QED
    BY <2>1, <2>3
<1>a. /\ out = <<>> /\ head = <<>> /\ edges = <<>> /\ n = 0 /\ printed = 0
      /\ stderrs = 0 /\ err = 0 /\ copied = 0 /\ HeadLimit \in Nat
  BY ToolRunnerAssumption DEF Init
<1>b. /\ out \in Seq(Lines) /\ head \in Seq(Lines) /\ edges \in Seq(Syms \X Syms)
      /\ Len(out) = 0 /\ Len(head) = 0 /\ n \in Nat /\ printed \in 0..Len(script)
      /\ stderrs \in Nat /\ err \in Nat /\ copied \in Nat
  BY <1>1, <1>a
<1>2. TypeOK
  BY <1>1, <1>b DEF Init, TypeOK
<1>3. PipeInv
  BY <1>a, <1>b DEF PipeInv
<1>4. Parsed(0)
  <2>1. EdgeLines(script, 0) = {} /\ Headers(script, 0) = {}
    BY DEF EdgeLines, Headers
  <2> QED
    BY <2>1, InOrderEmpty DEF Parsed, Init
<1>5. CallerInv
  BY <1>4 DEF Init, CallerInv
<1> QED
  BY <1>2, <1>3, <1>5 DEF IInv

\* Reading a line moves it from the pipe to the head and the count.
LEMMA TakeLine ==
    ASSUME IInv, out # <<>>, out' = Tail(out), Tee(Head(out)),
           UNCHANGED <<script, printed, stderrs, err, copied>>
    PROVE  /\ PipeInv' /\ Head(out) = script[n + 1] /\ n < Len(script)
           /\ out' \in Seq(Lines) /\ head' \in Seq(Lines) /\ n' \in Nat
<1>1. /\ script \in Seq(Lines) /\ out \in Seq(Lines) /\ head \in Seq(Lines)
      /\ n \in Nat /\ printed \in 0..Len(script)
  BY DEF IInv, TypeOK
<1>2. Len(out) \in Nat /\ Len(script) \in Nat /\ Len(head) \in Nat /\ Len(out) >= 1
  BY <1>1
<1>3. n + Len(out) = printed /\ \A k \in 1..Len(out) : out[k] = script[n + k]
  BY DEF IInv, PipeInv
<1>4. Head(out) = script[n + 1] /\ n < Len(script) /\ Head(out) \in Lines
  BY <1>1, <1>2, <1>3
<1>5. /\ out' \in Seq(Lines) /\ Len(out') = Len(out) - 1
      /\ \A k \in 1..Len(out') : out'[k] = out[k + 1]
  BY <1>1, <1>2
<1>6. \A k \in 1..Len(out') : out'[k] = script'[n' + k]
  <2>1. n' = n + 1 /\ script' = script
    BY DEF Tee
  <2>2. \A k \in 1..Len(out') : k + 1 \in 1..Len(out) /\ n + (k + 1) = (n + 1) + k
    BY <1>1, <1>2, <1>5
  <2> QED
    BY <1>3, <1>5, <2>1, <2>2
<1>a. n' = n + 1 /\ printed' = printed
  BY DEF Tee
<1>7. n' + Len(out') = printed'
  <2>1. (n + 1) + (Len(out) - 1) = n + Len(out)
    BY <1>1, <1>2
  <2> QED
    BY <1>a, <1>3, <1>5, <2>1
<1>8. /\ head' \in Seq(Lines)
      /\ Len(head') = IF n' < HeadLimit THEN n' ELSE HeadLimit
      /\ \A k \in 1..Len(head') : head'[k] = script'[k]
  <2>1. /\ Len(head) = IF n < HeadLimit THEN n ELSE HeadLimit
        /\ \A k \in 1..Len(head) : head[k] = script[k]
    BY DEF IInv, PipeInv
  <2>a. HeadLimit \in Nat
    BY ToolRunnerAssumption
  <2>2. CASE Len(head) < HeadLimit
    <3>1. head' = Append(head, Head(out)) /\ n' = n + 1 /\ script' = script
      BY <2>2 DEF Tee
    <3>2. Len(head) = n
      BY <1>1, <2>a, <2>1, <2>2
    <3>3. head' \in Seq(Lines) /\ Len(head') = n + 1
      BY <1>1, <1>4, <3>1, <3>2
    <3>4. \A k \in 1..Len(head') : head'[k] = IF k = n + 1 THEN Head(out) ELSE head[k]
      BY <1>1, <3>1, <3>2
    <3> QED
      BY <1>1, <1>4, <2>a, <2>1, <2>2, <3>1, <3>2, <3>3, <3>4
  <2>3. CASE ~(Len(head) < HeadLimit)
    <3>1. head' = head /\ n' = n + 1 /\ script' = script
      BY <2>3 DEF Tee
    <3> QED
      BY <1>1, <2>a, <2>1, <2>3, <3>1
  <2> QED
    BY <2>2, <2>3
<1>9. stderrs' = err' + copied'
  BY DEF IInv, PipeInv
<1> QED
  BY <1>1, <1>a, <1>4, <1>5, <1>6, <1>7, <1>8, <1>9 DEF PipeInv

\* Every step of the parent, the child and the goroutines keeps it.
LEMMA Inductive == IInv /\ [Next]_vars => IInv'
<1> SUFFICES ASSUME IInv, [Next]_vars PROVE IInv'
  OBVIOUS
<1>a. /\ script \in Seq(Lines) /\ out \in Seq(Lines) /\ n \in Nat /\ printed \in 0..Len(script)
      /\ stderrs \in Nat /\ err \in Nat /\ copied \in Nat
  BY DEF IInv, TypeOK
<1>b. /\ n + Len(out) = printed /\ \A k \in 1..Len(out) : out[k] = script[n + k]
      /\ stderrs = err + copied
  BY DEF IInv, PipeInv
<1>c. Len(script) \in Nat /\ Len(out) \in Nat /\ printed \in Nat
  BY <1>a
<1>0. /\ script \in Seq(Lines) /\ Len(script) \in Nat /\ out \in Seq(Lines) /\ Len(out) \in Nat
      /\ n \in Nat /\ printed \in 0..Len(script)
  BY <1>a, <1>c
<1>1. CASE WriteOut
  <2>1. /\ out' = Append(out, script[printed + 1]) /\ printed' = printed + 1 /\ printed < Len(script)
        /\ child = "running" /\ UNCHANGED <<script, stderrs, child, err, copied, pc, curFunc, edges, head, n, perr, result>>
    BY <1>1 DEF WriteOut, parserVars, teeVars
  <2>2. script[printed + 1] \in Lines
    BY <1>0, <2>1
  <2>3. /\ out' \in Seq(Lines) /\ Len(out') = Len(out) + 1
        /\ \A k \in 1..Len(out') : out'[k] = IF k = Len(out) + 1 THEN script[printed + 1] ELSE out[k]
    BY <1>0, <2>1, <2>2
  <2>4. TypeOK'
    <3>1. printed' \in 0..Len(script')
      BY <1>0, <2>1
    <3> QED
      BY <2>1, <2>3, <3>1 DEF IInv, TypeOK
  <2>5. PipeInv'
    BY <1>0, <2>1, <2>3 DEF IInv, PipeInv
  <2>6. CallerInv'
    <3>1. pc \notin {"wait", "returned"}
      BY <2>1 DEF IInv, CallerInv, EOF
    <3>2. Parsed(n) <=> Parsed(n)'
      BY <2>1 DEF Parsed
    <3> QED
      BY <2>1, <3>1, <3>2 DEF IInv, CallerInv
  <2> QED
    BY <2>4, <2>5, <2>6 DEF IInv
<1>2. CASE WriteErr
  <2>1. /\ stderrs' = stderrs + 1 /\ err' = err + 1 /\ child = "running"
        /\ UNCHANGED <<script, printed, child, out, copied, pc, curFunc, edges, head, n, perr, result>>
    BY <1>2 DEF WriteErr, parserVars, teeVars
  <2>a. stderrs' \in Nat /\ err' \in Nat /\ copied' \in Nat /\ stderrs' = err' + copied'
    BY <1>a, <1>b, <2>1
  <2>2. TypeOK'
    BY <2>1, <2>a DEF IInv, TypeOK
  <2>3. PipeInv'
    BY <2>1, <2>a DEF IInv, PipeInv
  <2>4. CallerInv'
    <3>1. pc \notin {"wait", "returned"}
      BY <2>1 DEF IInv, CallerInv, EOF
    <3>2. Parsed(n) <=> Parsed(n)'
      BY <2>1 DEF Parsed
    <3> QED
      BY <2>1, <3>1, <3>2 DEF IInv, CallerInv
  <2> QED
    BY <2>2, <2>3, <2>4 DEF IInv
<1>3. CASE Exit \/ Die
  <2>1. /\ child = "running" /\ child' \in {"ok", "fail"} /\ (child' = "ok" => printed = Len(script))
        /\ UNCHANGED <<script, printed, stderrs, out, err, copied, pc, curFunc, edges, head, n, perr, result>>
    BY <1>3 DEF Exit, Die, parserVars, teeVars
  <2>2. TypeOK'
    BY <2>1 DEF IInv, TypeOK
  <2>3. PipeInv'
    BY <2>1 DEF IInv, PipeInv
  <2>4. CallerInv'
    <3>1. pc \notin {"wait", "returned"}
      BY <2>1 DEF IInv, CallerInv, EOF
    <3>2. Parsed(n) <=> Parsed(n)'
      BY <2>1 DEF Parsed
    <3> QED
      BY <2>1, <3>1, <3>2 DEF IInv, CallerInv
  <2> QED
    BY <2>2, <2>3, <2>4 DEF IInv
<1>4. CASE CopyStderr
  <2>1. /\ err > 0 /\ err' = err - 1 /\ copied' = copied + 1
        /\ UNCHANGED <<script, printed, stderrs, child, out, pc, curFunc, edges, head, n, perr, result>>
    BY <1>4 DEF CopyStderr, childVars, parserVars, teeVars
  <2>a. stderrs' \in Nat /\ err' \in Nat /\ copied' \in Nat /\ stderrs' = err' + copied'
    BY <1>a, <1>b, <2>1
  <2>2. TypeOK'
    BY <2>1, <2>a DEF IInv, TypeOK
  <2>3. PipeInv'
    BY <2>1, <2>a DEF IInv, PipeInv
  <2>4. CallerInv'
    <3>1. Parsed(n) <=> Parsed(n)'
      BY <2>1 DEF Parsed
    <3> QED
      BY <2>1, <3>1 DEF IInv, CallerInv, EOF
  <2> QED
    BY <2>2, <2>3, <2>4 DEF IInv
<1>5. CASE Consume
  <2>1. /\ pc = "consume" /\ out # <<>> /\ out' = Tail(out) /\ Tee(Head(out))
        /\ UNCHANGED <<script, printed, stderrs, child, err, copied, result>>
    BY <1>5 DEF Consume, childVars
  <2>2. /\ PipeInv' /\ Head(out) = script[n + 1] /\ n < Len(script)
        /\ out' \in Seq(Lines) /\ head' \in Seq(Lines) /\ n' \in Nat
    BY <2>1, TakeLine
  <2>3. ~perr /\ Parsed(n) /\ n' = n + 1
    BY <2>1 DEF IInv, CallerInv, Tee
  <2>4. CASE Head(out).kind = "long"
    <3>1. perr' = TRUE /\ pc' = "drain" /\ UNCHANGED <<curFunc, edges>>
      BY <1>5, <2>4 DEF Consume, parserVars
    <3>2. TypeOK'
      BY <2>1, <2>2, <3>1 DEF IInv, TypeOK
    <3>3. CallerInv'
      BY <2>1, <3>1 DEF IInv, CallerInv
    <3> QED
      BY <2>2, <3>2, <3>3 DEF IInv
  <2>5. CASE Head(out).kind # "long"
    <3>1. ParseLine(script[n + 1]) /\ UNCHANGED <<perr, pc>>
      BY <1>5, <2>2, <2>5 DEF Consume
    <3>a. PICK m \in Nat : m = n
      BY <1>a
    <3>b. Parsed(m) /\ ParseLine(script[m + 1]) /\ m < Len(script) /\ script' = script /\ n' = m + 1
      BY <2>1, <2>2, <2>3, <3>1, <3>a
    <3>2. Parsed(m + 1)' /\ curFunc' \in Syms \cup {""} /\ edges' \in Seq(Syms \X Syms)
      BY <3>b, ParseStep DEF IInv
    <3>3. TypeOK'
      BY <2>1, <2>2, <3>1, <3>2 DEF IInv, TypeOK
    <3>4. Parsed(n)'
      BY <3>b, <3>2 DEF Parsed
    <3>5. CallerInv'
      BY <2>1, <3>1, <3>4 DEF IInv, CallerInv
    <3> QED
      BY <2>2, <3>3, <3>5 DEF IInv
  <2> QED
    BY <2>4, <2>5
<1>6. CASE ConsumeDone
  <2>1. /\ pc = "consume" /\ EOF /\ pc' = "wait"
        /\ UNCHANGED <<script, printed, stderrs, child, out, err, copied, curFunc, edges, head, n, perr, result>>
    BY <1>6 DEF ConsumeDone, childVars, parserVars, teeVars
  <2>2. TypeOK'
    BY <2>1 DEF IInv, TypeOK
  <2>3. PipeInv'
    BY <2>1 DEF IInv, PipeInv
  <2>4. CallerInv'
    <3>1. Parsed(n) <=> Parsed(n)'
      BY <2>1 DEF Parsed
    <3> QED
      BY <2>1, <3>1 DEF IInv, CallerInv, EOF
  <2> QED
    BY <2>2, <2>3, <2>4 DEF IInv
<1>7. CASE Drain
  <2>1. /\ pc = "drain" /\ perr
        /\ UNCHANGED <<script, printed, stderrs, child, err, copied, curFunc, edges, perr, result>>
    BY <1>7 DEF Drain, childVars, parserVars, IInv, CallerInv
  <2>2. CASE out # <<>> /\ out' = Tail(out) /\ Tee(Head(out)) /\ UNCHANGED pc
    <3>1. PipeInv' /\ out' \in Seq(Lines) /\ head' \in Seq(Lines) /\ n' \in Nat
      BY <2>1, <2>2, TakeLine
    <3>2. TypeOK'
      BY <2>1, <2>2, <3>1 DEF IInv, TypeOK
    <3>3. CallerInv'
      BY <2>1, <2>2 DEF IInv, CallerInv
    <3> QED
      BY <3>1, <3>2, <3>3 DEF IInv
  <2>3. CASE EOF /\ pc' = "wait" /\ UNCHANGED <<out, teeVars>>
    <3>1. UNCHANGED <<out, head, n>>
      BY <2>3 DEF teeVars
    <3>2. TypeOK'
      BY <2>1, <2>3, <3>1 DEF IInv, TypeOK
    <3>3. PipeInv'
      BY <2>1, <3>1 DEF IInv, PipeInv
    <3>4. CallerInv'
      BY <2>1, <2>3, <3>1 DEF IInv, CallerInv, EOF
    <3> QED
      BY <3>2, <3>3, <3>4 DEF IInv
  <2> QED
    BY <1>7, <2>2, <2>3 DEF Drain
<1>8. CASE Wait
  <2>1. /\ pc = "wait" /\ child # "running" /\ err = 0 /\ pc' = "returned"
        /\ UNCHANGED <<script, printed, stderrs, child, out, err, copied, curFunc, edges, head, n, perr>>
    BY <1>8 DEF Wait, childVars, parserVars, teeVars
  <2>2. /\ result' \in {"ok", "consume error", "tool error"}
        /\ result' = "ok" => ~perr /\ child # "fail"
    BY <1>8 DEF Wait
  <2>3. TypeOK'
    BY <2>1, <2>2 DEF IInv, TypeOK
  <2>4. PipeInv'
    BY <2>1 DEF IInv, PipeInv
  <2>5. CallerInv'
    <3>1. Parsed(n) <=> Parsed(n)'
      BY <2>1 DEF Parsed
    <3>2. child \in {"running", "ok", "fail"}
      BY DEF IInv, TypeOK
    <3> QED
      BY <2>1, <2>2, <3>1, <3>2 DEF IInv, CallerInv, EOF
  <2> QED
    BY <2>3, <2>4, <2>5 DEF IInv
<1>9. CASE UNCHANGED vars
  <2>1. Parsed(n) <=> Parsed(n)'
    BY <1>9 DEF vars, Parsed
  <2> QED
    BY <1>9, <2>1 DEF vars, IInv, TypeOK, PipeInv, CallerInv, EOF
<1> QED
  BY <1>1, <1>2, <1>3, <1>4, <1>5, <1>6, <1>7, <1>8, <1>9 DEF Next, Caller, Returned

\* So it always holds.
LEMMA Invariant == Spec => []IInv
BY Initially, Inductive, PTL DEF Spec

-----------------------------------------------------------------------------
(* Theorems.                                                               *)

\* Every variable keeps its type, for every output and every capacity.
THEOREM TypeCorrect == Spec => []TypeOK
<1>1. IInv => TypeOK
  BY DEF IInv
<1> QED
  BY <1>1, Invariant, PTL

\* runToolStreaming returns without an error only when the child exited 0 and
\* every line it printed was parsed: the edges are those of the whole output
\* (exec.go 111-128, objdump.go parseObjdumpStream).
THEOREM OkAlwaysMeansComplete == Spec => []OkMeansComplete
<1>1. IInv => OkMeansComplete
  <2> SUFFICES ASSUME IInv, result = "ok"
               PROVE  /\ child = "ok"
                      /\ InOrder(edges, EdgeLines(script, Len(script)), EdgeAt(script))
    BY DEF OkMeansComplete
  <2>1. child = "ok" /\ ~perr /\ pc = "returned"
    BY DEF IInv, CallerInv
  <2>2. printed = Len(script) /\ out = <<>> /\ Parsed(n)
    BY <2>1 DEF IInv, CallerInv, EOF
  <2>3. n \in Nat /\ printed = n + Len(out) /\ Len(out) = 0
    BY <2>2 DEF IInv, PipeInv, TypeOK
  <2>4. n = Len(script)
    BY <2>2, <2>3
  <2> QED
    BY <2>1, <2>2, <2>4 DEF Parsed
<1> QED
  BY <1>1, Invariant, PTL

\* The caller returns only after the child exited and its stderr was copied to
\* the last line, and the head it may splice into an error is the beginning of
\* the output (exec.go 95-140).
THEOREM AlwaysReaped == Spec => []Reaped
<1>1. IInv => Reaped
  <2> SUFFICES ASSUME IInv, pc = "returned"
               PROVE  /\ child # "running" /\ copied = stderrs
                      /\ head = SubSeq(script, 1, IF n < HeadLimit THEN n ELSE HeadLimit)
    BY DEF Reaped
  <2>1. child # "running" /\ err = 0 /\ out = <<>>
    BY DEF IInv, CallerInv, EOF
  <2>a. copied \in Nat /\ stderrs = err + copied
    BY DEF IInv, PipeInv, TypeOK
  <2>2. copied = stderrs
    BY <2>1, <2>a
  <2> DEFINE m == IF n < HeadLimit THEN n ELSE HeadLimit
  <2>3. /\ m \in Nat /\ m <= Len(script) /\ script \in Seq(Lines) /\ head \in Seq(Lines)
        /\ Len(head) = m /\ \A k \in 1..m : head[k] = script[k]
    <3>1. /\ script \in Seq(Lines) /\ head \in Seq(Lines) /\ out \in Seq(Lines) /\ n \in Nat
          /\ printed \in 0..Len(script) /\ n + Len(out) = printed /\ HeadLimit \in Nat
      BY ToolRunnerAssumption DEF IInv, TypeOK, PipeInv
    <3>2. Len(head) = m /\ \A k \in 1..Len(head) : head[k] = script[k]
      BY DEF IInv, PipeInv
    <3>3. n <= Len(script) /\ m \in Nat /\ m <= n
      BY <2>1, <3>1
    <3> QED
      BY <3>1, <3>2, <3>3
  <2> HIDE DEF m
  <2>4. /\ SubSeq(script, 1, m) \in Seq(Lines) /\ Len(SubSeq(script, 1, m)) = m
        /\ \A k \in 1..m : SubSeq(script, 1, m)[k] = script[k]
    BY <2>3
  <2>5. head = SubSeq(script, 1, m)
    BY <2>3, <2>4
  <2> QED
    BY <2>1, <2>2, <2>5 DEF m
<1> QED
  BY <1>1, Invariant, PTL
=============================================================================
