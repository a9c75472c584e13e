----------------------- MODULE StreamPipelineProofs -----------------------
(***************************************************************************)
(* Theorems about StreamPipeline, for every surface, set of frames, buffer *)
(* size and capture cap.                                                   *)
(*                                                                         *)
(* The argument rests on "places": a place is what a client has seen of    *)
(* the answer after some prefix of a legal stream, whatever the surface.   *)
(* A client and the encoder that writes to it stand at one place, the      *)
(* translator at another, and the canonical events that are queued lead    *)
(* from the first to the second, one legal step each.  Every step of the   *)
(* pipeline either moves the client along that way, or extends it at the   *)
(* translator's end, or leaves both alone.                                 *)
(***************************************************************************)
EXTENDS StreamPipeline, FiltersProofs, SequenceTheorems

-----------------------------------------------------------------------------
(* What is collected, and what the client was told                         *)

NoCall == -1

Kinds == {"text", "thinking", "tool_use", "message", "function_call"}

Part == [kind : Kinds, call : Int, got : Seq(Int)]

CallParts == {p \in Part : p.kind \in {"tool_use", "function_call"}}

CallsOf(parts) == Keep(parts, CallParts)

NewPart(kind, call) == [kind |-> kind, call |-> call, got |-> <<>>]

Longer(p, f) == [p EXCEPT !.got = Append(@, f)]

(* The calls an accumulator holds.                                         *)
Caught == {p \in Part : p.kind = "tool_use" /\ Len(p.got) <= MaxCaptured}

Accumulators == [text : Nat, truncated : BOOLEAN, calls : Seq(Caught)]

LEMMA LastPart ==
  ASSUME NEW R, NEW s \in Seq(R), s # <<>>
  PROVE  \E q \in Seq(R), x \in R : s = Append(q, x)
<1>1. Len(s) \in Nat /\ Len(s) # 0
  OBVIOUS
<1>2. PICK q : q = SubSeq(s, 1, Len(s) - 1)
  OBVIOUS
<1>3. PICK x : x = s[Len(s)]
  OBVIOUS
<1>4. q \in Seq(R) /\ x \in R
  BY <1>1, <1>2, <1>3
<1>5. PICK t : t = Append(q, x)
  OBVIOUS
<1>6. Len(q) = Len(s) - 1 /\ \A k \in 1..(Len(s) - 1) : q[k] = s[k]
  <2>1. PICK m \in Nat : m = Len(s) - 1
    BY <1>1
  <2>2. \A k \in 1..m : s[k] \in R
    BY <2>1
  <2>3. m \in Int /\ q = SubSeq(s, 1, m)
    BY <1>2, <2>1
  <2>4. /\ Len(q) = (IF 1 <= m THEN m - 1 + 1 ELSE 0)
        /\ \A k \in 1..(m - 1 + 1) : q[k] = s[1 + k - 1]
    BY <2>2, <2>3, SubSeqProperties
  <2> QED BY <2>1, <2>4
<1>7. t \in Seq(R) /\ Len(t) = Len(s) /\ t[Len(s)] = x /\ \A k \in 1..(Len(s) - 1) : t[k] = s[k]
  BY <1>1, <1>4, <1>5, <1>6
<1>8. \A k \in 1..Len(s) : k = Len(s) \/ k \in 1..(Len(s) - 1)
  BY <1>1
<1>9. t = s
  BY <1>3, <1>7, <1>8, SeqEqual
<1> QED BY <1>4, <1>5, <1>9

LEMMA ReplaceLast ==
  ASSUME NEW R, NEW q \in Seq(R), NEW x \in R, NEW y \in R
  PROVE  [Append(q, x) EXCEPT ![Len(q) + 1] = y] = Append(q, y)
<1>1. PICK n \in Nat : n = Len(q)
  OBVIOUS
<1>2. PICK s : s = Append(q, x)
  OBVIOUS
<1>3. PICK t : t = Append(q, y)
  OBVIOUS
<1>4. s \in Seq(R) /\ Len(s) = n + 1 /\ \A k \in 1..n : s[k] = q[k]
  BY <1>1, <1>2
<1>5. t \in Seq(R) /\ Len(t) = n + 1 /\ t[n + 1] = y /\ \A k \in 1..n : t[k] = q[k]
  BY <1>1, <1>3
<1>6. PICK u : u = [s EXCEPT ![n + 1] = y]
  OBVIOUS
<1>7. n + 1 \in 1..Len(s)
  BY <1>4
<1>8. u \in Seq(R) /\ Len(u) = n + 1 /\ \A k \in 1..Len(s) : u[k] = IF k = n + 1 THEN y ELSE s[k]
  BY <1>4, <1>6, <1>7, ExceptSeq
<1>9. \A k \in 1..(n + 1) : k = n + 1 \/ k \in 1..n
  OBVIOUS
<1>10. \A k \in 1..Len(u) : u[k] = t[k]
  BY <1>4, <1>5, <1>8, <1>9
<1>11. u = t
  BY <1>5, <1>8, <1>10, SeqEqual
<1> QED BY <1>1, <1>2, <1>3, <1>6, <1>11

LEMMA PartFields ==
  ASSUME NEW p \in Part, NEW f \in Int
  PROVE  /\ Longer(p, f) \in Part
         /\ Longer(p, f).kind = p.kind /\ Longer(p, f).call = p.call
         /\ Longer(p, f).got = Append(p.got, f)
         /\ Len(p.got) \in Nat /\ Len(Longer(p, f).got) = Len(p.got) + 1
<1>1. p.kind \in Kinds /\ p.call \in Int /\ p.got \in Seq(Int)
  BY DEF Part
<1>0. p = [kind |-> p.kind, call |-> p.call, got |-> p.got]
  BY DEF Part
<1>2. Longer(p, f) = [kind |-> p.kind, call |-> p.call, got |-> Append(p.got, f)]
  BY <1>0 DEF Longer
<1>3. PICK g \in Seq(Int) : g = p.got
  BY <1>1
<1>4. Append(g, f) \in Seq(Int) /\ Len(g) \in Nat /\ Len(Append(g, f)) = Len(g) + 1
  OBVIOUS
<1> QED BY <1>1, <1>2, <1>3, <1>4 DEF Part

LEMMA NewPartFields ==
  ASSUME NEW kind \in Kinds, NEW call \in Int
  PROVE  /\ NewPart(kind, call) \in Part
         /\ NewPart(kind, call).kind = kind /\ NewPart(kind, call).call = call
         /\ Len(NewPart(kind, call).got) = 0
<1>1. PICK e \in Seq(Int) : e = <<>>
  <2>1. <<>> \in Seq(Int)
    OBVIOUS
  <2> QED BY <2>1
<1>2. Len(e) = 0
  BY <1>1
<1> QED BY <1>1, <1>2 DEF NewPart, Part

(* The calls that the client was shown, and those that were captured: the  *)
(* same ones in the same order, and no fragment more up to the cap.        *)
SameCall(p, q) ==
  q.call = p.call /\ (Len(q.got) = MaxCaptured \/ Len(p.got) <= Len(q.got))

Told(calls, caps) ==
  /\ Len(calls) <= Len(caps)
  /\ \A c \in 1..Len(calls) : SameCall(calls[c], caps[c])

LEMMA ToldPart ==
  ASSUME NEW calls \in Seq(Part), NEW caps \in Seq(Part), Told(calls, caps),
         NEW x \in Part, NEW y \in Part
  PROVE  /\ Told(calls, Append(caps, y))
         /\ Len(calls) = Len(caps) /\ SameCall(x, y) => Told(Append(calls, x), Append(caps, y))
<1>1. PICK m \in Nat, n \in Nat : m = Len(calls) /\ n = Len(caps) /\ m <= n
  BY DEF Told
<1>2. /\ Len(Append(calls, x)) = m + 1 /\ Append(calls, x)[m + 1] = x
      /\ \A c \in 1..m : Append(calls, x)[c] = calls[c]
  BY <1>1
<1>3. /\ Len(Append(caps, y)) = n + 1 /\ Append(caps, y)[n + 1] = y
      /\ \A c \in 1..n : Append(caps, y)[c] = caps[c]
  BY <1>1
<1>4. \A c \in 1..m : c \in 1..n /\ SameCall(calls[c], caps[c])
  BY <1>1 DEF Told
<1>5. Told(calls, Append(caps, y))
  BY <1>1, <1>3, <1>4 DEF Told
<1>6. ASSUME m = n, SameCall(x, y) PROVE Told(Append(calls, x), Append(caps, y))
  <2>1. \A c \in 1..(m + 1) : c = m + 1 \/ c \in 1..m
    OBVIOUS
  <2>2. ASSUME NEW c \in 1..(m + 1)
        PROVE  SameCall(Append(calls, x)[c], Append(caps, y)[c])
    <3>1. CASE c = m + 1
      BY <1>2, <1>3, <1>6, <3>1
    <3>2. CASE c \in 1..m
      <4>1. Append(calls, x)[c] = calls[c] /\ Append(caps, y)[c] = caps[c]
        BY <1>2, <1>3, <1>6, <3>2
      <4> QED BY <1>4, <3>2, <4>1
    <3> QED BY <2>1, <3>1, <3>2
  <2> QED BY <1>2, <1>3, <1>6, <2>2 DEF Told
<1> QED BY <1>1, <1>5, <1>6

LEMMA SameCallLonger ==
  ASSUME NEW p \in Part, NEW q \in Caught, SameCall(p, q), NEW f \in Int
  PROVE  /\ Len(q.got) >= MaxCaptured => SameCall(Longer(p, f), q)
         /\ Len(q.got) < MaxCaptured =>
              SameCall(p, Longer(q, f)) /\ SameCall(Longer(p, f), Longer(q, f))
<1>1. q \in Part /\ Len(q.got) <= MaxCaptured /\ MaxCaptured \in Nat
  BY StreamAssumption DEF Caught
<1>2. /\ Longer(p, f).call = p.call /\ Len(p.got) \in Nat /\ Len(Longer(p, f).got) = Len(p.got) + 1
      /\ Longer(q, f).call = q.call /\ Len(q.got) \in Nat /\ Len(Longer(q, f).got) = Len(q.got) + 1
  BY <1>1, PartFields
<1> QED BY <1>1, <1>2 DEF SameCall

(* What a further fragment makes of the captured calls.                    *)
Full(calls) ==
  calls = <<>> \/ \E q \in Seq(Caught), p \in Caught :
                    calls = Append(q, p) /\ Len(p.got) >= MaxCaptured

Extends(calls, of, calls2) ==
  \/ Full(calls) /\ calls2 = calls
  \/ \E q \in Seq(Caught), p \in Caught :
       /\ calls = Append(q, p) /\ Len(p.got) < MaxCaptured
       /\ Longer(p, of) \in Caught /\ calls2 = Append(q, Longer(p, of))

LEMMA AppendParts ==
  ASSUME NEW R, NEW q \in Seq(R), NEW x \in R, NEW m \in Nat, m = Len(q)
  PROVE  /\ Append(q, x) \in Seq(R) /\ Len(Append(q, x)) = m + 1
         /\ Append(q, x)[m + 1] = x /\ \A k \in 1..m : Append(q, x)[k] = q[k]
         /\ Append(q, x) # <<>>
OBVIOUS

LEMMA AppendIn ==
  ASSUME NEW R, NEW q \in Seq(R), NEW x \in R
  PROVE  Append(q, x) \in Seq(R)
OBVIOUS

LEMMA AppendSame ==
  ASSUME NEW R, NEW q \in Seq(R), NEW x \in R, NEW r \in Seq(R), NEW y \in R,
         Append(q, x) = Append(r, y)
  PROVE  q = r /\ x = y
<1>1. PICK m \in Nat, n \in Nat : m = Len(q) /\ n = Len(r)
  OBVIOUS
<1>2. Len(Append(q, x)) = m + 1 /\ Append(q, x)[m + 1] = x /\ \A k \in 1..m : Append(q, x)[k] = q[k]
  BY <1>1, AppendParts
<1>3. Len(Append(r, y)) = n + 1 /\ Append(r, y)[n + 1] = y /\ \A k \in 1..n : Append(r, y)[k] = r[k]
  BY <1>1, AppendParts
<1>4. m = n /\ x = y /\ \A k \in 1..m : q[k] = r[k]
  BY <1>2, <1>3
<1>5. q = r
  BY <1>1, <1>4, SeqEqual
<1> QED BY <1>4, <1>5

LEMMA CaughtParts ==
  /\ Seq(Caught) \subseteq Seq(Part)
  /\ \A p \in Caught : p \in Part /\ Len(p.got) \in Nat /\ Len(p.got) <= MaxCaptured
<1>1. Caught \subseteq Part
  BY DEF Caught
<1>2. \A q \in Seq(Caught) : q \in Seq(Part)
  BY <1>1, SeqMonotonic
<1>3. ASSUME NEW p \in Caught PROVE Len(p.got) \in Nat
  <2>1. PICK g \in Seq(Int) : g = p.got
    BY <1>1 DEF Part
  <2> QED BY <2>1
<1> QED BY <1>1, <1>2, <1>3 DEF Caught

LEMMA ToldArgs ==
  ASSUME NEW calls \in Seq(Part), NEW caps \in Seq(Caught), Told(calls, caps),
         NEW of \in Int, NEW caps2, Extends(caps, of, caps2)
  PROVE  /\ caps2 \in Seq(Caught) /\ Len(caps2) = Len(caps) /\ Told(calls, caps2)
         /\ \A q \in Seq(Part), p \in Part :
              calls = Append(q, p) /\ Len(calls) = Len(caps) => Told(Append(q, Longer(p, of)), caps2)
<1>1. PICK m \in Nat, n \in Nat : m = Len(calls) /\ n = Len(caps) /\ m <= n
  BY DEF Told
<1>2. \A c \in 1..m : c \in 1..n /\ SameCall(calls[c], caps[c]) /\ calls[c] \in Part /\ caps[c] \in Caught
  BY <1>1 DEF Told
<1>3. CASE Full(caps) /\ caps2 = caps
  <2>1. ASSUME NEW q \in Seq(Part), NEW p \in Part, calls = Append(q, p), m = n
        PROVE  Told(Append(q, Longer(p, of)), caps)
    <3>1. PICK j \in Nat : j = Len(q)
      OBVIOUS
    <3>2. m = j + 1 /\ calls[m] = p /\ \A c \in 1..j : calls[c] = q[c]
      BY <1>1, <2>1, <3>1, AppendParts
    <3>3. caps # <<>>
      <4>1. Len(caps) # 0
        BY <1>1, <2>1, <3>2
      <4> QED BY <4>1, EmptySeq
    <3>4. PICK r \in Seq(Caught), x \in Caught : caps = Append(r, x) /\ Len(x.got) >= MaxCaptured
      BY <1>3, <3>3 DEF Full
    <3>5. caps[n] = x
      BY <1>1, <3>4
    <3>6. m \in 1..m /\ SameCall(p, x)
      <4>1. m \in 1..m
        BY <3>2
      <4>2. SameCall(calls[m], caps[m])
        BY <1>2, <4>1
      <4> QED BY <2>1, <3>2, <3>5, <4>1, <4>2
    <3>7. SameCall(Longer(p, of), x)
      BY <3>4, <3>6, SameCallLonger
    <3>8. PICK y \in Part : y = Longer(p, of)
      BY PartFields
    <3>9. Len(Append(q, y)) = m /\ Append(q, y)[m] = y /\ \A c \in 1..j : Append(q, y)[c] = q[c]
      BY <3>1, <3>2, AppendParts
    <3>10. \A c \in 1..m : c = m \/ c \in 1..j
      BY <3>2
    <3>11. ASSUME NEW c \in 1..m PROVE SameCall(Append(q, y)[c], caps[c])
      <4>1. CASE c = m
        BY <2>1, <3>5, <3>7, <3>8, <3>9, <4>1
      <4>2. CASE c \in 1..j
        BY <1>2, <3>2, <3>9, <4>2
      <4> QED BY <3>10, <4>1, <4>2
    <3> QED BY <1>1, <3>8, <3>9, <3>11 DEF Told
  <2> QED BY <1>1, <1>3, <2>1
<1>4. CASE \E r \in Seq(Caught), x \in Caught :
             /\ caps = Append(r, x) /\ Len(x.got) < MaxCaptured
             /\ Longer(x, of) \in Caught /\ caps2 = Append(r, Longer(x, of))
  <2>1. PICK r \in Seq(Caught), x \in Caught, z \in Caught :
               /\ caps = Append(r, x) /\ Len(x.got) < MaxCaptured
               /\ z = Longer(x, of) /\ caps2 = Append(r, z)
    BY <1>4
  <2>2. PICK i \in Nat : i = Len(r)
    OBVIOUS
  <2>3. n = i + 1 /\ caps[n] = x /\ \A c \in 1..i : caps[c] = r[c]
    BY <1>1, <2>1, <2>2, AppendParts
  <2>4. caps2 \in Seq(Caught) /\ Len(caps2) = n /\ caps2[n] = z /\ \A c \in 1..i : caps2[c] = r[c]
    BY <2>1, <2>2, <2>3, AppendParts
  <2>5. \A c \in 1..n : c = n \/ c \in 1..i
    BY <2>3
  <2>6. ASSUME NEW c \in 1..m PROVE SameCall(calls[c], caps2[c])
    <3>1. SameCall(calls[c], caps[c]) /\ calls[c] \in Part /\ c \in 1..n
      BY <1>2
    <3>2. CASE c = n
      <4>1. SameCall(calls[c], x)
        BY <2>3, <3>1, <3>2
      <4>2. SameCall(calls[c], z)
        BY <2>1, <3>1, <4>1, SameCallLonger
      <4> QED BY <2>4, <3>2, <4>2
    <3>3. CASE c \in 1..i
      BY <2>3, <2>4, <3>1, <3>3
    <3> QED BY <2>5, <3>1, <3>2, <3>3
  <2>7. Told(calls, caps2)
    BY <1>1, <2>4, <2>6 DEF Told
  <2>8. ASSUME NEW q \in Seq(Part), NEW p \in Part, calls = Append(q, p), m = n
        PROVE  Told(Append(q, Longer(p, of)), caps2)
    <3>1. PICK j \in Nat : j = Len(q)
      OBVIOUS
    <3>2. m = j + 1 /\ calls[m] = p /\ \A c \in 1..j : calls[c] = q[c]
      BY <1>1, <2>8, <3>1, AppendParts
    <3>3. m \in 1..m /\ SameCall(p, x) /\ j = i
      <4>1. m \in 1..m /\ j = i
        BY <2>3, <2>8, <3>2
      <4>2. SameCall(calls[m], caps[m])
        BY <1>2, <4>1
      <4> QED BY <2>3, <2>8, <3>2, <4>1, <4>2
    <3>4. PICK y \in Part : y = Longer(p, of)
      BY PartFields
    <3>5. SameCall(y, z)
      BY <2>1, <3>3, <3>4, SameCallLonger
    <3>6. Len(Append(q, y)) = m /\ Append(q, y)[m] = y /\ \A c \in 1..j : Append(q, y)[c] = q[c]
      BY <3>1, <3>2, AppendParts
    <3>7. ASSUME NEW c \in 1..m PROVE SameCall(Append(q, y)[c], caps2[c])
      <4>1. CASE c = m
        BY <2>4, <2>8, <3>5, <3>6, <4>1
      <4>2. CASE c \in 1..j
        <5>1. Append(q, y)[c] = calls[c]
          BY <3>2, <3>6, <4>2
        <5> QED BY <2>6, <5>1
      <4> QED BY <2>5, <2>8, <3>3, <4>1, <4>2
    <3> QED BY <1>1, <2>4, <2>8, <3>4, <3>6, <3>7 DEF Told
  <2> QED BY <1>1, <2>4, <2>7, <2>8
<1> QED BY <1>3, <1>4 DEF Extends

-----------------------------------------------------------------------------
(* The accumulator                                                         *)

ChatEvents ==
  [type : {"done", "start", "reasoning_delta", "text_delta", "usage"}]
    \cup [type : {"tool_call_start", "tool_args_delta"}, index : Int]
    \cup [type : {"finish"}, reason : STRING]

AllEvents == ChatEvents \cup Upstream!AnthropicFrames \cup Upstream!ResponsesFrames

IsText(e) == e.type \in {"text_delta", "output_text_delta"}

IsStart(e) == e.type = "tool_call_start" \/ (e.type = "block_start" /\ e.kind = "tool_use")

IsArgs(e) == e.type \in {"tool_args_delta", "json_delta"}

Collects(a, e, b) ==
  /\ b \in Accumulators
  /\ IsText(e) => b.text > 0 /\ b.calls = a.calls
  /\ ~IsText(e) => b.text = a.text
  /\ a.text > 0 => b.text > 0
  /\ IsStart(e) => e.index \in Int /\ b.calls = Append(a.calls, NewPart("tool_use", e.index))
  /\ IsArgs(e) => e.index \in Int /\ Extends(a.calls, e.index, b.calls)
  /\ ~IsText(e) /\ ~IsStart(e) /\ ~IsArgs(e) => b = a

LEMMA CapIsPositive == MaxCaptured \in Nat /\ MaxCaptured > 0
BY StreamAssumption

LEMMA EventFields ==
  ASSUME NEW e \in AllEvents
  PROVE  IsStart(e) \/ IsArgs(e) => e.index \in Int
BY DEF AllEvents, ChatEvents, Upstream!AnthropicFrames, Upstream!ResponsesFrames, IsStart, IsArgs

LEMMA AccumulatedCollects ==
  ASSUME NEW a \in Accumulators, NEW e \in AllEvents
  PROVE  Collects(a, e, Accumulated(a, e))
<1>1. a.text \in Nat /\ a.truncated \in BOOLEAN /\ a.calls \in Seq(Caught)
      /\ a = [text |-> a.text, truncated |-> a.truncated, calls |-> a.calls]
  BY DEF Accumulators
<1>2. CASE IsText(e)
  <2>1. Accumulated(a, e) = AddText(a) /\ ~IsStart(e) /\ ~IsArgs(e)
    BY <1>2 DEF Accumulated, IsText, IsStart, IsArgs
  <2>2. CASE a.text < MaxCaptured
    <3>1. AddText(a) = [text |-> a.text + 1, truncated |-> a.truncated, calls |-> a.calls]
      BY <1>1, <2>2 DEF AddText
    <3> QED BY <1>1, <1>2, <2>1, <3>1 DEF Collects, Accumulators
  <2>3. CASE ~(a.text < MaxCaptured)
    <3>1. AddText(a) = [text |-> a.text, truncated |-> TRUE, calls |-> a.calls]
      BY <1>1, <2>3 DEF AddText
    <3>2. a.text > 0
      BY <1>1, <2>3, CapIsPositive
    <3> QED BY <1>1, <1>2, <2>1, <3>1, <3>2 DEF Collects, Accumulators
  <2> QED BY <2>2, <2>3
<1>3. CASE IsStart(e)
  <2>1. Accumulated(a, e) = StartToolCall(a, e.index) /\ ~IsText(e) /\ ~IsArgs(e)
    BY <1>3 DEF Accumulated, IsText, IsStart, IsArgs
  <2>2. PICK x : x = NewPart("tool_use", e.index)
    OBVIOUS
  <2>3. e.index \in Int /\ x \in Caught
    <3>1. e.index \in Int
      BY <1>3, EventFields
    <3>0. "tool_use" \in Kinds
      BY DEF Kinds
    <3>2. x \in Part /\ x.kind = "tool_use" /\ Len(x.got) = 0
      BY <2>2, <3>0, <3>1, NewPartFields
    <3> QED BY <3>1, <3>2, CapIsPositive DEF Caught
  <2>4. PICK n \in Seq(Caught) : n = Append(a.calls, x)
    <3>1. PICK cs \in Seq(Caught) : cs = a.calls
      BY <1>1
    <3>2. Append(cs, x) \in Seq(Caught)
      BY <2>3, AppendIn
    <3> QED BY <3>1, <3>2
  <2>5. StartToolCall(a, e.index) = [text |-> a.text, truncated |-> a.truncated, calls |-> n]
    <3>1. StartToolCall(a, e.index) = [a EXCEPT !.calls = n]
      BY <2>2, <2>4 DEF StartToolCall, NewPart
    <3> QED BY <1>1, <3>1
  <2> QED BY <1>1, <1>3, <2>1, <2>2, <2>3, <2>4, <2>5 DEF Collects, Accumulators
<1>4. CASE IsArgs(e)
  <2>1. Accumulated(a, e) = AddToolArgs(a, e.index) /\ ~IsText(e) /\ ~IsStart(e) /\ e.index \in Int
    BY <1>4, EventFields DEF Accumulated, IsText, IsStart, IsArgs
  <2>2. CASE a.calls = <<>>
    <3>1. AddToolArgs(a, e.index) = a /\ Extends(a.calls, e.index, a.calls)
      BY <2>2 DEF AddToolArgs, Extends, Full
    <3> QED BY <1>1, <1>4, <2>1, <3>1 DEF Collects
  <2>3. CASE a.calls # <<>>
    <3>1. PICK q \in Seq(Caught), x \in Caught : a.calls = Append(q, x)
      BY <1>1, <2>3, LastPart
    <3>2. PICK n \in Nat : n = Len(q)
      OBVIOUS
    <3>3. Len(a.calls) = n + 1 /\ a.calls[n + 1] = x /\ Last(a.calls) = x
      BY <3>1, <3>2, AppendParts DEF Last
    <3>4. CASE Len(x.got) >= MaxCaptured
      <4>1. AddToolArgs(a, e.index) = a /\ Extends(a.calls, e.index, a.calls)
        BY <3>1, <3>3, <3>4 DEF AddToolArgs, Extends, Full
      <4> QED BY <1>1, <1>4, <2>1, <4>1 DEF Collects
    <3>5. CASE ~(Len(x.got) >= MaxCaptured)
      <4>1. x \in Part /\ Len(x.got) \in Nat /\ Len(x.got) < MaxCaptured
        BY <3>5, CaughtParts, CapIsPositive
      <4>2. PICK y : y = Longer(x, e.index)
        OBVIOUS
      <4>3. y \in Caught
        BY <2>1, <4>1, <4>2, PartFields, CapIsPositive DEF Caught
      <4>4. PICK c \in Seq(Caught) : c = Append(q, y)
        <5>1. Append(q, y) \in Seq(Caught)
          BY <4>3, AppendIn
        <5> QED BY <5>1
      <4>5. [a.calls EXCEPT ![n + 1] = y] = c
        BY <3>1, <3>2, <4>3, <4>4, ReplaceLast
      <4>6. AddToolArgs(a, e.index) = [a EXCEPT !.calls[n + 1].got = Append(@, e.index)]
        BY <2>3, <3>3, <3>5 DEF AddToolArgs
      <4>7. [a EXCEPT !.calls[n + 1].got = Append(@, e.index)]
              = [a EXCEPT !.calls = [a.calls EXCEPT ![n + 1] = y]]
        BY <3>3, <4>2 DEF Longer
      <4>8. AddToolArgs(a, e.index) = [text |-> a.text, truncated |-> a.truncated, calls |-> c]
        BY <1>1, <4>5, <4>6, <4>7
      <4>9. Extends(a.calls, e.index, c)
        BY <3>1, <4>1, <4>2, <4>3, <4>4 DEF Extends
      <4> QED BY <1>1, <1>4, <2>1, <4>8, <4>9 DEF Collects, Accumulators
    <3> QED BY <3>4, <3>5
  <2> QED BY <2>2, <2>3
<1>5. CASE ~IsText(e) /\ ~IsStart(e) /\ ~IsArgs(e)
  <2>1. Accumulated(a, e) = a
    BY <1>5 DEF Accumulated, IsText, IsStart, IsArgs
  <2> QED BY <1>5, <2>1 DEF Collects
<1> QED BY <1>2, <1>3, <1>4, <1>5

(* The recursion of AccumulatedAll.                                        *)
Gathers(f, a, events) ==
  f = [n \in 0..Len(events) |-> IF n = 0 THEN a ELSE Accumulated(f[n - 1], events[n])]

GatheredBy(g, a, events) ==
  /\ g[0] = a
  /\ \A k \in 0..Len(events) : g[k] \in Accumulators
  /\ \A k \in 1..Len(events) : Collects(g[k - 1], events[k], g[k])

LEMMA AccumulatedAllSteps ==
  ASSUME NEW a \in Accumulators, NEW events \in Seq(AllEvents)
  PROVE  \E g : GatheredBy(g, a, events) /\ AccumulatedAll(a, events) = g[Len(events)]
<1>1. PICK n \in Nat : n = Len(events)
  OBVIOUS
<1>2. PICK step : step = [k \in 1..n |-> [b \in Accumulators |-> Accumulated(b, events[k])]]
  OBVIOUS
<1>3. \A k \in 1..n : events[k] \in AllEvents
  BY <1>1
<1>4. \A b \in Accumulators, e \in AllEvents : Accumulated(b, e) \in Accumulators
  BY AccumulatedCollects DEF Collects
<1>5. step \in [1..n -> [Accumulators -> Accumulators]]
  BY <1>2, <1>3, <1>4
<1>6. PICK f \in [0..n -> Accumulators] : f[0] = a /\ \A k \in 1..n : f[k] = step[k][f[k - 1]]
  <2>1. Recurses(step, n, Accumulators)
    BY <1>5 DEF Recurses
  <2>2. \E f : Iterates(f, n, Accumulators, a, step)
    BY <2>1, Recursion
  <2> QED BY <2>2 DEF Iterates
<1>7. \A k \in 1..n : k - 1 \in 0..n /\ k \in 0..n /\ k # 0
  OBVIOUS
<1>8. \A k \in 1..n : f[k] = Accumulated(f[k - 1], events[k])
  BY <1>2, <1>6, <1>7
<1>9. f = [k \in 0..n |-> IF k = 0 THEN a ELSE Accumulated(f[k - 1], events[k])]
  <2>1. \A k \in 0..n : k # 0 => k \in 1..n
    OBVIOUS
  <2> QED BY <1>6, <1>8, <2>1
<1> DEFINE g == CHOOSE g : Gathers(g, a, events)
<1>10. Gathers(g, a, events)
  BY <1>1, <1>9 DEF Gathers
<1>11. AccumulatedAll(a, events) = g[Len(events)]
  BY DEF AccumulatedAll, Gathers
<1> HIDE DEF g
<1>12. g[0] = a /\ \A k \in 1..n : g[k] = Accumulated(g[k - 1], events[k])
  <2>1. \A k \in 0..n : g[k] = IF k = 0 THEN a ELSE Accumulated(g[k - 1], events[k])
    BY <1>1, <1>10 DEF Gathers
  <2> QED BY <1>7, <2>1
<1> DEFINE G == {k \in 0..n : g[k] \in Accumulators}
<1>13. 0 \in G
  BY <1>12
<1>14. ASSUME NEW k \in 1..n, k - 1 \in G PROVE k \in G
  BY <1>3, <1>4, <1>7, <1>12, <1>14
<1>15. \A k \in 0..n : g[k] \in Accumulators
  <2> HIDE DEF G
  <2>1. \A k \in 0..n : k \in G
    BY <1>13, <1>14, UpTo
  <2> QED BY <2>1 DEF G
<1>16. \A k \in 1..n : Collects(g[k - 1], events[k], g[k])
  BY <1>3, <1>7, <1>12, <1>15, AccumulatedCollects
<1> QED BY <1>1, <1>11, <1>12, <1>15, <1>16 DEF GatheredBy

(* A verbatim stream: what has been captured, against what the client was  *)
(* shown with and without the current chunk.                               *)
Paired(calls, whole, a, n) ==
  /\ Told(calls, a.calls)
  /\ n.text > 0 => a.text > 0
  /\ whole => Told(calls \o n.calls, a.calls) /\ Len(calls \o n.calls) = Len(a.calls)

LEMMA ConcatAppend ==
  ASSUME NEW R, NEW s \in Seq(R), NEW t \in Seq(R), NEW x \in R
  PROVE  s \o t \in Seq(R) /\ s \o Append(t, x) = Append(s \o t, x)
OBVIOUS

LEMMA AccumulatorFields ==
  ASSUME NEW a \in Accumulators
  PROVE  a.text \in Nat /\ a.calls \in Seq(Caught) /\ a.calls \in Seq(Part)
<1>1. a.text \in Nat /\ a.calls \in Seq(Caught)
  BY DEF Accumulators
<1> QED BY <1>1, CaughtParts

LEMMA PairedStep ==
  ASSUME NEW calls \in Seq(Part), NEW whole,
         NEW a \in Accumulators, NEW n \in Accumulators, Paired(calls, whole, a, n),
         NEW e \in AllEvents, NEW b, NEW m, Collects(a, e, b), Collects(n, e, m)
  PROVE  Paired(calls, whole, b, m)
<1>1. /\ b \in Accumulators /\ m \in Accumulators
      /\ a.calls \in Seq(Caught) /\ a.calls \in Seq(Part) /\ n.calls \in Seq(Caught) /\ n.calls \in Seq(Part)
  BY AccumulatorFields DEF Collects
<1>2. m.text > 0 => b.text > 0
  BY DEF Paired, Collects
<1>3. PICK l \in Seq(Part) : l = calls \o n.calls
  <2>1. calls \o n.calls \in Seq(Part)
    BY <1>1, ConcatProperties
  <2> QED BY <2>1
<1>4. CASE ~IsStart(e) /\ ~IsArgs(e)
  <2>1. b.calls = a.calls /\ m.calls = n.calls
    BY <1>4 DEF Collects
  <2> QED BY <1>2, <2>1 DEF Paired
<1>5. CASE IsStart(e)
  <2>1. PICK x : x = NewPart("tool_use", e.index)
    OBVIOUS
  <2>2. e.index \in Int /\ "tool_use" \in Kinds
    BY <1>5 DEF Collects, Kinds
  <2>3. x \in Part /\ Len(x.got) = 0
    BY <2>1, <2>2, NewPartFields
  <2>4. SameCall(x, x)
    BY <2>3 DEF SameCall
  <2>5. b.calls = Append(a.calls, x) /\ m.calls = Append(n.calls, x)
    BY <1>5, <2>1 DEF Collects
  <2>6. Told(calls, b.calls)
    BY <1>1, <2>3, <2>5, ToldPart DEF Paired
  <2>7. ASSUME whole PROVE Told(calls \o m.calls, b.calls) /\ Len(calls \o m.calls) = Len(b.calls)
    <3>1. calls \o m.calls = Append(l, x)
      BY SMTT(20), <1>1, <1>3, <2>3, <2>5, ConcatAppend
    <3>2. Told(l, a.calls) /\ Len(l) = Len(a.calls)
      BY <1>3, <2>7 DEF Paired
    <3>3. Told(Append(l, x), b.calls)
      BY <1>1, <2>3, <2>4, <2>5, <3>2, ToldPart
    <3>4. PICK cs \in Seq(Part) : cs = a.calls
      BY <1>1
    <3>5. Len(Append(l, x)) = Len(Append(cs, x))
      BY <2>3, <3>2, <3>4
    <3> QED BY <2>5, <3>1, <3>3, <3>4, <3>5
  <2> QED BY <1>2, <2>6, <2>7 DEF Paired
<1>6. CASE IsArgs(e)
  <2>1. e.index \in Int /\ Extends(a.calls, e.index, b.calls) /\ Extends(n.calls, e.index, m.calls)
    BY <1>6 DEF Collects
  <2>2. Told(calls, b.calls) /\ Len(b.calls) = Len(a.calls)
    BY <1>1, <2>1, ToldArgs DEF Paired
  <2>3. ASSUME whole PROVE Told(calls \o m.calls, b.calls) /\ Len(calls \o m.calls) = Len(b.calls)
    <3>1. Told(l, a.calls) /\ Len(l) = Len(a.calls)
      BY <1>3, <2>3 DEF Paired
    <3>2. /\ Told(l, b.calls)
          /\ \A q \in Seq(Part), p \in Part :
               l = Append(q, p) => Told(Append(q, Longer(p, e.index)), b.calls)
      BY <1>1, <2>1, <3>1, ToldArgs
    <3>3. CASE m.calls = n.calls
      BY <1>3, <2>2, <3>1, <3>2, <3>3
    <3>4. CASE \E q \in Seq(Caught), p \in Caught :
                 /\ n.calls = Append(q, p) /\ Longer(p, e.index) \in Caught
                 /\ m.calls = Append(q, Longer(p, e.index))
      <4>1. PICK q \in Seq(Caught), p \in Caught, y \in Caught :
                   n.calls = Append(q, p) /\ y = Longer(p, e.index) /\ m.calls = Append(q, y)
        BY <3>4
      <4>2. q \in Seq(Part) /\ p \in Part /\ y \in Part
        BY CaughtParts
      <4>3. PICK r \in Seq(Part) : r = calls \o q
        BY <4>2, ConcatProperties
      <4>4. l = Append(r, p) /\ calls \o m.calls = Append(r, y)
        BY <1>3, <4>1, <4>2, <4>3, ConcatAppend
      <4>5. Told(Append(r, y), b.calls)
        BY <3>2, <4>1, <4>2, <4>4
      <4>6. Len(Append(r, y)) = Len(Append(r, p))
        BY <4>2
      <4> QED BY <2>2, <3>1, <4>4, <4>5, <4>6
    <3> QED BY <2>1, <3>3, <3>4 DEF Extends
  <2> QED BY <1>2, <2>2, <2>3 DEF Paired
<1> QED BY <1>4, <1>5, <1>6

LEMMA Observed ==
  ASSUME NEW calls \in Seq(Part), NEW whole, NEW a \in Accumulators, NEW events \in Seq(AllEvents),
         Told(calls, a.calls), whole => Len(calls) = Len(a.calls),
         NEW b, b = AccumulatedAll(a, events), NEW n, n = AccumulatedAll(NewAccumulator, events)
  PROVE  /\ b \in Accumulators /\ n \in Accumulators
         /\ a.text > 0 => b.text > 0
         /\ Paired(calls, whole, b, n)
<1>1. NewAccumulator \in Accumulators /\ NewAccumulator.text = 0 /\ NewAccumulator.calls = <<>>
  <2>1. PICK e \in Seq(Caught) : e = <<>>
    BY EmptySeq
  <2>2. NewAccumulator = [text |-> 0, truncated |-> FALSE, calls |-> e]
    BY <2>1 DEF NewAccumulator
  <2> QED BY <2>1, <2>2 DEF Accumulators
<1>2. PICK g : GatheredBy(g, a, events) /\ b = g[Len(events)]
  BY AccumulatedAllSteps
<1>3. PICK h : GatheredBy(h, NewAccumulator, events) /\ n = h[Len(events)]
  BY <1>1, AccumulatedAllSteps
<1>4. PICK len \in Nat : len = Len(events)
  OBVIOUS
<1> DEFINE G == {k \in 0..len : Paired(calls, whole, g[k], h[k]) /\ (a.text > 0 => g[k].text > 0)}
<1>5. 0 \in G
  <2>1. g[0] = a /\ h[0] = NewAccumulator
    BY <1>2, <1>3 DEF GatheredBy
  <2>2. calls \o NewAccumulator.calls = calls
    BY <1>1, ConcatEmptySeq
  <2>3. Paired(calls, whole, a, NewAccumulator)
    BY <1>1, <2>2 DEF Paired
  <2> QED BY <2>1, <2>3
<1>6. ASSUME NEW k \in 1..len, k - 1 \in G PROVE k \in G
  <2>1. k \in 0..len /\ k - 1 \in 0..len /\ k \in 1..Len(events)
    BY <1>4
  <2>2. g[k - 1] \in Accumulators /\ h[k - 1] \in Accumulators
    BY <1>2, <1>3, <1>4, <2>1 DEF GatheredBy
  <2>3. Collects(g[k - 1], events[k], g[k]) /\ Collects(h[k - 1], events[k], h[k])
    BY <1>2, <1>3, <2>1 DEF GatheredBy
  <2>4. Paired(calls, whole, g[k - 1], h[k - 1]) /\ (a.text > 0 => g[k - 1].text > 0)
    BY <1>6
  <2>5. events[k] \in AllEvents
    BY <2>1
  <2>6. Paired(calls, whole, g[k], h[k])
    BY <2>2, <2>3, <2>4, <2>5, PairedStep
  <2>7. a.text > 0 => g[k].text > 0
    BY <2>3, <2>4 DEF Collects
  <2> QED BY <2>1, <2>6, <2>7
<1>7. Paired(calls, whole, b, n) /\ (a.text > 0 => b.text > 0)
  <2> HIDE DEF G
  <2>1. \A k \in 0..len : k \in G
    BY <1>5, <1>6, UpTo
  <2>2. len \in G
    BY <2>1
  <2> QED BY <1>2, <1>3, <1>4, <2>2 DEF G
<1>8. Len(events) \in 0..Len(events)
  BY <1>4
<1> QED BY <1>2, <1>3, <1>7, <1>8 DEF GatheredBy

-----------------------------------------------------------------------------
(* Where a client is                                                       *)

Stages == {"before", "open", "closing", "done"}

Statuses == {"none", "completed", "incomplete"}

Sheet(stage, parts, open, text, status) ==
  [stage |-> stage, parts |-> parts, nested |-> open # "none", text |-> text,
   status |-> status, ok |-> TRUE]

(* What a client makes of each record, when it is where that belongs.      *)
LEMMA SeenOpen ==
  ASSUME NEW s, NEW parts, NEW text, NEW status, NEW v, NEW w,
         v = Sheet("before", parts, "none", text, status), w = [name |-> "open"]
  PROVE  Client!Seen(v, s, w) = Sheet("open", parts, "none", text, status)
BY DEF Client!Seen, Client!Acceptable, Client!Reading, Sheet

LEMMA SeenClosing ==
  ASSUME NEW s, NEW parts, NEW text, NEW status, NEW v, NEW w,
         v = Sheet("open", parts, "none", text, status), w = [name |-> "closing"]
  PROVE  Client!Seen(v, s, w) = Sheet("closing", parts, "none", text, status)
BY DEF Client!Seen, Client!Acceptable, Client!Reading, Sheet

LEMMA SeenEnd ==
  ASSUME NEW s, NEW parts, NEW text, NEW status, NEW v, NEW w, NEW stage,
         s \in {"messages", "chat"}, stage = IF s = "messages" THEN "closing" ELSE "open",
         v = Sheet(stage, parts, "none", text, status), w.name = "end"
  PROVE  Client!Seen(v, s, w) = Sheet("done", parts, "none", text, status)
BY DEF Client!Seen, Client!Acceptable, Client!Reading, Sheet

LEMMA SeenDone ==
  ASSUME NEW parts, NEW text, NEW status, NEW given, NEW v, NEW w,
         v = Sheet("open", parts, "none", text, status),
         w = [name |-> "end", status |-> given, output |-> parts]
  PROVE  Client!Seen(v, "responses", w) = Sheet("done", parts, "none", text, given)
BY DEF Client!Seen, Client!Acceptable, Client!Reading, Sheet

LEMMA SeenPart ==
  ASSUME NEW s, NEW parts, NEW text, NEW status, NEW kind, NEW call, NEW v, NEW w,
         v = Sheet("open", parts, "none", text, status),
         w = [name |-> "part", index |-> Len(parts), kind |-> kind, call |-> call],
         NEW open, open = "none" <=> s = "chat"
  PROVE  Client!Seen(v, s, w) = Sheet("open", Append(parts, NewPart(kind, call)), open, text, status)
<1>1. Client!Acceptable(v, s, w)
  BY DEF Client!Acceptable, Sheet
<1>2. Client!Seen(v, s, w) = Client!Reading(v, s, w)
  BY <1>1 DEF Client!Seen, Sheet
<1>3. Client!Reading(v, s, w)
        = [v EXCEPT !.parts = Append(@, [kind |-> kind, call |-> call, got |-> <<>>]),
                    !.nested = (open # "none")]
  BY DEF Client!Reading
<1> QED BY <1>2, <1>3 DEF Sheet, NewPart

LEMMA SeenDelta ==
  ASSUME NEW s, NEW q \in Seq(Part), NEW p \in Part, NEW open, NEW text \in BOOLEAN,
         NEW status, NEW f \in Int, s = "chat" \/ open # "none", NEW v, NEW w,
         v = Sheet("open", Append(q, p), open, text, status),
         w = [name |-> "delta", index |-> Len(q), kind |-> p.kind, of |-> f],
         NEW shown \in BOOLEAN, shown <=> text \/ p.kind \in {"text", "message"}
  PROVE  Client!Seen(v, s, w) = Sheet("open", Append(q, Longer(p, f)), open, shown, status)
<1>1. PICK n \in Nat : n = Len(q)
  OBVIOUS
<1>2. PICK parts \in Seq(Part) : parts = Append(q, p)
  BY AppendIn
<1>3. Len(parts) = n + 1 /\ parts[n + 1] = p /\ n + 1 \in DOMAIN parts
  BY <1>1, <1>2
<1>6. PICK y \in Part : y = Longer(p, f)
  BY PartFields
<1>7. v.ok /\ v.stage = "open" /\ v.parts = parts /\ v.nested = (open # "none") /\ v.text = text
  BY <1>2 DEF Sheet
<1>8. w.name = "delta" /\ w.index = n /\ w.kind = p.kind /\ w.of = f
  BY <1>1
<1>9. Client!Addressed(v, s, w)
  BY <1>3, <1>7, <1>8 DEF Client!Addressed
<1>10. Client!Acceptable(v, s, w)
  BY <1>3, <1>7, <1>8, <1>9 DEF Client!Acceptable
<1>11. Client!Reading(v, s, w)
         = [v EXCEPT !.parts[n + 1].got = Append(@, f), !.text = shown]
  BY <1>7, <1>8 DEF Client!Reading
<1>12. [v EXCEPT !.parts[n + 1].got = Append(@, f), !.text = shown]
         = [v EXCEPT !.parts = [parts EXCEPT ![n + 1] = y], !.text = shown]
  BY <1>3, <1>6, <1>7 DEF Longer
<1>13. [parts EXCEPT ![n + 1] = y] = Append(q, y)
  BY <1>1, <1>2, ReplaceLast
<1>14. [v EXCEPT !.parts = Append(q, y), !.text = shown]
         = Sheet("open", Append(q, y), open, shown, status)
  <2>1. PICK z : z = Append(q, y)
    OBVIOUS
  <2>2. PICK u : u = [v EXCEPT !.parts = z, !.text = shown]
    OBVIOUS
  <2>3. u = Sheet("open", z, open, shown, status)
    BY <1>2, <2>2 DEF Sheet
  <2> QED BY <2>1, <2>2, <2>3
<1>15. Client!Seen(v, s, w) = Client!Reading(v, s, w)
  BY <1>7, <1>10 DEF Client!Seen
<1> QED BY <1>6, <1>11, <1>12, <1>13, <1>14, <1>15

LEMMA SeenStop ==
  ASSUME NEW s, NEW q \in Seq(Part), NEW p \in Part, NEW open, open # "none", NEW text, NEW status, NEW v, NEW w,
         v = Sheet("open", Append(q, p), open, text, status),
         w.name = "stop", w.index = Len(q), s = "responses" => w.item = p
  PROVE  Client!Seen(v, s, w) = Sheet("open", Append(q, p), "none", text, status)
<1>1. PICK n \in Nat : n = Len(q)
  OBVIOUS
<1>2. PICK parts \in Seq(Part) : parts = Append(q, p)
  BY AppendIn
<1>3. Len(parts) = n + 1 /\ parts[n + 1] = p /\ n + 1 \in DOMAIN parts
  BY <1>1, <1>2
<1>5. v.ok /\ v.stage = "open" /\ v.parts = parts /\ v.nested
  BY <1>2 DEF Sheet
<1>6. Client!Addressed(v, s, w)
  BY <1>1, <1>3, <1>5 DEF Client!Addressed
<1>7. Client!Acceptable(v, s, w)
  BY <1>3, <1>5, <1>6 DEF Client!Acceptable, Client!Last
<1>8. Client!Reading(v, s, w) = [v EXCEPT !.nested = FALSE]
  BY DEF Client!Reading
<1>9. [v EXCEPT !.nested = FALSE] = Sheet("open", parts, "none", text, status)
  <2>1. PICK u : u = [v EXCEPT !.nested = FALSE]
    OBVIOUS
  <2>2. u = Sheet("open", parts, "none", text, status)
    BY <1>2, <2>1 DEF Sheet
  <2> QED BY <2>1, <2>2
<1> QED BY <1>2, <1>5, <1>7, <1>8, <1>9 DEF Client!Seen

(* What the encoder and the client agree on, as far as the records that    *)
(* were written go.  For a Messages or Responses client `open` is the kind *)
(* of the part that is open.                                               *)
Places ==
  [stage : Stages, open : Kinds \cup {"none"}, parts : Seq(Part), text : BOOLEAN,
   status : Statuses]

Place(stage, open, parts, text, status) ==
  [stage |-> stage, open |-> open, parts |-> parts, text |-> text, status |-> status]

Sound(s, a) ==
  /\ a \in Places
  /\ s = "chat" => a.open = "none"
  /\ a.open # "none" =>
       /\ a.stage = "open"
       /\ \E q \in Seq(Part), p \in Part : a.parts = Append(q, p) /\ p.kind = a.open

ViewAt(a) == Sheet(a.stage, a.parts, a.open, a.text, a.status)

MessagesEncoder(c, a) ==
  c = [started |-> a.stage # "before", stopped |-> a.stage = "done",
       open |-> a.open, next |-> Len(a.parts)]

ItemOf(open, call, got) == [kind |-> open, call |-> call, got |-> got]

ResponsesEncoder(c, a) ==
  \E items, call, got :
    /\ items \in Seq(Part)
    /\ c = [created |-> a.stage # "before", done |-> a.stage = "done", open |-> a.open,
            call |-> call, got |-> got, next |-> Len(a.parts), items |-> items]
    /\ IF a.open = "none" THEN items = a.parts
       ELSE ItemOf(a.open, call, got) \in Part
            /\ a.parts = Append(items, ItemOf(a.open, call, got))

ChatEncoder(c, a) == c = [started |-> a.stage # "before", done |-> a.stage = "done"]

EncoderAt(s, c, a) ==
  /\ s = "messages" => MessagesEncoder(c, a)
  /\ s = "responses" => ResponsesEncoder(c, a)
  /\ s = "chat" => ChatEncoder(c, a)
  /\ Verbatim(s) => c = <<>>

(* The steps a client can follow.                                          *)
Opens(a, b) ==
  a.stage = "before" /\ b = Place("open", a.open, a.parts, a.text, a.status)

Begins(a, kind, call, open, b) ==
  /\ a.stage = "open" /\ a.open = "none" /\ kind \in Kinds /\ call \in Int
  /\ b = Place("open", open, Append(a.parts, NewPart(kind, call)), a.text, a.status)

Adds(a, kind, f, b) ==
  /\ a.stage = "open" /\ f \in Int
  /\ \E q \in Seq(Part), p \in Part :
       /\ a.parts = Append(q, p) /\ p.kind = kind
       /\ b = Place("open", a.open, Append(q, Longer(p, f)),
                    a.text \/ kind \in {"text", "message"}, a.status)

Closes(a, b) == a.open # "none" /\ b = Place("open", "none", a.parts, a.text, a.status)

Turns(a, from, to, b) ==
  a.stage = from /\ a.open = "none" /\ b = Place(to, "none", a.parts, a.text, a.status)

Settles(a, status, b) ==
  a.stage = "open" /\ a.open = "none" /\ b = Place("done", "none", a.parts, a.text, status)

MessagesMoves(a, ev, b) ==
  \/ ev = [type |-> "message_start"] /\ a.open = "none" /\ Opens(a, b)
  \/ \E kind \in {"text", "thinking", "tool_use"}, call \in Int :
       /\ ev = [type |-> "block_start", kind |-> kind, call |-> call]
       /\ Begins(a, kind, call, kind, b)
  \/ ev = [type |-> "block_stop"] /\ Closes(a, b)
  \/ \E kind \in {"text", "thinking"} :
       ev = [type |-> kind] /\ a.open = kind /\ Adds(a, kind, NoCall, b)
  \/ \E f \in Int :
       ev = [type |-> "json", of |-> f] /\ a.open = "tool_use" /\ Adds(a, "tool_use", f, b)
  \/ ev = [type |-> "message_delta"] /\ Turns(a, "open", "closing", b)
  \/ ev = [type |-> "message_stop"] /\ Turns(a, "closing", "done", b)

ResponsesMoves(a, ev, b) ==
  \/ ev = [type |-> "response_created"] /\ a.open = "none" /\ Opens(a, b)
  \/ \E kind \in {"message", "function_call"}, call \in Int :
       /\ ev = [type |-> "output_item_start", kind |-> kind, call |-> call]
       /\ Begins(a, kind, call, kind, b)
  \/ ev = [type |-> "output_item_stop"] /\ Closes(a, b)
  \/ ev = [type |-> "output_text"] /\ a.open = "message" /\ Adds(a, "message", NoCall, b)
  \/ \E f \in Int :
       /\ ev = [type |-> "function_arguments", of |-> f] /\ a.open = "function_call"
       /\ Adds(a, "function_call", f, b)
  \/ \E status \in Statuses :
       ev = [type |-> "response_done", status |-> status] /\ Settles(a, status, b)

ChatMoves(a, ev, b) ==
  \/ ev = [type |-> "start"] /\ a.open = "none" /\ Opens(a, b)
  \/ /\ ev = [type |-> "text"] /\ a.stage = "open"
     /\ b = Place("open", a.open, a.parts, TRUE, a.status)
  \/ \E call \in Int :
       /\ ev = [type |-> "tool_call_start", index |-> Len(a.parts), call |-> call]
       /\ Begins(a, "tool_use", call, "none", b)
  \/ \E f \in Int :
       /\ ev = [type |-> "tool_args", index |-> Len(a.parts) - 1, of |-> f]
       /\ Adds(a, "tool_use", f, b)
  \/ \E usage : ev = [type |-> "finish", usage |-> usage] /\ Turns(a, "open", "done", b)

VerbatimMoves(a, ev, b) ==
  b = Place(a.stage, a.open, a.parts \o ev.calls, a.text \/ ev.text > 0, a.status)

Moves(s, a, ev, b) ==
  /\ s = "messages" => MessagesMoves(a, ev, b)
  /\ s = "responses" => ResponsesMoves(a, ev, b)
  /\ s = "chat" => ChatMoves(a, ev, b)
  /\ Verbatim(s) => VerbatimMoves(a, ev, b)

LEMMA PlaceFields ==
  ASSUME NEW a \in Places
  PROVE  /\ a = Place(a.stage, a.open, a.parts, a.text, a.status)
         /\ a.stage \in Stages /\ a.open \in Kinds \cup {"none"} /\ a.parts \in Seq(Part)
         /\ a.text \in BOOLEAN /\ a.status \in Statuses
BY DEF Places, Place

LEMMA PlaceIs ==
  ASSUME NEW stage, NEW open, NEW parts, NEW text, NEW status
  PROVE  LET a == Place(stage, open, parts, text, status) IN
         /\ a.stage = stage /\ a.open = open /\ a.parts = parts /\ a.text = text /\ a.status = status
         /\ stage \in Stages /\ open \in Kinds \cup {"none"} /\ parts \in Seq(Part)
              /\ text \in BOOLEAN /\ status \in Statuses => a \in Places
BY DEF Places, Place

(* The encoder accepts what a client can follow, and the record it writes  *)
(* takes the client there.                                                 *)
MessagesRight(c, a, ev, b) ==
  /\ Messages!Legal(c, ev)
  /\ MessagesEncoder(Messages!Encoded(c, ev), b)
  /\ Client!Seen(ViewAt(a), "messages", Messages!Record(c, ev)) = ViewAt(b)

LEMMA KindsDiffer ==
  /\ "none" \notin Kinds
  /\ {"text", "thinking", "tool_use", "message", "function_call"} \subseteq Kinds
BY DEF Kinds

LEMMA MessagesConforms ==
  ASSUME NEW a, Sound("messages", a), NEW c, MessagesEncoder(c, a),
         NEW ev, NEW b, MessagesMoves(a, ev, b)
  PROVE  MessagesRight(c, a, ev, b)
<1>1. a \in Places /\ a.parts \in Seq(Part)
  BY PlaceFields DEF Sound
<1>2. c = [started |-> a.stage # "before", stopped |-> a.stage = "done",
           open |-> a.open, next |-> Len(a.parts)]
  BY DEF MessagesEncoder
<1>3. PICK n \in Nat : n = Len(a.parts)
  BY <1>1
<1>12. PICK v : v = ViewAt(a)
  OBVIOUS
<1>13. PICK w : w = Messages!Record(c, ev)
  OBVIOUS
<1>4. CASE ev = [type |-> "message_start"] /\ a.open = "none" /\ Opens(a, b)
  <2>1. ev.type = "message_start" /\ a.stage = "before" /\ b = Place("open", "none", a.parts, a.text, a.status)
    BY <1>4 DEF Opens
  <2>2. Messages!Legal(c, ev) /\ Messages!Record(c, ev) = [name |-> "open"]
    BY <1>2, <2>1 DEF Messages!Legal, Messages!Record
  <2>3. Messages!Encoded(c, ev) = [started |-> TRUE, stopped |-> FALSE, open |-> "none", next |-> Len(a.parts)]
    BY <1>2, <1>4, <2>1 DEF Messages!Encoded
  <2>4. b.stage = "open" /\ b.open = "none" /\ b.parts = a.parts /\ b.text = a.text /\ b.status = a.status
    BY <2>1 DEF Place
  <2>5. MessagesEncoder(Messages!Encoded(c, ev), b)
    BY <2>3, <2>4 DEF MessagesEncoder
  <2>6. v = Sheet("before", a.parts, "none", a.text, a.status)
    BY <1>4, <1>12, <2>1 DEF ViewAt
  <2>7. ViewAt(b) = Sheet("open", a.parts, "none", a.text, a.status)
    BY <2>4 DEF ViewAt
  <2>8. Client!Seen(v, "messages", w) = Sheet("open", a.parts, "none", a.text, a.status)
    BY <1>13, <2>2, <2>6, SeenOpen
  <2> QED BY <1>12, <1>13, <2>2, <2>5, <2>7, <2>8 DEF MessagesRight
<1>5. CASE \E kind \in {"text", "thinking", "tool_use"}, call \in Int :
             /\ ev = [type |-> "block_start", kind |-> kind, call |-> call]
             /\ Begins(a, kind, call, kind, b)
  <2>1. PICK kind \in {"text", "thinking", "tool_use"}, call \in Int :
               /\ ev = [type |-> "block_start", kind |-> kind, call |-> call]
               /\ Begins(a, kind, call, kind, b)
    BY <1>5
  <2>2. PICK m \in Seq(Part) : m = Append(a.parts, NewPart(kind, call))
    <3>1. NewPart(kind, call) \in Part
      BY NewPartFields DEF Kinds
    <3>2. PICK q \in Seq(Part) : q = a.parts
      BY <1>1
    <3>3. Append(q, NewPart(kind, call)) \in Seq(Part)
      BY <3>1, AppendIn
    <3> QED BY <3>2, <3>3
  <2>3. Len(m) = n + 1
    BY <1>1, <1>3, <2>2
  <2>4. /\ a.stage = "open" /\ a.open = "none" /\ kind # "none"
        /\ b.stage = "open" /\ b.open = kind /\ b.parts = m /\ b.text = a.text /\ b.status = a.status
    BY <2>1, <2>2 DEF Begins, Place
  <2>5. ev.type = "block_start" /\ ev.kind = kind /\ ev.call = call
    BY <2>1
  <2>6. Messages!Legal(c, ev)
    BY <1>2, <2>4, <2>5 DEF Messages!Legal
  <2>7. Messages!Record(c, ev) = [name |-> "part", index |-> Len(a.parts), kind |-> kind, call |-> call]
    BY <1>2, <2>5 DEF Messages!Record
  <2>8. Messages!Encoded(c, ev) = [started |-> TRUE, stopped |-> FALSE, open |-> kind, next |-> n + 1]
    BY <1>2, <1>3, <2>4, <2>5 DEF Messages!Encoded
  <2>9. MessagesEncoder(Messages!Encoded(c, ev), b)
    BY <2>3, <2>4, <2>8 DEF MessagesEncoder
  <2>11. v = Sheet("open", a.parts, "none", a.text, a.status)
    BY <1>12, <2>4 DEF ViewAt
  <2>10. Client!Seen(v, "messages", w) = Sheet("open", m, kind, a.text, a.status)
    <3>1. kind = "none" <=> "messages" = "chat"
      BY <2>4
    <3> QED BY <1>13, <2>2, <2>7, <2>11, <3>1, SeenPart
  <2>12. ViewAt(b) = Sheet("open", m, kind, a.text, a.status)
    BY <2>4 DEF ViewAt
  <2> QED BY <1>12, <1>13, <2>6, <2>9, <2>10, <2>12 DEF MessagesRight
<1>6. CASE ev = [type |-> "block_stop"] /\ Closes(a, b)
  <2>1. a.open # "none" /\ b = Place("open", "none", a.parts, a.text, a.status) /\ ev.type = "block_stop"
    BY <1>6 DEF Closes
  <2>2. PICK q \in Seq(Part), p \in Part : a.parts = Append(q, p) /\ a.stage = "open"
    BY <2>1 DEF Sound
  <2>3. b.stage = "open" /\ b.open = "none" /\ b.parts = a.parts /\ b.text = a.text /\ b.status = a.status
    BY <2>1 DEF Place
  <2>4. Messages!Legal(c, ev)
    BY <1>2, <2>1, <2>2 DEF Messages!Legal
  <2>6. w = [name |-> "stop", index |-> n - 1]
    BY <1>2, <1>3, <1>13, <2>1 DEF Messages!Record
  <2>7. w.name = "stop" /\ w.index = Len(q)
    <3>1. Len(q) \in Nat /\ n = Len(q) + 1
      BY <1>3, <2>2
    <3> QED BY <2>6, <3>1
  <2>8. Messages!Encoded(c, ev) = [started |-> TRUE, stopped |-> FALSE, open |-> "none", next |-> Len(a.parts)]
    BY <1>2, <2>1, <2>2 DEF Messages!Encoded
  <2>9. MessagesEncoder(Messages!Encoded(c, ev), b)
    BY <2>3, <2>8 DEF MessagesEncoder
  <2>10. /\ v = Sheet("open", a.parts, a.open, a.text, a.status)
         /\ ViewAt(b) = Sheet("open", a.parts, "none", a.text, a.status)
    BY <1>12, <2>1, <2>2, <2>3 DEF ViewAt
  <2>11. Client!Seen(v, "messages", w) = Sheet("open", a.parts, "none", a.text, a.status)
    BY <2>1, <2>2, <2>7, <2>10, SeenStop
  <2> QED BY <1>12, <1>13, <2>4, <2>9, <2>10, <2>11 DEF MessagesRight
<1>7. ASSUME NEW kind \in {"text", "thinking", "tool_use"}, NEW f \in Int,
             a.open = kind, Adds(a, kind, f, b), Messages!Required(ev) = kind,
             ev.type \in {"text", "thinking", "json"}, f = IF ev.type = "json" THEN ev.of ELSE NoCall
      PROVE  MessagesRight(c, a, ev, b)
  <2>1. PICK q \in Seq(Part), p \in Part :
               /\ a.parts = Append(q, p) /\ p.kind = kind
               /\ b = Place("open", a.open, Append(q, Longer(p, f)),
                            a.text \/ kind \in {"text", "message"}, a.status)
    BY <1>7 DEF Adds
  <2>2. PICK m \in Seq(Part) : m = Append(q, Longer(p, f))
    BY PartFields, AppendIn
  <2>3. Len(q) \in Nat /\ n = Len(q) + 1 /\ Len(m) = Len(a.parts)
    BY <1>3, <2>1, <2>2
  <2>4. /\ a.stage = "open" /\ kind # "none"
        /\ b.stage = "open" /\ b.open = kind /\ b.parts = m
        /\ (b.text <=> a.text \/ kind \in {"text", "message"}) /\ b.text \in BOOLEAN
        /\ b.status = a.status
    BY <1>7, <2>1, <2>2 DEF Adds, Place
  <2>5. Messages!Legal(c, ev)
    BY <1>2, <1>7, <2>4 DEF Messages!Legal
  <2>6. PICK x \in BOOLEAN : x <=> a.text \/ kind \in {"text", "message"}
    OBVIOUS
  <2>7. w = [name |-> "delta", index |-> Len(q), kind |-> p.kind, of |-> f]
    BY <1>2, <1>3, <1>7, <1>13, <2>1, <2>3 DEF Messages!Record, NoCall, Messages!NoIndex
  <2>8. Messages!Encoded(c, ev) = c
    BY <1>7 DEF Messages!Encoded
  <2>9. MessagesEncoder(c, b)
    BY <1>2, <1>7, <2>3, <2>4 DEF MessagesEncoder
  <2>10. v = Sheet("open", a.parts, kind, a.text, a.status)
    BY <1>7, <1>12, <2>4 DEF ViewAt
  <2>11. Client!Seen(v, "messages", w) = Sheet("open", m, kind, x, a.status)
    <3>1. a.text \in BOOLEAN /\ (x <=> a.text \/ p.kind \in {"text", "message"})
      BY <1>1, <2>1, <2>6, PlaceFields
    <3>2. v = Sheet("open", Append(q, p), kind, a.text, a.status)
      BY <2>1, <2>10
    <3>4. Client!Seen(v, "messages", w) = Sheet("open", Append(q, Longer(p, f)), kind, x, a.status)
      BY <2>7, <2>4, <3>1, <3>2, SeenDelta
    <3> QED BY <2>2, <3>4
  <2>12. b.text = x
    BY <2>4, <2>6
  <2>13. ViewAt(b) = Sheet("open", m, kind, x, a.status)
    BY <2>4, <2>12 DEF ViewAt
  <2> QED BY <1>12, <1>13, <2>5, <2>8, <2>9, <2>11, <2>13 DEF MessagesRight
<1>8. CASE \E kind \in {"text", "thinking"} :
             ev = [type |-> kind] /\ a.open = kind /\ Adds(a, kind, NoCall, b)
  <2>1. PICK kind \in {"text", "thinking"} :
               ev = [type |-> kind] /\ a.open = kind /\ Adds(a, kind, NoCall, b)
    BY <1>8
  <2>2. /\ ev.type = kind /\ Messages!Required(ev) = kind /\ NoCall \in Int
        /\ NoCall = IF ev.type = "json" THEN ev.of ELSE NoCall
    BY <2>1 DEF Messages!Required, NoCall
  <2> QED BY <1>7, <2>1, <2>2
<1>9. CASE \E f \in Int :
             ev = [type |-> "json", of |-> f] /\ a.open = "tool_use" /\ Adds(a, "tool_use", f, b)
  <2>1. PICK f \in Int :
               ev = [type |-> "json", of |-> f] /\ a.open = "tool_use" /\ Adds(a, "tool_use", f, b)
    BY <1>9
  <2>2. ev.type = "json" /\ Messages!Required(ev) = "tool_use" /\ f = IF ev.type = "json" THEN ev.of ELSE NoCall
    BY <2>1 DEF Messages!Required
  <2> QED BY <1>7, <2>1, <2>2
<1>10. CASE ev = [type |-> "message_delta"] /\ Turns(a, "open", "closing", b)
  <2>1. /\ ev.type = "message_delta" /\ a.stage = "open" /\ a.open = "none"
        /\ b = Place("closing", "none", a.parts, a.text, a.status)
    BY <1>10 DEF Turns
  <2>2. Messages!Legal(c, ev) /\ Messages!Record(c, ev) = [name |-> "closing"] /\ Messages!Encoded(c, ev) = c
    BY <1>2, <2>1 DEF Messages!Legal, Messages!Record, Messages!Encoded
  <2>3. b.stage = "closing" /\ b.open = "none" /\ b.parts = a.parts /\ b.text = a.text /\ b.status = a.status
    BY <2>1 DEF Place
  <2>4. MessagesEncoder(c, b)
    BY <1>2, <2>1, <2>3 DEF MessagesEncoder
  <2>5. v = Sheet("open", a.parts, "none", a.text, a.status)
    BY <1>12, <2>1 DEF ViewAt
  <2>6. ViewAt(b) = Sheet("closing", a.parts, "none", a.text, a.status)
    BY <2>3 DEF ViewAt
  <2>7. Client!Seen(v, "messages", w) = Sheet("closing", a.parts, "none", a.text, a.status)
    BY <1>13, <2>2, <2>5, SeenClosing
  <2> QED BY <1>12, <1>13, <2>2, <2>4, <2>6, <2>7 DEF MessagesRight
<1>11. CASE ev = [type |-> "message_stop"] /\ Turns(a, "closing", "done", b)
  <2>1. /\ ev.type = "message_stop" /\ a.stage = "closing" /\ a.open = "none"
        /\ b = Place("done", "none", a.parts, a.text, a.status)
    BY <1>11 DEF Turns
  <2>2. Messages!Legal(c, ev) /\ Messages!Record(c, ev) = [name |-> "end"]
    BY <1>2, <2>1 DEF Messages!Legal, Messages!Record
  <2>3. b.stage = "done" /\ b.open = "none" /\ b.parts = a.parts /\ b.text = a.text /\ b.status = a.status
    BY <2>1 DEF Place
  <2>4. Messages!Encoded(c, ev) = [started |-> TRUE, stopped |-> TRUE, open |-> "none", next |-> Len(a.parts)]
    BY <1>2, <2>1 DEF Messages!Encoded
  <2>5. MessagesEncoder(Messages!Encoded(c, ev), b)
    BY <2>3, <2>4 DEF MessagesEncoder
  <2>6. v = Sheet("closing", a.parts, "none", a.text, a.status)
    BY <1>12, <2>1 DEF ViewAt
  <2>7. ViewAt(b) = Sheet("done", a.parts, "none", a.text, a.status)
    BY <2>3 DEF ViewAt
  <2>8. Client!Seen(v, "messages", w) = Sheet("done", a.parts, "none", a.text, a.status)
    <3>1. w.name = "end"
      BY <1>13, <2>2
    <3> QED BY <2>6, <3>1, SeenEnd
  <2> QED BY <1>12, <1>13, <2>2, <2>5, <2>7, <2>8 DEF MessagesRight
<1> QED BY <1>4, <1>5, <1>6, <1>8, <1>9, <1>10, <1>11 DEF MessagesMoves

ResponsesRight(c, a, ev, b) ==
  /\ Responses!Legal(c, ev)
  /\ ResponsesEncoder(Responses!Encoded(c, ev), b)
  /\ Client!Seen(ViewAt(a), "responses", Responses!Record(c, ev)) = ViewAt(b)

LEMMA ResponsesConforms ==
  ASSUME NEW a, Sound("responses", a), NEW c, ResponsesEncoder(c, a),
         NEW ev, NEW b, ResponsesMoves(a, ev, b)
  PROVE  ResponsesRight(c, a, ev, b)
<1>1. a \in Places /\ a.parts \in Seq(Part)
  BY PlaceFields DEF Sound
<1>2. PICK items, cl, cg :
        /\ items \in Seq(Part)
        /\ c = [created |-> a.stage # "before", done |-> a.stage = "done", open |-> a.open,
                call |-> cl, got |-> cg, next |-> Len(a.parts), items |-> items]
        /\ a.open = "none" => items = a.parts
        /\ a.open # "none" => ItemOf(a.open, cl, cg) \in Part
                               /\ a.parts = Append(items, ItemOf(a.open, cl, cg))
  BY DEF ResponsesEncoder
<1>15. Responses!Item(c) = ItemOf(a.open, cl, cg)
  BY <1>2 DEF Responses!Item, ItemOf
<1>3. PICK n \in Nat : n = Len(a.parts)
  BY <1>1
<1>12. PICK v : v = ViewAt(a)
  OBVIOUS
<1>13. PICK w : w = Responses!Record(c, ev)
  OBVIOUS
<1>14. PICK d : d = Responses!Encoded(c, ev)
  OBVIOUS
<1>4. CASE ev = [type |-> "response_created"] /\ a.open = "none" /\ Opens(a, b)
  <2>1. /\ ev.type = "response_created" /\ a.stage = "before"
        /\ b = Place("open", "none", a.parts, a.text, a.status)
    BY <1>4 DEF Opens
  <2>2. Responses!Legal(c, ev) /\ w = [name |-> "open"]
    BY <1>2, <1>13, <2>1 DEF Responses!Legal, Responses!Record
  <2>3. d = [created |-> TRUE, done |-> FALSE, open |-> "none",
             call |-> cl, got |-> cg, next |-> Len(a.parts), items |-> items]
    BY <1>2, <1>4, <1>14, <2>1 DEF Responses!Encoded
  <2>4. b.stage = "open" /\ b.open = "none" /\ b.parts = a.parts /\ b.text = a.text /\ b.status = a.status
    BY <2>1 DEF Place
  <2>5. ResponsesEncoder(d, b)
    BY <1>2, <1>4, <2>3, <2>4 DEF ResponsesEncoder
  <2>6. v = Sheet("before", a.parts, "none", a.text, a.status)
    BY <1>4, <1>12, <2>1 DEF ViewAt
  <2>7. ViewAt(b) = Sheet("open", a.parts, "none", a.text, a.status)
    BY <2>4 DEF ViewAt
  <2>8. Client!Seen(v, "responses", w) = Sheet("open", a.parts, "none", a.text, a.status)
    BY <2>2, <2>6, SeenOpen
  <2> QED BY <1>12, <1>13, <1>14, <2>2, <2>5, <2>7, <2>8 DEF ResponsesRight
<1>5. CASE \E kind \in {"message", "function_call"}, call \in Int :
             /\ ev = [type |-> "output_item_start", kind |-> kind, call |-> call]
             /\ Begins(a, kind, call, kind, b)
  <2>1. PICK kind \in {"message", "function_call"}, call \in Int :
               /\ ev = [type |-> "output_item_start", kind |-> kind, call |-> call]
               /\ Begins(a, kind, call, kind, b)
    BY <1>5
  <2>2. PICK x \in Part : x = NewPart(kind, call)
    BY NewPartFields DEF Kinds
  <2>3. PICK m \in Seq(Part) : m = Append(a.parts, x)
    <3>1. PICK q \in Seq(Part) : q = a.parts
      BY <1>1
    <3> QED BY <3>1, AppendIn
  <2>4. Len(m) = n + 1
    BY <1>1, <1>3, <2>3
  <2>5. /\ a.stage = "open" /\ a.open = "none" /\ kind # "none"
        /\ b.stage = "open" /\ b.open = kind /\ b.parts = m /\ b.text = a.text /\ b.status = a.status
    BY <2>1, <2>2, <2>3 DEF Begins, Place
  <2>6. ev.type = "output_item_start" /\ ev.kind = kind /\ ev.call = call
    BY <2>1
  <2>7. Responses!Legal(c, ev)
    BY <1>2, <2>5, <2>6 DEF Responses!Legal
  <2>8. w = [name |-> "part", index |-> Len(a.parts), kind |-> kind, call |-> call]
    BY <1>2, <1>13, <2>6 DEF Responses!Record
  <2>9. d = [created |-> TRUE, done |-> FALSE, open |-> kind,
             call |-> call, got |-> <<>>, next |-> n + 1, items |-> items]
    BY <1>2, <1>3, <1>14, <2>5, <2>6 DEF Responses!Encoded
  <2>10. ItemOf(kind, call, <<>>) = x
    BY <2>2 DEF ItemOf, NewPart
  <2>12. b.parts = Append(items, ItemOf(b.open, call, <<>>)) /\ ItemOf(b.open, call, <<>>) \in Part
    BY <1>2, <2>3, <2>5, <2>10
  <2>13. d = [created |-> b.stage # "before", done |-> b.stage = "done", open |-> b.open,
              call |-> call, got |-> <<>>, next |-> Len(b.parts), items |-> items]
    BY <2>4, <2>5, <2>9
  <2>20. items \in Seq(Part)
    BY <1>2
  <2>14. ResponsesEncoder(d, b)
    BY <2>5, <2>12, <2>13, <2>20 DEF ResponsesEncoder
  <2>15. v = Sheet("open", a.parts, "none", a.text, a.status)
    BY <1>12, <2>5 DEF ViewAt
  <2>16. Client!Seen(v, "responses", w) = Sheet("open", m, kind, a.text, a.status)
    <3>1. kind = "none" <=> "responses" = "chat"
      BY <2>5
    <3>2. m = Append(a.parts, NewPart(kind, call))
      BY <2>2, <2>3
    <3>3. Client!Seen(v, "responses", w)
            = Sheet("open", Append(a.parts, NewPart(kind, call)), kind, a.text, a.status)
      BY <2>8, <2>15, <3>1, SeenPart
    <3> QED BY <3>2, <3>3
  <2>17. ViewAt(b) = Sheet("open", m, kind, a.text, a.status)
    BY <2>5 DEF ViewAt
  <2> QED BY <1>12, <1>13, <1>14, <2>7, <2>14, <2>16, <2>17 DEF ResponsesRight
<1>6. CASE ev = [type |-> "output_item_stop"] /\ Closes(a, b)
  <2>1. a.open # "none" /\ b = Place("open", "none", a.parts, a.text, a.status) /\ ev.type = "output_item_stop"
    BY <1>6 DEF Closes
  <2>2. a.stage = "open"
    BY <2>1 DEF Sound
  <2>3. b.stage = "open" /\ b.open = "none" /\ b.parts = a.parts /\ b.text = a.text /\ b.status = a.status
    BY <2>1 DEF Place
  <2>4. PICK q \in Seq(Part), p \in Part : q = items /\ p = Responses!Item(c) /\ a.parts = Append(q, p)
    BY <1>2, <1>15, <2>1
  <2>5. Responses!Legal(c, ev)
    BY <1>2, <2>1, <2>2 DEF Responses!Legal
  <2>6. w = [name |-> "stop", index |-> n - 1, item |-> p]
    BY <1>2, <1>3, <1>13, <2>1, <2>4 DEF Responses!Record
  <2>7. w.name = "stop" /\ w.index = Len(q) /\ w.item = p
    <3>1. Len(q) \in Nat /\ n = Len(q) + 1
      BY <1>3, <2>4
    <3> QED BY <2>6, <3>1
  <2>8. d = [created |-> TRUE, done |-> FALSE, open |-> "none",
             call |-> cl, got |-> cg, next |-> Len(a.parts), items |-> Append(q, p)]
    BY <1>2, <1>14, <2>1, <2>2, <2>4 DEF Responses!Encoded
  <2>10. d = [created |-> b.stage # "before", done |-> b.stage = "done", open |-> b.open,
              call |-> cl, got |-> cg, next |-> Len(b.parts), items |-> b.parts]
    BY <2>3, <2>4, <2>8
  <2>11. ResponsesEncoder(d, b)
    BY <1>1, <2>3, <2>10 DEF ResponsesEncoder
  <2>12. /\ v = Sheet("open", Append(q, p), a.open, a.text, a.status)
         /\ ViewAt(b) = Sheet("open", Append(q, p), "none", a.text, a.status)
    BY <1>12, <2>2, <2>3, <2>4 DEF ViewAt
  <2>13. Client!Seen(v, "responses", w) = Sheet("open", Append(q, p), "none", a.text, a.status)
    BY <2>1, <2>7, <2>12, SeenStop
  <2> QED BY <1>12, <1>13, <1>14, <2>5, <2>11, <2>12, <2>13 DEF ResponsesRight
<1>7. ASSUME NEW kind \in {"message", "function_call"}, NEW f \in Int,
             a.open = kind, Adds(a, kind, f, b), Responses!Required(ev) = kind,
             ev.type \in {"output_text", "function_arguments"}, Responses!Fragment(ev) = f
      PROVE  ResponsesRight(c, a, ev, b)
  <2>1. PICK q \in Seq(Part), p \in Part :
               /\ a.parts = Append(q, p) /\ p.kind = kind
               /\ b = Place("open", a.open, Append(q, Longer(p, f)),
                            a.text \/ kind \in {"text", "message"}, a.status)
    BY <1>7 DEF Adds
  <2>2. PICK m \in Seq(Part) : m = Append(q, Longer(p, f))
    BY PartFields, AppendIn
  <2>3. Len(q) \in Nat /\ n = Len(q) + 1 /\ Len(m) = Len(a.parts)
    BY <1>3, <2>1, <2>2
  <2>4. /\ a.stage = "open" /\ kind # "none"
        /\ b.stage = "open" /\ b.open = kind /\ b.parts = m
        /\ (b.text <=> a.text \/ kind \in {"text", "message"}) /\ b.text \in BOOLEAN
        /\ b.status = a.status
    BY <1>7, <2>1, <2>2 DEF Adds, Place
  <2>5. Responses!Legal(c, ev)
    BY <1>2, <1>7, <2>4 DEF Responses!Legal
  <2>6. PICK x \in BOOLEAN : x <=> a.text \/ kind \in {"text", "message"}
    OBVIOUS
  <2>7. w = [name |-> "delta", index |-> Len(q), kind |-> p.kind, of |-> f]
    BY <1>2, <1>3, <1>7, <1>13, <2>1, <2>3 DEF Responses!Record
  <2>8. PICK g : g = Append(cg, f)
    OBVIOUS
  <2>9. d = [created |-> TRUE, done |-> FALSE, open |-> kind,
             call |-> cl, got |-> g, next |-> Len(a.parts), items |-> items]
    BY <1>2, <1>7, <1>14, <2>4, <2>8 DEF Responses!Encoded
  <2>10. items = q /\ ItemOf(kind, cl, cg) = p
    <3>1. PICK r \in Seq(Part), y \in Part : r = items /\ y = ItemOf(kind, cl, cg) /\ Append(r, y) = Append(q, p)
      BY <1>2, <1>7, <2>1, <2>4
    <3>2. r = q /\ y = p
      BY <3>1, AppendSame
    <3> QED BY <3>1, <3>2
  <2>11. ItemOf(kind, cl, g) = Longer(p, f)
    <3>1. p = [kind |-> kind, call |-> cl, got |-> cg]
      BY <2>10 DEF ItemOf
    <3>2. PICK y : y = Longer(p, f)
      OBVIOUS
    <3>3. y = [kind |-> kind, call |-> cl, got |-> g]
      BY <2>8, <3>1, <3>2 DEF Longer
    <3> QED BY <3>2, <3>3 DEF ItemOf
  <2>12. d = [created |-> b.stage # "before", done |-> b.stage = "done", open |-> b.open,
              call |-> cl, got |-> g, next |-> Len(b.parts), items |-> items]
    BY <2>3, <2>4, <2>9
  <2>13. b.parts = Append(items, ItemOf(b.open, cl, g)) /\ ItemOf(b.open, cl, g) \in Part
    BY <2>2, <2>4, <2>10, <2>11, PartFields
  <2>20. items \in Seq(Part)
    BY <1>2
  <2>14. ResponsesEncoder(d, b)
    BY <2>4, <2>12, <2>13, <2>20 DEF ResponsesEncoder
  <2>15. v = Sheet("open", Append(q, p), kind, a.text, a.status)
    BY <1>7, <1>12, <2>1, <2>4 DEF ViewAt
  <2>16. Client!Seen(v, "responses", w) = Sheet("open", m, kind, x, a.status)
    <3>1. a.text \in BOOLEAN /\ (x <=> a.text \/ p.kind \in {"text", "message"})
      BY <1>1, <2>1, <2>6, PlaceFields
    <3>4. Client!Seen(v, "responses", w) = Sheet("open", Append(q, Longer(p, f)), kind, x, a.status)
      BY <2>4, <2>7, <2>15, <3>1, SeenDelta
    <3> QED BY <2>2, <3>4
  <2>17. b.text = x
    BY <2>4, <2>6
  <2>18. ViewAt(b) = Sheet("open", m, kind, x, a.status)
    BY <2>4, <2>17 DEF ViewAt
  <2> QED BY <1>12, <1>13, <1>14, <2>5, <2>14, <2>16, <2>18 DEF ResponsesRight
<1>8. CASE ev = [type |-> "output_text"] /\ a.open = "message" /\ Adds(a, "message", NoCall, b)
  <2>1. ev.type = "output_text" /\ Responses!Required(ev) = "message"
        /\ NoCall \in Int /\ Responses!Fragment(ev) = NoCall
    BY <1>8 DEF Responses!Required, Responses!Fragment, Responses!NoIndex, NoCall
  <2> QED BY <1>7, <1>8, <2>1
<1>9. CASE \E f \in Int :
             /\ ev = [type |-> "function_arguments", of |-> f] /\ a.open = "function_call"
             /\ Adds(a, "function_call", f, b)
  <2>1. PICK f \in Int :
               /\ ev = [type |-> "function_arguments", of |-> f] /\ a.open = "function_call"
               /\ Adds(a, "function_call", f, b)
    BY <1>9
  <2>2. ev.type = "function_arguments" /\ Responses!Required(ev) = "function_call"
        /\ Responses!Fragment(ev) = f
    BY <2>1 DEF Responses!Required, Responses!Fragment
  <2> QED BY <1>7, <2>1, <2>2
<1>10. CASE \E status \in Statuses :
              ev = [type |-> "response_done", status |-> status] /\ Settles(a, status, b)
  <2>1. PICK status \in Statuses :
               ev = [type |-> "response_done", status |-> status] /\ Settles(a, status, b)
    BY <1>10
  <2>2. /\ ev.type = "response_done" /\ ev.status = status /\ a.stage = "open" /\ a.open = "none"
        /\ b = Place("done", "none", a.parts, a.text, status)
    BY <2>1 DEF Settles
  <2>3. b.stage = "done" /\ b.open = "none" /\ b.parts = a.parts /\ b.text = a.text /\ b.status = status
    BY <2>2 DEF Place
  <2>4. Responses!Legal(c, ev) /\ w = [name |-> "end", status |-> status, output |-> a.parts]
    BY <1>2, <1>13, <2>2 DEF Responses!Legal, Responses!Record
  <2>5. d = [created |-> TRUE, done |-> TRUE, open |-> "none",
             call |-> cl, got |-> cg, next |-> Len(a.parts), items |-> items]
    BY <1>2, <1>14, <2>2 DEF Responses!Encoded
  <2>6. ResponsesEncoder(d, b)
    BY <1>2, <2>2, <2>3, <2>5 DEF ResponsesEncoder
  <2>7. v = Sheet("open", a.parts, "none", a.text, a.status)
    BY <1>12, <2>2 DEF ViewAt
  <2>8. ViewAt(b) = Sheet("done", a.parts, "none", a.text, status)
    BY <2>3 DEF ViewAt
  <2>9. Client!Seen(v, "responses", w) = Sheet("done", a.parts, "none", a.text, status)
    BY <2>4, <2>7, SeenDone
  <2> QED BY <1>12, <1>13, <1>14, <2>4, <2>6, <2>8, <2>9 DEF ResponsesRight
<1> QED BY <1>4, <1>5, <1>6, <1>8, <1>9, <1>10 DEF ResponsesMoves

ChatRight(c, a, ev, b) ==
  /\ Chat!Legal(c, ev)
  /\ ChatEncoder(Chat!Encoded(c, ev), b)
  /\ Client!Seen(ViewAt(a), "chat", Chat!Record(c, ev)) = ViewAt(b)

LEMMA ChatConforms ==
  ASSUME NEW a, Sound("chat", a), NEW c, ChatEncoder(c, a), NEW ev, NEW b, ChatMoves(a, ev, b)
  PROVE  ChatRight(c, a, ev, b)
<1>1. a \in Places /\ a.parts \in Seq(Part) /\ a.open = "none" /\ a.text \in BOOLEAN
  BY PlaceFields DEF Sound
<1>2. c = [started |-> a.stage # "before", done |-> a.stage = "done"]
  BY DEF ChatEncoder
<1>3. PICK n \in Nat : n = Len(a.parts)
  BY <1>1
<1>4. PICK v : v = ViewAt(a)
  OBVIOUS
<1>5. PICK w : w = Chat!Record(c, ev)
  OBVIOUS
<1>6. CASE ev = [type |-> "start"] /\ a.open = "none" /\ Opens(a, b)
  <2>1. ev.type = "start" /\ a.stage = "before" /\ b = Place("open", "none", a.parts, a.text, a.status)
    BY <1>6 DEF Opens
  <2>2. b.stage = "open" /\ b.open = "none" /\ b.parts = a.parts /\ b.text = a.text /\ b.status = a.status
    BY <2>1 DEF Place
  <2>3. Chat!Legal(c, ev) /\ w = [name |-> "open"]
    BY <1>2, <1>5, <2>1 DEF Chat!Legal, Chat!Record
  <2>4. Chat!Encoded(c, ev) = [started |-> TRUE, done |-> FALSE]
    BY <1>2, <2>1 DEF Chat!Encoded
  <2>5. ChatEncoder(Chat!Encoded(c, ev), b)
    BY <2>2, <2>4 DEF ChatEncoder
  <2>6. v = Sheet("before", a.parts, "none", a.text, a.status)
    BY <1>1, <1>4, <2>1 DEF ViewAt
  <2>7. ViewAt(b) = Sheet("open", a.parts, "none", a.text, a.status)
    BY <2>2 DEF ViewAt
  <2>8. Client!Seen(v, "chat", w) = Sheet("open", a.parts, "none", a.text, a.status)
    BY <2>3, <2>6, SeenOpen
  <2> QED BY <1>4, <1>5, <2>3, <2>5, <2>7, <2>8 DEF ChatRight
<1>7. CASE /\ ev = [type |-> "text"] /\ a.stage = "open"
           /\ b = Place("open", a.open, a.parts, TRUE, a.status)
  <2>1. ev.type = "text" /\ a.stage = "open"
    BY <1>7
  <2>0. PICK x \in {TRUE} : x
    OBVIOUS
  <2>2. /\ b.stage = "open" /\ b.open = "none" /\ b.parts = a.parts /\ b.text = x
        /\ b.status = a.status
    BY <1>1, <1>7, <2>0 DEF Place
  <2>3. Chat!Legal(c, ev) /\ w = [name |-> "text"] /\ Chat!Encoded(c, ev) = c
    BY <1>2, <1>5, <2>1 DEF Chat!Legal, Chat!Record, Chat!Encoded
  <2>4. ChatEncoder(c, b)
    BY <1>2, <2>1, <2>2 DEF ChatEncoder
  <2>5. v = Sheet("open", a.parts, "none", a.text, a.status)
    BY <1>1, <1>4, <2>1 DEF ViewAt
  <2>6. ViewAt(b) = Sheet("open", a.parts, "none", x, a.status)
    BY <2>2 DEF ViewAt
  <2>7. Client!Seen(v, "chat", w) = Sheet("open", a.parts, "none", x, a.status)
    <3>1. w.name = "text"
      BY <2>3
    <3>2. PICK y : y = a.text
      OBVIOUS
    <3>3. v = Sheet("open", a.parts, "none", y, a.status)
      BY <2>5, <3>2
    <3>4. Client!Seen(v, "chat", w) = [v EXCEPT !.text = TRUE]
      BY <3>1, <3>3 DEF Client!Seen, Client!Acceptable, Client!Reading, Sheet
    <3>5. PICK u : u = [v EXCEPT !.text = TRUE]
      OBVIOUS
    <3>6. u = Sheet("open", a.parts, "none", x, a.status)
      BY <2>0, <3>3, <3>5 DEF Sheet
    <3> QED BY <3>4, <3>5, <3>6
  <2> QED BY <1>4, <1>5, <2>3, <2>4, <2>6, <2>7 DEF ChatRight
<1>8. CASE \E call \in Int :
             /\ ev = [type |-> "tool_call_start", index |-> Len(a.parts), call |-> call]
             /\ Begins(a, "tool_use", call, "none", b)
  <2>1. PICK call \in Int :
               /\ ev = [type |-> "tool_call_start", index |-> Len(a.parts), call |-> call]
               /\ Begins(a, "tool_use", call, "none", b)
    BY <1>8
  <2>2. PICK m : m = Append(a.parts, NewPart("tool_use", call))
    OBVIOUS
  <2>3. /\ a.stage = "open" /\ b.stage = "open" /\ b.open = "none" /\ b.parts = m
        /\ b.text = a.text /\ b.status = a.status
    BY <2>1, <2>2 DEF Begins, Place
  <2>4. ev.type = "tool_call_start" /\ ev.index = Len(a.parts) /\ ev.call = call
    BY <2>1
  <2>5. /\ Chat!Legal(c, ev) /\ Chat!Encoded(c, ev) = c
        /\ w = [name |-> "part", index |-> Len(a.parts), kind |-> "tool_use", call |-> call]
    BY <1>2, <1>5, <2>3, <2>4 DEF Chat!Legal, Chat!Record, Chat!Encoded
  <2>6. ChatEncoder(c, b)
    BY <1>2, <2>3 DEF ChatEncoder
  <2>7. v = Sheet("open", a.parts, "none", a.text, a.status)
    BY <1>1, <1>4, <2>3 DEF ViewAt
  <2>8. ViewAt(b) = Sheet("open", m, "none", a.text, a.status)
    BY <2>3 DEF ViewAt
  <2>9. "none" = "none" <=> "chat" = "chat"
    OBVIOUS
  <2>10. Client!Seen(v, "chat", w)
           = Sheet("open", Append(a.parts, NewPart("tool_use", call)), "none", a.text, a.status)
    BY <2>5, <2>7, <2>9, SeenPart
  <2> QED BY <1>4, <1>5, <2>2, <2>5, <2>6, <2>8, <2>10 DEF ChatRight
<1>9. CASE \E f \in Int :
             /\ ev = [type |-> "tool_args", index |-> Len(a.parts) - 1, of |-> f]
             /\ Adds(a, "tool_use", f, b)
  <2>1. PICK f \in Int :
               /\ ev = [type |-> "tool_args", index |-> Len(a.parts) - 1, of |-> f]
               /\ Adds(a, "tool_use", f, b)
    BY <1>9
  <2>2. PICK q \in Seq(Part), p \in Part :
               /\ a.parts = Append(q, p) /\ p.kind = "tool_use"
               /\ b = Place("open", "none", Append(q, Longer(p, f)),
                            a.text \/ "tool_use" \in {"text", "message"}, a.status)
    BY <1>1, <2>1 DEF Adds
  <2>3. PICK m \in Seq(Part) : m = Append(q, Longer(p, f))
    BY PartFields, AppendIn
  <2>4. Len(q) \in Nat /\ n = Len(q) + 1
    BY <1>3, <2>2
  <2>5. a.stage = "open"
    BY <2>1 DEF Adds
  <2>6. /\ b.stage = "open" /\ b.open = "none" /\ b.parts = m /\ (b.text <=> a.text)
        /\ b.text \in BOOLEAN /\ b.status = a.status
    BY <2>2, <2>3 DEF Place
  <2>7. b.text = a.text
    BY <1>1, <2>6
  <2>8. ev.type = "tool_args" /\ ev.index = Len(q) /\ ev.of = f
    <3>1. ev.type = "tool_args" /\ ev.index = n - 1 /\ ev.of = f
      BY <1>3, <2>1
    <3> QED BY <2>4, <3>1
  <2>9. /\ Chat!Legal(c, ev) /\ Chat!Encoded(c, ev) = c
        /\ w = [name |-> "delta", index |-> Len(q), kind |-> p.kind, of |-> f]
    BY <1>2, <1>5, <2>2, <2>5, <2>8 DEF Chat!Legal, Chat!Record, Chat!Encoded
  <2>10. ChatEncoder(c, b)
    BY <1>2, <2>5, <2>6 DEF ChatEncoder
  <2>11. v = Sheet("open", Append(q, p), "none", a.text, a.status)
    BY <1>1, <1>4, <2>2, <2>5 DEF ViewAt
  <2>12. ViewAt(b) = Sheet("open", m, "none", a.text, a.status)
    BY <2>6, <2>7 DEF ViewAt
  <2>13. Client!Seen(v, "chat", w) = Sheet("open", Append(q, Longer(p, f)), "none", a.text, a.status)
    <3>1. a.text <=> a.text \/ p.kind \in {"text", "message"}
      BY <2>2
    <3> QED BY <1>1, <2>9, <2>11, <3>1, SeenDelta
  <2> QED BY <1>4, <1>5, <2>3, <2>9, <2>10, <2>12, <2>13 DEF ChatRight
<1>10. CASE \E usage : ev = [type |-> "finish", usage |-> usage] /\ Turns(a, "open", "done", b)
  <2>1. PICK usage : ev = [type |-> "finish", usage |-> usage] /\ Turns(a, "open", "done", b)
    BY <1>10
  <2>2. /\ ev.type = "finish" /\ a.stage = "open"
        /\ b = Place("done", "none", a.parts, a.text, a.status)
    BY <2>1 DEF Turns
  <2>3. b.stage = "done" /\ b.open = "none" /\ b.parts = a.parts /\ b.text = a.text /\ b.status = a.status
    BY <2>2 DEF Place
  <2>4. Chat!Legal(c, ev) /\ w.name = "end"
    BY <1>2, <1>5, <2>2 DEF Chat!Legal, Chat!Record
  <2>5. Chat!Encoded(c, ev) = [started |-> TRUE, done |-> TRUE]
    BY <1>2, <2>2 DEF Chat!Encoded
  <2>6. ChatEncoder(Chat!Encoded(c, ev), b)
    BY <2>3, <2>5 DEF ChatEncoder
  <2>7. v = Sheet("open", a.parts, "none", a.text, a.status)
    BY <1>1, <1>4, <2>2 DEF ViewAt
  <2>8. ViewAt(b) = Sheet("done", a.parts, "none", a.text, a.status)
    BY <2>3 DEF ViewAt
  <2>9. Client!Seen(v, "chat", w) = Sheet("done", a.parts, "none", a.text, a.status)
    BY <2>4, <2>7, SeenEnd
  <2> QED BY <1>4, <1>5, <2>4, <2>6, <2>8, <2>9 DEF ChatRight
<1> QED BY <1>6, <1>7, <1>8, <1>9, <1>10 DEF ChatMoves

LEMMA VerbatimConforms ==
  ASSUME NEW a \in Places, NEW ev \in Accumulators, NEW b, VerbatimMoves(a, ev, b)
  PROVE  SeenVerbatim(ViewAt(a), ev) = ViewAt(b)
<1>1. PICK x \in BOOLEAN : x <=> a.text \/ ev.text > 0
  OBVIOUS
<1>2. PICK m : m = a.parts \o ev.calls
  OBVIOUS
<1>3. b = Place(a.stage, a.open, m, x, a.status)
  BY <1>1, <1>2, PlaceFields DEF VerbatimMoves
<1>4. ViewAt(b) = Sheet(a.stage, m, a.open, x, a.status)
  BY <1>3 DEF ViewAt, Place
<1>5. PICK v : v = ViewAt(a)
  OBVIOUS
<1>6. v = Sheet(a.stage, a.parts, a.open, a.text, a.status)
  BY <1>5 DEF ViewAt
<1>7. PICK u : u = [v EXCEPT !.text = x, !.parts = m]
  OBVIOUS
<1>8. u = Sheet(a.stage, m, a.open, x, a.status)
  BY <1>6, <1>7 DEF Sheet
<1>9. SeenVerbatim(v, ev) = u
  <2>1. v.text = a.text /\ v.parts = a.parts
    BY <1>6 DEF Sheet
  <2>2. (a.text \/ ev.text > 0) = x
    BY <1>1, PlaceFields
  <2> QED BY <1>2, <1>7, <2>1, <2>2 DEF SeenVerbatim
<1> QED BY <1>4, <1>5, <1>8, <1>9

(* The encoder of the stream accepts the event, and its record is read.    *)
LEMMA Conforms ==
  ASSUME surface \in AllSurfaces, NEW a, Sound(surface, a), EncoderAt(surface, enc, a),
         view = ViewAt(a), NEW ev, Verbatim(surface) => ev \in Accumulators,
         NEW b, Moves(surface, a, ev, b)
  PROVE  Legal(ev) /\ EncoderAt(surface, Encoded(ev), b) /\ Shown(ev) = ViewAt(b)
<1>1. surface \in {"messages", "responses", "chat"} \/ Verbatim(surface)
  BY DEF Verbatim, Translated
<1>2. CASE surface = "messages"
  <2>1. MessagesEncoder(enc, a) /\ MessagesMoves(a, ev, b) /\ Sound("messages", a)
    BY <1>2 DEF EncoderAt, Moves
  <2>2. MessagesRight(enc, a, ev, b)
    BY <2>1, MessagesConforms
  <2>5. ~Verbatim(surface)
    BY <1>2 DEF Verbatim, Translated
  <2>3. (Legal(ev) <=> Messages!Legal(enc, ev)) /\ Encoded(ev) = Messages!Encoded(enc, ev)
    BY <1>2, <2>5 DEF Legal, Encoded
  <2>4. Shown(ev) = Client!Seen(view, "messages", Messages!Record(enc, ev))
    BY <1>2, <2>5 DEF Shown
  <2> QED BY <1>2, <2>2, <2>3, <2>4, <2>5 DEF MessagesRight, EncoderAt
<1>3. CASE surface = "responses"
  <2>1. ResponsesEncoder(enc, a) /\ ResponsesMoves(a, ev, b) /\ Sound("responses", a)
    BY <1>3 DEF EncoderAt, Moves
  <2>2. ResponsesRight(enc, a, ev, b)
    BY <2>1, ResponsesConforms
  <2>5. ~Verbatim(surface)
    BY <1>3 DEF Verbatim, Translated
  <2>3. (Legal(ev) <=> Responses!Legal(enc, ev)) /\ Encoded(ev) = Responses!Encoded(enc, ev)
    BY <1>3, <2>5 DEF Legal, Encoded
  <2>4. Shown(ev) = Client!Seen(view, "responses", Responses!Record(enc, ev))
    BY <1>3, <2>5 DEF Shown
  <2> QED BY <1>3, <2>2, <2>3, <2>4, <2>5 DEF ResponsesRight, EncoderAt
<1>4. CASE surface = "chat"
  <2>1. ChatEncoder(enc, a) /\ ChatMoves(a, ev, b) /\ Sound("chat", a)
    BY <1>4 DEF EncoderAt, Moves
  <2>2. ChatRight(enc, a, ev, b)
    BY <2>1, ChatConforms
  <2>5. ~Verbatim(surface)
    BY <1>4 DEF Verbatim, Translated
  <2>3. (Legal(ev) <=> Chat!Legal(enc, ev)) /\ Encoded(ev) = Chat!Encoded(enc, ev)
    BY <1>4, <2>5 DEF Legal, Encoded
  <2>4. Shown(ev) = Client!Seen(view, "chat", Chat!Record(enc, ev))
    BY <1>4, <2>5 DEF Shown
  <2> QED BY <1>4, <2>2, <2>3, <2>4, <2>5 DEF ChatRight, EncoderAt
<1>5. CASE Verbatim(surface)
  <2>1. surface # "messages" /\ surface # "responses" /\ surface # "chat"
    BY <1>5 DEF Verbatim, Translated
  <2>2. Legal(ev) /\ Encoded(ev) = enc /\ Shown(ev) = SeenVerbatim(view, ev)
    BY <1>5, <2>1 DEF Legal, Encoded, Shown
  <2>3. SeenVerbatim(view, ev) = ViewAt(b)
    BY <1>5, VerbatimConforms DEF Moves, Sound
  <2> QED BY <1>5, <2>1, <2>2, <2>3 DEF EncoderAt
<1> QED BY <1>1, <1>2, <1>3, <1>4, <1>5

-----------------------------------------------------------------------------
(* The way from one place to another                                       *)

(* Every fragment of a Messages block is of the call the block was opened  *)
(* for.                                                                    *)
FiledParts(parts) ==
  \A p \in DOMAIN parts : \A k \in DOMAIN parts[p].got : parts[p].got[k] \in {NoCall, parts[p].call}

(* A place where the client sees nothing that was not captured.            *)
Fits(s, a, cap, allowed) ==
  /\ Sound(s, a)
  /\ a.status \in allowed
  /\ Told(CallsOf(a.parts), cap.calls)
  /\ a.text => cap.text > 0
  /\ s = "messages" => FiledParts(a.parts)

Follows(s, x, ev, y) == Moves(s, x, ev, y) /\ (Verbatim(s) => ev \in Accumulators)

Way(g, s, a, events, b, cap, allowed) ==
  /\ g[0] = a /\ g[Len(events)] = b
  /\ \A k \in 0..Len(events) : Fits(s, g[k], cap, allowed)
  /\ \A k \in 1..Len(events) : Follows(s, g[k - 1], events[k], g[k])

Leads(s, a, events, b, cap, allowed) ==
  \E E, g : events \in Seq(E) /\ Way(g, s, a, events, b, cap, allowed)

LEMMA LeadsNothing ==
  ASSUME NEW s, NEW a, NEW cap, NEW allowed, Fits(s, a, cap, allowed)
  PROVE  Leads(s, a, <<>>, a, cap, allowed)
<1>1. PICK e : e = <<>>
  OBVIOUS
<1>2. e \in Seq({}) /\ Len(e) = 0
  BY <1>1
<1>3. PICK g : g = [k \in 0..0 |-> a]
  OBVIOUS
<1>4. Way(g, s, a, e, a, cap, allowed)
  BY <1>2, <1>3 DEF Way
<1> QED BY <1>1, <1>2, <1>4 DEF Leads

LEMMA LeadsOne ==
  ASSUME NEW s, NEW a, NEW ev, NEW b, NEW cap, NEW allowed,
         Fits(s, a, cap, allowed), Fits(s, b, cap, allowed), Follows(s, a, ev, b)
  PROVE  Leads(s, a, <<ev>>, b, cap, allowed)
<1>1. PICK e : e = <<ev>>
  OBVIOUS
<1>2. e \in Seq({ev}) /\ Len(e) = 1 /\ e[1] = ev
  BY <1>1
<1>3. PICK g : g = [k \in 0..1 |-> IF k = 0 THEN a ELSE b]
  OBVIOUS
<1>4. g[0] = a /\ g[1] = b
  BY <1>3
<1>5. (\A k \in 0..1 : k = 0 \/ k = 1) /\ (\A k \in 1..1 : k = 1 /\ k - 1 = 0)
  OBVIOUS
<1>6. Way(g, s, a, e, b, cap, allowed)
  BY <1>2, <1>4, <1>5 DEF Way
<1> QED BY <1>1, <1>2, <1>6 DEF Leads

LEMMA LeadsThen ==
  ASSUME NEW s, NEW a, NEW x, NEW b, NEW y, NEW c, NEW cap, NEW allowed,
         Leads(s, a, x, b, cap, allowed), Leads(s, b, y, c, cap, allowed)
  PROVE  Leads(s, a, x \o y, c, cap, allowed)
<1>1. PICK E, g : x \in Seq(E) /\ Way(g, s, a, x, b, cap, allowed)
  BY DEF Leads
<1>2. PICK F, h : y \in Seq(F) /\ Way(h, s, b, y, c, cap, allowed)
  BY DEF Leads
<1>3. PICK H : H = E \cup F
  OBVIOUS
<1>4. x \in Seq(H) /\ y \in Seq(H)
  BY <1>1, <1>2, <1>3, SeqMonotonic
<1>5. PICK m \in Nat, n \in Nat : m = Len(x) /\ n = Len(y)
  BY <1>1, <1>2
<1>6. PICK z \in Seq(H) : z = x \o y
  BY <1>4, ConcatProperties
<1>7. Len(z) = m + n /\ \A k \in 1..(m + n) : z[k] = IF k <= m THEN x[k] ELSE y[k - m]
  BY <1>4, <1>5, <1>6, ConcatProperties
<1>8. PICK w : w = [k \in 0..(m + n) |-> IF k <= m THEN g[k] ELSE h[k - m]]
  OBVIOUS
<1>9. g[0] = a /\ g[m] = b /\ h[0] = b /\ h[n] = c
  BY <1>1, <1>2, <1>5 DEF Way
<1>10. w[0] = a /\ w[m + n] = c
  <2>1. w[0] = a
    BY <1>8, <1>9
  <2>2. CASE n = 0
    <3>1. w[m + n] = g[m]
      BY <1>8, <2>2
    <3> QED BY <1>9, <2>1, <2>2, <3>1
  <2>3. CASE n # 0
    <3>1. m + n \in 0..(m + n) /\ ~(m + n <= m) /\ (m + n) - m = n
      BY <2>3
    <3>2. w[m + n] = h[n]
      BY <1>8, <3>1
    <3> QED BY <1>9, <2>1, <3>2
  <2> QED BY <2>2, <2>3
<1>11. ASSUME NEW k \in 0..(m + n) PROVE Fits(s, w[k], cap, allowed)
  <2>1. CASE k <= m
    <3>1. k \in 0..m /\ w[k] = g[k]
      BY <1>8, <2>1
    <3> QED BY <1>1, <1>5, <3>1 DEF Way
  <2>2. CASE ~(k <= m)
    <3>1. k - m \in 0..n /\ w[k] = h[k - m]
      BY <1>8, <2>2
    <3> QED BY <1>2, <1>5, <3>1 DEF Way
  <2> QED BY <2>1, <2>2
<1>12. ASSUME NEW k \in 1..(m + n) PROVE Follows(s, w[k - 1], z[k], w[k])
  <2>1. CASE k <= m
    <3>1. k \in 1..m /\ k - 1 \in 0..(m + n) /\ k \in 0..(m + n) /\ k - 1 <= m
      BY <2>1
    <3>2. w[k - 1] = g[k - 1] /\ w[k] = g[k] /\ z[k] = x[k]
      BY <1>7, <1>8, <2>1, <3>1
    <3>3. Follows(s, g[k - 1], x[k], g[k])
      BY <1>1, <1>5, <3>1 DEF Way
    <3> QED BY <3>2, <3>3
  <2>2. CASE ~(k <= m)
    <3>1. PICK j \in 1..n : j = k - m
      BY <2>2
    <3>2. k \in 0..(m + n) /\ k - 1 \in 0..(m + n) /\ k - 1 - m = j - 1
      BY <3>1
    <3>3. w[k] = h[j] /\ z[k] = y[j]
      BY <1>7, <1>8, <2>2, <3>1, <3>2
    <3>4. w[k - 1] = h[j - 1]
      <4>1. CASE k - 1 <= m
        <5>1. k - 1 = m /\ j - 1 = 0
          BY <2>2, <3>1, <4>1
        <5>2. w[k - 1] = g[m]
          BY <1>8, <3>2, <5>1
        <5> QED BY <1>9, <5>1, <5>2
      <4>2. CASE ~(k - 1 <= m)
        BY <1>8, <3>2, <4>2
      <4> QED BY <4>1, <4>2
    <3>5. Follows(s, h[j - 1], y[j], h[j])
      BY <1>2, <1>5 DEF Way
    <3> QED BY <3>3, <3>4, <3>5
  <2> QED BY <2>1, <2>2
<1>13. Way(w, s, a, z, c, cap, allowed)
  BY <1>7, <1>10, <1>11, <1>12 DEF Way
<1> QED BY <1>6, <1>13 DEF Leads

LEMMA LeadsEnds ==
  ASSUME NEW s, NEW a, NEW x, NEW b, NEW cap, NEW allowed, Leads(s, a, x, b, cap, allowed)
  PROVE  /\ Fits(s, a, cap, allowed) /\ Fits(s, b, cap, allowed)
         /\ x = <<>> => a = b
<1>1. PICK E, g : x \in Seq(E) /\ Way(g, s, a, x, b, cap, allowed)
  BY DEF Leads
<1>2. PICK n \in Nat : n = Len(x)
  BY <1>1
<1>3. 0 \in 0..n /\ n \in 0..n
  OBVIOUS
<1>4. x = <<>> => n = 0
  BY <1>2
<1> QED BY <1>1, <1>2, <1>3, <1>4 DEF Way

LEMMA LeadsHead ==
  ASSUME NEW s, NEW a, NEW x, NEW b, NEW cap, NEW allowed, Leads(s, a, x, b, cap, allowed), x # <<>>
  PROVE  \E c : Follows(s, a, Head(x), c) /\ Leads(s, c, Tail(x), b, cap, allowed)
<1>1. PICK E, g : x \in Seq(E) /\ Way(g, s, a, x, b, cap, allowed)
  BY DEF Leads
<1>2. PICK n \in Nat : Len(x) = n + 1
  <2>1. Len(x) \in Nat /\ Len(x) # 0
    BY <1>1, EmptySeq
  <2> QED BY <2>1
<1>3. PICK y \in Seq(E) : y = Tail(x) /\ Len(y) = n /\ \A k \in 1..n : y[k] = x[k + 1]
  <2>1. /\ Tail(x) \in Seq(E) /\ Len(Tail(x)) = Len(x) - 1
        /\ \A k \in 1..Len(Tail(x)) : Tail(x)[k] = x[k + 1]
    BY <1>1, HeadTailProperties
  <2>2. PICK y : y = Tail(x)
    OBVIOUS
  <2>3. y \in Seq(E) /\ Len(y) = n /\ \A k \in 1..Len(y) : y[k] = x[k + 1]
    BY <1>2, <2>1, <2>2
  <2> QED BY <2>2, <2>3
<1>4. Head(x) = x[1]
  BY <1>1
<1>5. Follows(s, g[0], x[1], g[1]) /\ g[0] = a
  <2>1. 1 \in 1..(n + 1) /\ 1 - 1 = 0
    OBVIOUS
  <2> QED BY <1>1, <1>2, <2>1 DEF Way
<1>6. PICK h : h = [k \in 0..n |-> g[k + 1]]
  OBVIOUS
<1>7. h[0] = g[1] /\ h[n] = b
  BY <1>1, <1>2, <1>6 DEF Way
<1>8. ASSUME NEW k \in 0..n PROVE Fits(s, h[k], cap, allowed)
  <2>1. k + 1 \in 0..(n + 1) /\ h[k] = g[k + 1]
    BY <1>6
  <2> QED BY <1>1, <1>2, <2>1 DEF Way
<1>9. ASSUME NEW k \in 1..n PROVE Follows(s, h[k - 1], y[k], h[k])
  <2>1. k + 1 \in 1..(n + 1) /\ (k + 1) - 1 = k /\ h[k] = g[k + 1] /\ h[k - 1] = g[k]
    BY <1>6
  <2>2. Follows(s, g[(k + 1) - 1], x[k + 1], g[k + 1])
    BY <1>1, <1>2, <2>1 DEF Way
  <2> QED BY <1>3, <2>1, <2>2
<1>10. Way(h, s, g[1], y, b, cap, allowed)
  BY <1>3, <1>7, <1>8, <1>9 DEF Way
<1> QED BY <1>3, <1>4, <1>5, <1>10 DEF Leads

LEMMA CallsNext ==
  ASSUME NEW parts \in Seq(Part), NEW p \in Part
  PROVE  /\ CallsOf(parts) \in Seq(Part)
         /\ p \in CallParts => CallsOf(Append(parts, p)) = Append(CallsOf(parts), p)
         /\ p \notin CallParts => CallsOf(Append(parts, p)) = CallsOf(parts)
BY KeepAppend, KeepSays DEF CallsOf

LEMMA FitsPlace ==
  ASSUME NEW s, NEW a, NEW cap, NEW allowed, Fits(s, a, cap, allowed)
  PROVE  /\ a \in Places /\ Sound(s, a)
         /\ a.stage \in Stages /\ a.open \in Kinds \cup {"none"} /\ a.parts \in Seq(Part)
         /\ a.text \in BOOLEAN /\ a.status \in Statuses /\ a.status \in allowed
         /\ a = Place(a.stage, a.open, a.parts, a.text, a.status)
         /\ CallsOf(a.parts) \in Seq(Part)
<1>1. a \in Places /\ Sound(s, a) /\ a.status \in allowed
  BY DEF Fits, Sound
<1>2. CallsOf(a.parts) \in Seq(Part)
  BY <1>1, PlaceFields, KeepSays DEF CallsOf
<1> QED BY <1>1, <1>2, PlaceFields

LEMMA FitsMoved ==
  ASSUME NEW s, NEW a, NEW cap, NEW allowed, Fits(s, a, cap, allowed),
         NEW stage \in Stages, NEW status \in Statuses, status \in allowed,
         NEW b, b = Place(stage, "none", a.parts, a.text, status)
  PROVE  Fits(s, b, cap, allowed)
<1>1. a.parts \in Seq(Part) /\ a.text \in BOOLEAN
  BY FitsPlace
<1>2. b \in Places /\ b.open = "none" /\ b.parts = a.parts /\ b.text = a.text /\ b.status = status
  <2>1. "none" \in Kinds \cup {"none"}
    OBVIOUS
  <2> QED BY <1>1, <2>1, PlaceIs
<1>3. Sound(s, b)
  BY <1>2 DEF Sound
<1> QED BY <1>2, <1>3 DEF Fits

LEMMA FitsNew ==
  ASSUME NEW s, NEW a, NEW cap, NEW allowed, Fits(s, a, cap, allowed),
         NEW kind \in Kinds, NEW call \in Int, NEW open, open \in {kind, "none"},
         s = "chat" => open = "none",
         NEW b, b = Place("open", open, Append(a.parts, NewPart(kind, call)), a.text, a.status),
         Told(CallsOf(b.parts), cap.calls)
  PROVE  Fits(s, b, cap, allowed)
<1>1. a.text \in BOOLEAN /\ a.status \in Statuses /\ a.status \in allowed
  BY FitsPlace
<1>2. PICK q \in Seq(Part) : q = a.parts
  BY FitsPlace
<1>3. PICK p \in Part : p = NewPart(kind, call) /\ p.kind = kind /\ Len(p.got) = 0
  BY NewPartFields
<1>4. PICK m \in Seq(Part) : m = Append(q, p)
  BY AppendIn
<1>5. b = Place("open", open, m, a.text, a.status)
  BY <1>2, <1>3, <1>4
<1>6. /\ b \in Places /\ b.stage = "open" /\ b.open = open /\ b.parts = m /\ b.text = a.text
      /\ b.status = a.status
  <2>1. open \in Kinds \cup {"none"} /\ "open" \in Stages
    BY DEF Stages
  <2> QED BY <1>1, <1>5, <2>1, PlaceIs
<1>7. Sound(s, b)
  BY <1>3, <1>4, <1>6 DEF Sound
<1>8. s = "messages" => FiledParts(m)
  <2>1. SUFFICES ASSUME s = "messages", NEW i \in DOMAIN m, NEW k \in DOMAIN m[i].got
                 PROVE  m[i].got[k] \in {NoCall, m[i].call}
    BY DEF FiledParts
  <2>2. PICK n \in Nat : n = Len(q)
    OBVIOUS
  <2>3. m[n + 1] = p /\ (\A j \in 1..n : m[j] = q[j]) /\ i \in 1..(n + 1)
    BY <1>4, <2>2
  <2>4. i # n + 1
    <3>1. PICK g \in Seq(Int) : g = p.got
      BY DEF Part
    <3>2. DOMAIN g = {}
      BY <1>3, <3>1
    <3> QED BY <2>1, <2>3, <3>1, <3>2
  <2>5. i \in 1..n /\ m[i] = q[i] /\ i \in DOMAIN q
    BY <2>2, <2>3, <2>4
  <2>6. FiledParts(q)
    BY <1>2, <2>1 DEF Fits
  <2> QED BY <2>1, <2>5, <2>6 DEF FiledParts
<1> QED BY <1>1, <1>6, <1>7, <1>8 DEF Fits

LEMMA FitsLonger ==
  ASSUME NEW s, NEW a, NEW cap, NEW allowed, Fits(s, a, cap, allowed), a.stage = "open",
         NEW q \in Seq(Part), NEW p \in Part, a.parts = Append(q, p), NEW f \in Int,
         s = "messages" => f \in {NoCall, p.call},
         NEW text \in BOOLEAN, text => cap.text > 0,
         NEW b, b = Place("open", a.open, Append(q, Longer(p, f)), text, a.status),
         Told(CallsOf(b.parts), cap.calls)
  PROVE  Fits(s, b, cap, allowed)
<1>1. a.status \in Statuses /\ a.status \in allowed /\ a.open \in Kinds \cup {"none"}
  BY FitsPlace
<1>2. PICK y \in Part : /\ y = Longer(p, f) /\ y.kind = p.kind /\ y.call = p.call
                        /\ y.got = Append(p.got, f)
  BY PartFields
<1>3. PICK m \in Seq(Part) : m = Append(q, y)
  BY AppendIn
<1>4. b = Place("open", a.open, m, text, a.status)
  BY <1>2, <1>3
<1>5. /\ b \in Places /\ b.stage = "open" /\ b.open = a.open /\ b.parts = m /\ b.text = text
      /\ b.status = a.status
  <2>1. "open" \in Stages
    BY DEF Stages
  <2> QED BY <1>1, <1>4, <2>1, PlaceIs
<1>6. Sound(s, b)
  <2>1. Sound(s, a)
    BY DEF Fits
  <2>2. ASSUME a.open # "none" PROVE y.kind = a.open
    <3>1. PICK r \in Seq(Part), x \in Part : a.parts = Append(r, x) /\ x.kind = a.open
      BY <2>1, <2>2 DEF Sound
    <3>0. Append(r, x) = Append(q, p)
      BY <3>1
    <3>2. x = p
      BY <3>0, AppendSame
    <3> QED BY <1>2, <3>1, <3>2
  <2> QED BY <1>3, <1>5, <2>1, <2>2 DEF Sound
<1>7. s = "messages" => FiledParts(m)
  <2>1. SUFFICES ASSUME s = "messages", NEW i \in DOMAIN m, NEW k \in DOMAIN m[i].got
                 PROVE  m[i].got[k] \in {NoCall, m[i].call}
    BY DEF FiledParts
  <2>2. PICK n \in Nat : n = Len(q)
    OBVIOUS
  <2>3. m[n + 1] = y /\ (\A j \in 1..n : m[j] = q[j]) /\ i \in 1..(n + 1)
    BY <1>3, <2>2
  <2>4. PICK l \in Seq(Part) : l = a.parts /\ Len(l) = n + 1 /\ l[n + 1] = p /\ (\A j \in 1..n : l[j] = q[j])
    <3>1. PICK l \in Seq(Part) : l = Append(q, p)
      BY AppendIn
    <3>2. Len(l) = n + 1 /\ l[n + 1] = p /\ (\A j \in 1..n : l[j] = q[j])
      BY <2>2, <3>1, AppendParts
    <3>3. l = a.parts
      BY <3>1
    <3> QED BY <3>2, <3>3
  <2>5. FiledParts(l) /\ DOMAIN l = 1..(n + 1)
    BY <2>1, <2>4 DEF Fits
  <2>6. CASE i \in 1..n
    <3>1. m[i] = l[i] /\ i \in DOMAIN l
      BY <2>3, <2>4, <2>5, <2>6
    <3> QED BY <2>1, <2>5, <3>1 DEF FiledParts
  <2>7. CASE i = n + 1
    <3>1. PICK g \in Seq(Int), h \in Seq(Int) : g = p.got /\ h = y.got /\ h = Append(g, f)
      BY <1>2 DEF Part
    <3>2. k \in 1..(Len(g) + 1)
      <4>1. k \in DOMAIN h
        BY <2>1, <2>3, <2>7, <3>1
      <4> QED BY <3>1, <4>1
    <3>3. CASE k \in 1..Len(g)
      <4>1. h[k] = g[k] /\ k \in DOMAIN g
        BY <3>1, <3>3
      <4>2. n + 1 \in DOMAIN l
        BY <2>5
      <4>3. g[k] \in {NoCall, p.call}
        BY <2>4, <2>5, <3>1, <4>1, <4>2 DEF FiledParts
      <4> QED BY <1>2, <2>3, <2>7, <3>1, <4>1, <4>3
    <3>4. CASE k = Len(g) + 1
      <4>1. h[k] = f
        BY <3>1, <3>4
      <4> QED BY <1>2, <2>1, <2>3, <2>7, <3>1, <4>1
    <3> QED BY <3>2, <3>3, <3>4
  <2> QED BY <2>3, <2>6, <2>7
<1> QED BY <1>1, <1>5, <1>6, <1>7 DEF Fits

(* What an event that is collected leaves of what was captured.            *)
LEMMA ToldGrows ==
  ASSUME NEW calls \in Seq(Part), NEW cap \in Accumulators, Told(calls, cap.calls),
         NEW e \in AllEvents, NEW cap2, Collects(cap, e, cap2)
  PROVE  /\ Told(calls, cap2.calls)
         /\ ~IsStart(e) => Len(cap2.calls) = Len(cap.calls)
         /\ IsStart(e) => Len(cap2.calls) = Len(cap.calls) + 1
<1>1. PICK cs \in Seq(Caught) : cs = cap.calls /\ cs \in Seq(Part)
  BY AccumulatorFields
<1>2. CASE IsStart(e)
  <2>1. e.index \in Int /\ "tool_use" \in Kinds
    BY <1>2, EventFields DEF Kinds
  <2>2. PICK x \in Part : x = NewPart("tool_use", e.index)
    BY <2>1, NewPartFields
  <2>3. cap2.calls = Append(cs, x)
    BY <1>1, <1>2, <2>2 DEF Collects
  <2>4. Told(calls, Append(cs, x))
    BY <1>1, ToldPart
  <2>5. Len(Append(cs, x)) = Len(cs) + 1
    BY <1>1
  <2> QED BY <1>1, <1>2, <2>3, <2>4, <2>5
<1>3. CASE IsArgs(e)
  <2>1. e.index \in Int /\ Extends(cs, e.index, cap2.calls) /\ ~IsStart(e)
    BY <1>1, <1>3 DEF Collects, IsArgs, IsStart
  <2>2. Told(calls, cap2.calls) /\ Len(cap2.calls) = Len(cs)
    BY <1>1, <2>1, ToldArgs
  <2> QED BY <1>1, <2>1, <2>2
<1>4. CASE ~IsStart(e) /\ ~IsArgs(e)
  BY <1>4 DEF Collects
<1> QED BY <1>2, <1>3, <1>4

LEMMA FitsGrows ==
  ASSUME NEW s, NEW a, NEW cap \in Accumulators, NEW allowed, Fits(s, a, cap, allowed),
         NEW e \in AllEvents, NEW cap2, Collects(cap, e, cap2)
  PROVE  Fits(s, a, cap2, allowed)
<1>1. Told(CallsOf(a.parts), cap2.calls)
  BY FitsPlace, ToldGrows DEF Fits
<1>2. a.text => cap2.text > 0
  BY DEF Fits, Collects
<1> QED BY <1>1, <1>2 DEF Fits

-----------------------------------------------------------------------------
(* What the translators emit, by the place the client will have reached    *)

OpenEvent(s) ==
  [type |-> IF s = "messages" THEN "message_start"
            ELSE IF s = "responses" THEN "response_created" ELSE "start"]

CloseEvent(s) == [type |-> IF s = "messages" THEN "block_stop" ELSE "output_item_stop"]

StartEvent(s, kind, call) ==
  [type |-> IF s = "messages" THEN "block_start" ELSE "output_item_start",
   kind |-> kind, call |-> call]

TextEvent(s, kind) == [type |-> IF s = "messages" THEN kind ELSE "output_text"]

ArgsEvent(s, f) == [type |-> IF s = "messages" THEN "json" ELSE "function_arguments", of |-> f]

CallKind(s) == IF s = "messages" THEN "tool_use" ELSE "function_call"

TextKinds(s) == IF s = "messages" THEN {"text", "thinking"} ELSE {"message"}

OpeningAt(s, a) == IF a.stage # "before" THEN <<>> ELSE <<OpenEvent(s)>>

ClosingAt(s, a) == IF a.open = "none" THEN <<>> ELSE <<CloseEvent(s)>>

SwitchingAt(s, a, kind) ==
  IF a.open = kind THEN <<>> ELSE ClosingAt(s, a) \o <<StartEvent(s, kind, NoCall)>>

AllOpen(a) == Place("open", a.open, a.parts, a.text, a.status)

AllClosed(a) == Place("open", "none", a.parts, a.text, a.status)

Nested == {"messages", "responses"}

LEMMA SurfaceKinds ==
  /\ \A s \in Translated : ~Verbatim(s)
  /\ Translated = {"messages", "responses", "chat"}
BY DEF Verbatim, Translated

LEMMA MovesBy ==
  ASSUME NEW s \in Translated, NEW a, NEW ev, NEW b,
         s = "messages" => MessagesMoves(a, ev, b),
         s = "responses" => ResponsesMoves(a, ev, b),
         s = "chat" => ChatMoves(a, ev, b)
  PROVE  Follows(s, a, ev, b)
BY SurfaceKinds DEF Follows, Moves

LEMMA OpeningLeads ==
  ASSUME NEW s \in Translated, NEW a, NEW cap, NEW allowed, Fits(s, a, cap, allowed),
         a.stage \in {"before", "open"}
  PROVE  Leads(s, a, OpeningAt(s, a), AllOpen(a), cap, allowed)
<1>1. CASE a.stage = "open"
  <2>1. AllOpen(a) = a /\ OpeningAt(s, a) = <<>>
    BY <1>1, FitsPlace DEF AllOpen, OpeningAt
  <2> QED BY <2>1, LeadsNothing
<1>2. CASE a.stage = "before"
  <2>1. a.open = "none"
    BY <1>2, FitsPlace DEF Sound
  <2>2. PICK b : b = AllOpen(a)
    OBVIOUS
  <2>3. Fits(s, b, cap, allowed)
    <3>1. b = Place("open", "none", a.parts, a.text, a.status)
      BY <2>1, <2>2 DEF AllOpen
    <3>2. "open" \in Stages /\ a.status \in Statuses /\ a.status \in allowed
      BY FitsPlace DEF Stages
    <3> QED BY <3>1, <3>2, FitsMoved
  <2>4. PICK ev : ev = OpenEvent(s)
    OBVIOUS
  <2>5. Opens(a, b)
    BY <1>2, <2>2 DEF Opens, AllOpen
  <2>6. s = "messages" => ev = [type |-> "message_start"]
    BY <2>4 DEF OpenEvent
  <2>7. s = "responses" => ev = [type |-> "response_created"]
    BY <2>4 DEF OpenEvent
  <2>8. s = "chat" => ev = [type |-> "start"]
    BY <2>4 DEF OpenEvent
  <2>9. s = "messages" => MessagesMoves(a, ev, b)
    BY <2>1, <2>5, <2>6 DEF MessagesMoves
  <2>10. s = "responses" => ResponsesMoves(a, ev, b)
    BY <2>1, <2>5, <2>7 DEF ResponsesMoves
  <2>11. s = "chat" => ChatMoves(a, ev, b)
    BY <2>1, <2>5, <2>8 DEF ChatMoves
  <2>12. Follows(s, a, ev, b)
    BY <2>9, <2>10, <2>11, MovesBy
  <2>13. OpeningAt(s, a) = <<ev>>
    BY <1>2, <2>4 DEF OpeningAt
  <2> QED BY <2>2, <2>3, <2>12, <2>13, LeadsOne
<1> QED BY <1>1, <1>2

LEMMA ClosingLeads ==
  ASSUME NEW s \in Nested, NEW a, NEW cap, NEW allowed, Fits(s, a, cap, allowed), a.stage = "open"
  PROVE  Leads(s, a, ClosingAt(s, a), AllClosed(a), cap, allowed)
<1>1. CASE a.open = "none"
  <2>1. AllClosed(a) = a /\ ClosingAt(s, a) = <<>>
    BY <1>1, FitsPlace DEF AllClosed, ClosingAt
  <2> QED BY <2>1, LeadsNothing
<1>2. CASE a.open # "none"
  <2>2. PICK b : b = AllClosed(a)
    OBVIOUS
  <2>3. Fits(s, b, cap, allowed)
    <3>1. b = Place("open", "none", a.parts, a.text, a.status)
      BY <2>2 DEF AllClosed
    <3>2. "open" \in Stages /\ a.status \in Statuses /\ a.status \in allowed
      BY FitsPlace DEF Stages
    <3> QED BY <3>1, <3>2, FitsMoved
  <2>4. PICK ev : ev = CloseEvent(s)
    OBVIOUS
  <2>5. Closes(a, b)
    BY <1>2, <2>2 DEF Closes, AllClosed
  <2>6. s = "messages" => ev = [type |-> "block_stop"]
    BY <2>4 DEF CloseEvent
  <2>7. s = "responses" => ev = [type |-> "output_item_stop"]
    BY <2>4 DEF CloseEvent
  <2>9. s = "messages" => MessagesMoves(a, ev, b)
    BY <2>5, <2>6 DEF MessagesMoves
  <2>10. s = "responses" => ResponsesMoves(a, ev, b)
    BY <2>5, <2>7 DEF ResponsesMoves
  <2>11. s \in Translated /\ s # "chat"
    BY DEF Nested, Translated
  <2>12. Follows(s, a, ev, b)
    BY <2>9, <2>10, <2>11, MovesBy
  <2>13. ClosingAt(s, a) = <<ev>>
    BY <1>2, <2>4 DEF ClosingAt
  <2> QED BY <2>2, <2>3, <2>12, <2>13, LeadsOne
<1> QED BY <1>1, <1>2

(* Nothing is open any more.                                               *)
LEMMA ClearedLeads ==
  ASSUME NEW s \in Nested, NEW a, NEW cap, NEW allowed, Fits(s, a, cap, allowed),
         a.stage \in {"before", "open"}
  PROVE  Leads(s, a, OpeningAt(s, a) \o ClosingAt(s, a), AllClosed(a), cap, allowed)
<1>1. PICK b : b = AllOpen(a)
  OBVIOUS
<1>2. Leads(s, a, OpeningAt(s, a), b, cap, allowed)
  BY <1>1, OpeningLeads DEF Nested, Translated
<1>3. b.stage = "open" /\ b.open = a.open /\ b.parts = a.parts /\ b.text = a.text /\ b.status = a.status
  BY <1>1 DEF AllOpen, Place
<1>4. Fits(s, b, cap, allowed)
  BY <1>2, LeadsEnds
<1>5. Leads(s, b, ClosingAt(s, b), AllClosed(b), cap, allowed)
  BY <1>3, <1>4, ClosingLeads
<1>6. ClosingAt(s, b) = ClosingAt(s, a) /\ AllClosed(b) = AllClosed(a)
  BY <1>3 DEF ClosingAt, AllClosed
<1> QED BY <1>2, <1>5, <1>6, LeadsThen

LEMMA StartingLeads ==
  ASSUME NEW s \in Nested, NEW a, NEW cap, NEW allowed, Fits(s, a, cap, allowed),
         a.stage = "open", a.open = "none",
         NEW kind, kind \in TextKinds(s) \cup {CallKind(s)}, NEW call \in Int,
         NEW b, b = Place("open", kind, Append(a.parts, NewPart(kind, call)), a.text, a.status),
         Told(CallsOf(b.parts), cap.calls)
  PROVE  Leads(s, a, <<StartEvent(s, kind, call)>>, b, cap, allowed)
<1>1. s \in Translated /\ s # "chat"
  BY DEF Nested, Translated
<1>2. /\ s = "messages" => kind \in {"text", "thinking", "tool_use"}
      /\ s = "responses" => kind \in {"message", "function_call"}
  BY DEF TextKinds, CallKind
<1>3. kind \in Kinds
  BY <1>2 DEF Nested, Kinds
<1>4. Fits(s, b, cap, allowed)
  BY <1>1, <1>3, FitsNew
<1>5. Begins(a, kind, call, kind, b)
  BY <1>3 DEF Begins
<1>6. PICK ev : ev = StartEvent(s, kind, call)
  OBVIOUS
<1>7. s = "messages" => ev = [type |-> "block_start", kind |-> kind, call |-> call]
  BY <1>6 DEF StartEvent
<1>8. s = "responses" => ev = [type |-> "output_item_start", kind |-> kind, call |-> call]
  BY <1>6 DEF StartEvent
<1>9. s = "messages" => MessagesMoves(a, ev, b)
  BY <1>2, <1>5, <1>7 DEF MessagesMoves
<1>10. s = "responses" => ResponsesMoves(a, ev, b)
  BY <1>2, <1>5, <1>8 DEF ResponsesMoves
<1>11. Follows(s, a, ev, b)
  BY <1>1, <1>9, <1>10, MovesBy
<1> QED BY <1>4, <1>6, <1>11, LeadsOne

LEMMA TextLeads ==
  ASSUME NEW s \in Nested, NEW a, NEW cap, NEW allowed, Fits(s, a, cap, allowed),
         a.stage = "open", NEW kind, kind \in TextKinds(s), a.open = kind,
         NEW text \in BOOLEAN, text <=> a.text \/ kind \in {"text", "message"},
         text => cap.text > 0
  PROVE  \E b : /\ Leads(s, a, <<TextEvent(s, kind)>>, b, cap, allowed)
                /\ b.stage = "open" /\ b.open = kind /\ b.text = text /\ b.status = a.status
                /\ CallsOf(b.parts) = CallsOf(a.parts)
<1>1. s \in Translated /\ s # "chat"
  BY DEF Nested, Translated
<1>2. /\ s = "messages" => kind \in {"text", "thinking"}
      /\ s = "responses" => kind = "message"
  BY DEF TextKinds
<1>3. kind # "none" /\ kind \notin {"tool_use", "function_call"}
  BY <1>2 DEF Nested
<1>4. PICK q \in Seq(Part), p \in Part : a.parts = Append(q, p) /\ p.kind = kind
  BY <1>3, FitsPlace DEF Sound
<1>5. NoCall \in Int
  BY DEF NoCall
<1>6. PICK y \in Part : y = Longer(p, NoCall) /\ y.kind = kind
  BY <1>4, <1>5, PartFields
<1>7. p \notin CallParts /\ y \notin CallParts
  BY <1>3, <1>4, <1>6 DEF CallParts
<1>8. CallsOf(Append(q, y)) = CallsOf(a.parts)
  BY <1>4, <1>7, CallsNext
<1>9. PICK b : b = Place("open", a.open, Append(q, Longer(p, NoCall)), text, a.status)
  OBVIOUS
<1>10. b.stage = "open" /\ b.open = kind /\ b.parts = Append(q, y) /\ b.text = text /\ b.status = a.status
  BY <1>6, <1>9 DEF Place
<1>11. Told(CallsOf(b.parts), cap.calls)
  BY <1>8, <1>10 DEF Fits
<1>12. s = "messages" => NoCall \in {NoCall, p.call}
  OBVIOUS
<1>13. Fits(s, b, cap, allowed)
  BY <1>4, <1>5, <1>9, <1>11, <1>12, FitsLonger
<1>14. Adds(a, kind, NoCall, b)
  <2>1. b = Place("open", a.open, Append(q, Longer(p, NoCall)),
                  a.text \/ kind \in {"text", "message"}, a.status)
    <3>1. text = (a.text \/ kind \in {"text", "message"})
      OBVIOUS
    <3> QED BY <1>9, <3>1 DEF Place
  <2> QED BY <1>4, <1>5, <2>1 DEF Adds
<1>15. PICK ev : ev = TextEvent(s, kind)
  OBVIOUS
<1>16. s = "messages" => ev = [type |-> kind]
  BY <1>15 DEF TextEvent
<1>17. s = "responses" => ev = [type |-> "output_text"]
  BY <1>15 DEF TextEvent
<1>18. s = "messages" => MessagesMoves(a, ev, b)
  BY <1>2, <1>14, <1>16 DEF MessagesMoves
<1>19. s = "responses" => ResponsesMoves(a, ev, b)
  BY <1>2, <1>14, <1>17 DEF ResponsesMoves
<1>20. Follows(s, a, ev, b)
  BY <1>1, <1>18, <1>19, MovesBy
<1>21. Leads(s, a, <<ev>>, b, cap, allowed)
  BY <1>13, <1>20, LeadsOne
<1> QED BY <1>8, <1>10, <1>15, <1>21

LEMMA LongerCalls ==
  ASSUME NEW q \in Seq(Part), NEW p \in CallParts, NEW f \in Int
  PROVE  /\ CallsOf(Append(q, p)) = Append(CallsOf(q), p)
         /\ CallsOf(Append(q, Longer(p, f))) = Append(CallsOf(q), Longer(p, f))
         /\ Len(CallsOf(Append(q, Longer(p, f)))) = Len(CallsOf(Append(q, p)))
<1>1. p \in Part /\ p.kind \in {"tool_use", "function_call"}
  BY DEF CallParts
<1>2. PICK y \in Part : y = Longer(p, f) /\ y.kind = p.kind
  BY <1>1, PartFields
<1>3. y \in CallParts
  BY <1>1, <1>2 DEF CallParts
<1>4. PICK cs \in Seq(Part) : cs = CallsOf(q)
  BY CallsNext, <1>1
<1>5. CallsOf(Append(q, p)) = Append(cs, p) /\ CallsOf(Append(q, y)) = Append(cs, y)
  BY <1>1, <1>3, <1>4, CallsNext
<1>6. PICK n \in Nat : n = Len(cs)
  BY <1>4
<1>7. Len(Append(cs, y)) = n + 1 /\ Len(Append(cs, p)) = n + 1
  BY <1>1, <1>6, AppendParts
<1> QED BY <1>2, <1>4, <1>5, <1>7

LEMMA ArgsLeads ==
  ASSUME NEW s \in Nested, NEW a, NEW cap, NEW allowed, Fits(s, a, cap, allowed),
         a.stage = "open", a.open = CallKind(s),
         NEW q \in Seq(Part), NEW p \in Part, a.parts = Append(q, p), NEW f \in Int,
         s = "messages" => p.call = f,
         Told(Append(CallsOf(q), Longer(p, f)), cap.calls),
         NEW b, b = Place("open", a.open, Append(q, Longer(p, f)), a.text, a.status)
  PROVE  Leads(s, a, <<ArgsEvent(s, f)>>, b, cap, allowed)
<1>1. s \in Translated /\ s # "chat"
  BY DEF Nested, Translated
<1>2. PICK kind : kind = CallKind(s)
  OBVIOUS
<1>3. /\ s = "messages" => kind = "tool_use"
      /\ s = "responses" => kind = "function_call"
      /\ kind \in {"tool_use", "function_call"} /\ kind # "none"
  BY <1>2 DEF CallKind, Nested
<1>4. p.kind = kind
  <2>1. PICK r \in Seq(Part), x \in Part : Append(r, x) = Append(q, p) /\ x.kind = kind
    BY <1>2, <1>3, FitsPlace DEF Sound
  <2>2. x = p
    BY <2>1, AppendSame
  <2> QED BY <2>1, <2>2
<1>5. PICK y \in Part : y = Longer(p, f) /\ y.kind = kind
  BY <1>4, PartFields
<1>6. p \in CallParts /\ y \in CallParts
  BY <1>3, <1>4, <1>5 DEF CallParts
<1>7. CallsOf(Append(q, y)) = Append(CallsOf(q), y)
  BY <1>6, CallsNext
<1>11. b.stage = "open" /\ b.open = a.open /\ b.parts = Append(q, y) /\ b.text = a.text /\ b.status = a.status
  BY <1>5 DEF Place
<1>12. Told(CallsOf(b.parts), cap.calls)
  BY <1>5, <1>7, <1>11
<1>13. Fits(s, b, cap, allowed)
  <2>1. a.text \in BOOLEAN /\ (a.text => cap.text > 0)
    BY FitsPlace DEF Fits
  <2>2. s = "messages" => f \in {NoCall, p.call}
    OBVIOUS
  <2> QED BY <1>12, <2>1, <2>2, FitsLonger
<1>14. Adds(a, kind, f, b)
  <2>1. b = Place("open", a.open, Append(q, Longer(p, f)),
                  a.text \/ kind \in {"text", "message"}, a.status)
    <3>1. a.text = (a.text \/ kind \in {"text", "message"})
      BY <1>3, FitsPlace
    <3> QED BY <3>1 DEF Place
  <2> QED BY <1>4, <2>1 DEF Adds
<1>15. PICK ev : ev = ArgsEvent(s, f)
  OBVIOUS
<1>16. s = "messages" => ev = [type |-> "json", of |-> f]
  BY <1>15 DEF ArgsEvent
<1>17. s = "responses" => ev = [type |-> "function_arguments", of |-> f]
  BY <1>15 DEF ArgsEvent
<1>18. s = "messages" => MessagesMoves(a, ev, b)
  BY <1>2, <1>3, <1>14, <1>16 DEF MessagesMoves
<1>19. s = "responses" => ResponsesMoves(a, ev, b)
  BY <1>2, <1>3, <1>14, <1>17 DEF ResponsesMoves
<1>20. Follows(s, a, ev, b)
  BY <1>1, <1>18, <1>19, MovesBy
<1>21. Leads(s, a, <<ev>>, b, cap, allowed)
  BY <1>13, <1>20, LeadsOne
<1> QED BY <1>15, <1>21

LEMMA PairConcat ==
  ASSUME NEW x, NEW y
  PROVE  <<x>> \o <<y>> = <<x, y>>
<1>1. PICK R : R = {x, y}
  OBVIOUS
<1>2. PICK u : u = <<x>>
  OBVIOUS
<1>3. PICK v : v = <<y>>
  OBVIOUS
<1>4. PICK w : w = <<x, y>>
  OBVIOUS
<1>9. u \in Seq(R) /\ Len(u) = 1 /\ u[1] = x
  BY <1>1, <1>2
<1>10. v \in Seq(R) /\ Len(v) = 1 /\ v[1] = y
  BY <1>1, <1>3
<1>11. w \in Seq(R) /\ Len(w) = 2 /\ w[1] = x /\ w[2] = y
  BY <1>1, <1>4
<1>5. PICK z : z = u \o v
  OBVIOUS
<1>6. z \in Seq(R) /\ Len(z) = 2 /\ \A i \in 1..2 : z[i] = IF i <= 1 THEN u[i] ELSE v[i - 1]
  BY <1>5, <1>9, <1>10, ConcatProperties
<1>7. \A i \in 1..Len(z) : z[i] = w[i]
  BY <1>6, <1>9, <1>10, <1>11
<1>8. z = w
  BY <1>6, <1>7, <1>11, SeqEqual
<1> QED BY <1>2, <1>3, <1>4, <1>5, <1>8

(* The events that end a stream.                                           *)
LastEvents(s, status) ==
  IF s = "messages" THEN <<[type |-> "message_delta"], [type |-> "message_stop"]>>
  ELSE <<[type |-> "response_done", status |-> status]>>

LEMMA TerminalLeads ==
  ASSUME NEW s \in Nested, NEW a, NEW cap, NEW allowed, Fits(s, a, cap, allowed),
         a.stage \in {"before", "open"}, NEW status \in Statuses, status \in allowed
  PROVE  \E b : /\ Leads(s, a, OpeningAt(s, a) \o ClosingAt(s, a) \o LastEvents(s, status), b, cap, allowed)
                /\ b.stage = "done" /\ b.open = "none" /\ b.text = a.text /\ b.parts = a.parts
<1>1. s \in Translated /\ s # "chat"
  BY DEF Nested, Translated
<1>2. PICK m : m = AllClosed(a)
  OBVIOUS
<1>3. Leads(s, a, OpeningAt(s, a) \o ClosingAt(s, a), m, cap, allowed)
  BY <1>2, ClearedLeads
<1>4. m.stage = "open" /\ m.open = "none" /\ m.parts = a.parts /\ m.text = a.text /\ m.status = a.status
  BY <1>2 DEF AllClosed, Place
<1>5. Fits(s, m, cap, allowed)
  BY <1>3, LeadsEnds
<1>6. {"closing", "done"} \subseteq Stages /\ a.status \in Statuses /\ a.status \in allowed
  BY FitsPlace DEF Stages
<1>7. CASE s = "messages"
  <2>1. PICK u : u = Place("closing", "none", m.parts, m.text, m.status)
    OBVIOUS
  <2>2. PICK b : b = Place("done", "none", u.parts, u.text, u.status)
    OBVIOUS
  <2>3. u.stage = "closing" /\ u.open = "none" /\ u.parts = m.parts /\ u.text = m.text /\ u.status = m.status
    BY <2>1 DEF Place
  <2>4. b.stage = "done" /\ b.open = "none" /\ b.parts = m.parts /\ b.text = m.text /\ b.status = m.status
    BY <2>2, <2>3 DEF Place
  <2>5. Fits(s, u, cap, allowed)
    BY <1>4, <1>5, <1>6, <2>1, FitsMoved
  <2>6. Fits(s, b, cap, allowed)
    BY <1>4, <1>6, <2>2, <2>3, <2>5, FitsMoved
  <2>7. Turns(m, "open", "closing", u) /\ Turns(u, "closing", "done", b)
    BY <1>4, <2>1, <2>2, <2>3 DEF Turns
  <2>8. PICK ev : ev = [type |-> "message_delta"]
    OBVIOUS
  <2>9. PICK fin : fin = [type |-> "message_stop"]
    OBVIOUS
  <2>10. MessagesMoves(m, ev, u) /\ MessagesMoves(u, fin, b)
    BY <2>7, <2>8, <2>9 DEF MessagesMoves
  <2>11. Follows(s, m, ev, u) /\ Follows(s, u, fin, b)
    BY <1>1, <1>7, <2>10, MovesBy
  <2>12. Leads(s, m, <<ev>>, u, cap, allowed) /\ Leads(s, u, <<fin>>, b, cap, allowed)
    BY <1>5, <2>5, <2>6, <2>11, LeadsOne
  <2>13. Leads(s, m, <<ev>> \o <<fin>>, b, cap, allowed)
    BY <2>12, LeadsThen
  <2>14. LastEvents(s, status) = <<ev>> \o <<fin>>
    <3>1. LastEvents(s, status) = <<ev, fin>>
      BY <1>7, <2>8, <2>9 DEF LastEvents
    <3>2. <<ev>> \o <<fin>> = <<ev, fin>>
      BY PairConcat
    <3> QED BY <3>1, <3>2
  <2>15. Leads(s, m, LastEvents(s, status), b, cap, allowed)
    BY <2>13, <2>14
  <2> QED BY <1>3, <1>4, <2>4, <2>15, LeadsThen
<1>8. CASE s = "responses"
  <2>1. PICK b : b = Place("done", "none", m.parts, m.text, status)
    OBVIOUS
  <2>2. b.stage = "done" /\ b.open = "none" /\ b.parts = m.parts /\ b.text = m.text
    BY <2>1 DEF Place
  <2>3. Fits(s, b, cap, allowed)
    BY <1>5, <1>6, <2>1, FitsMoved
  <2>4. Settles(m, status, b)
    BY <1>4, <2>1 DEF Settles
  <2>5. PICK ev : ev = [type |-> "response_done", status |-> status]
    OBVIOUS
  <2>6. ResponsesMoves(m, ev, b)
    BY <2>4, <2>5 DEF ResponsesMoves
  <2>7. Follows(s, m, ev, b)
    BY <1>1, <1>8, <2>6, MovesBy
  <2>8. Leads(s, m, <<ev>>, b, cap, allowed)
    BY <1>5, <2>3, <2>7, LeadsOne
  <2>9. LastEvents(s, status) = <<ev>>
    BY <1>8, <2>5 DEF LastEvents
  <2>10. Leads(s, m, LastEvents(s, status), b, cap, allowed)
    BY <2>8, <2>9
  <2> QED BY <1>3, <1>4, <2>2, <2>10, LeadsThen
<1> QED BY <1>7, <1>8 DEF Nested

(* What was captured is what the answer has said so far.                   *)
Matches(s, a, cap) ==
  /\ Len(CallsOf(a.parts)) = Len(cap.calls)
  /\ s \in Nested /\ cap.text > 0 => a.text

LEMMA NestedSkip ==
  ASSUME NEW s, NEW a, NEW cap \in Accumulators, NEW allowed,
         Fits(s, a, cap, allowed), Matches(s, a, cap),
         NEW e \in AllEvents, NEW cap2, Collects(cap, e, cap2),
         ~IsStart(e), s \in Nested => ~IsText(e)
  PROVE  Fits(s, a, cap2, allowed) /\ Matches(s, a, cap2)
<1>1. Fits(s, a, cap2, allowed)
  BY FitsGrows
<1>2. Len(cap2.calls) = Len(cap.calls)
  BY FitsPlace, ToldGrows DEF Fits
<1>3. s \in Nested => cap2.text = cap.text
  BY DEF Collects
<1> QED BY <1>1, <1>2, <1>3 DEF Matches

LEMMA NestedText ==
  ASSUME NEW s \in Nested, NEW a, NEW cap \in Accumulators, NEW allowed,
         Fits(s, a, cap, allowed), Matches(s, a, cap), a.stage \in {"before", "open"},
         NEW e \in AllEvents, NEW cap2, Collects(cap, e, cap2),
         NEW kind, kind \in TextKinds(s), IsText(e) <=> kind \in {"text", "message"}, ~IsStart(e)
  PROVE  \E b : /\ Leads(s, a, OpeningAt(s, a) \o SwitchingAt(s, a, kind) \o <<TextEvent(s, kind)>>,
                         b, cap2, allowed)
                /\ b.stage = "open" /\ b.open = kind /\ Matches(s, b, cap2)
<1>1. Fits(s, a, cap2, allowed) /\ s \in Translated
  BY FitsGrows DEF Nested, Translated
<1>2. PICK m : m = AllOpen(a)
  OBVIOUS
<1>3. Leads(s, a, OpeningAt(s, a), m, cap2, allowed)
  BY <1>1, <1>2, OpeningLeads
<1>4. m.stage = "open" /\ m.open = a.open /\ m.parts = a.parts /\ m.text = a.text /\ m.status = a.status
  BY <1>2 DEF AllOpen, Place
<1>5. Fits(s, m, cap2, allowed)
  BY <1>3, LeadsEnds
<1>6. /\ s = "messages" => kind \in {"text", "thinking"}
      /\ s = "responses" => kind = "message"
  BY DEF TextKinds
<1>7. kind \in Kinds /\ kind \notin {"tool_use", "function_call"}
  BY <1>6 DEF Kinds, Nested
<1>8. PICK n : /\ Leads(s, m, SwitchingAt(s, a, kind), n, cap2, allowed)
               /\ n.stage = "open" /\ n.open = kind /\ n.text = a.text
               /\ CallsOf(n.parts) = CallsOf(a.parts)
  <2>1. CASE a.open = kind
    <3>1. SwitchingAt(s, a, kind) = <<>>
      BY <2>1 DEF SwitchingAt
    <3>2. Leads(s, m, <<>>, m, cap2, allowed)
      BY <1>5, LeadsNothing
    <3> QED BY <1>4, <2>1, <3>1, <3>2
  <2>2. CASE a.open # kind
    <3>1. PICK u : u = AllClosed(m)
      OBVIOUS
    <3>2. Leads(s, m, ClosingAt(s, m), u, cap2, allowed)
      BY <1>4, <1>5, <3>1, ClosingLeads
    <3>3. u.stage = "open" /\ u.open = "none" /\ u.parts = a.parts /\ u.text = a.text /\ u.status = a.status
      BY <1>4, <3>1 DEF AllClosed, Place
    <3>4. ClosingAt(s, m) = ClosingAt(s, a)
      BY <1>4 DEF ClosingAt
    <3>5. NoCall \in Int
      BY DEF NoCall
    <3>6. PICK p \in Part : p = NewPart(kind, NoCall) /\ p.kind = kind
      BY <1>7, <3>5, NewPartFields
    <3>7. PICK b : b = Place("open", kind, Append(u.parts, NewPart(kind, NoCall)), u.text, u.status)
      OBVIOUS
    <3>8. b.stage = "open" /\ b.open = kind /\ b.parts = Append(a.parts, p) /\ b.text = a.text
      BY <3>3, <3>6, <3>7 DEF Place
    <3>9. p \notin CallParts
      BY <1>7, <3>6 DEF CallParts
    <3>10. CallsOf(b.parts) = CallsOf(a.parts)
      BY <3>8, <3>9, CallsNext, FitsPlace
    <3>11. Fits(s, u, cap2, allowed)
      BY <3>2, LeadsEnds
    <3>12. Told(CallsOf(b.parts), cap2.calls)
      BY <1>1, <3>10 DEF Fits
    <3>13. Leads(s, u, <<StartEvent(s, kind, NoCall)>>, b, cap2, allowed)
      BY <3>3, <3>5, <3>7, <3>11, <3>12, StartingLeads
    <3>14. Leads(s, m, ClosingAt(s, a) \o <<StartEvent(s, kind, NoCall)>>, b, cap2, allowed)
      BY <3>2, <3>4, <3>13, LeadsThen
    <3>15. SwitchingAt(s, a, kind) = ClosingAt(s, a) \o <<StartEvent(s, kind, NoCall)>>
      BY <2>2 DEF SwitchingAt
    <3> QED BY <3>8, <3>10, <3>14, <3>15
  <2> QED BY <2>1, <2>2
<1>9. PICK text \in BOOLEAN : text <=> n.text \/ kind \in {"text", "message"}
  OBVIOUS
<1>10. text => cap2.text > 0
  <2>1. a.text => cap2.text > 0
    BY <1>1 DEF Fits
  <2>2. kind \in {"text", "message"} => cap2.text > 0
    BY DEF Collects
  <2> QED BY <1>8, <1>9, <2>1, <2>2
<1>11. Fits(s, n, cap2, allowed)
  BY <1>8, LeadsEnds
<1>12. PICK b : /\ Leads(s, n, <<TextEvent(s, kind)>>, b, cap2, allowed)
                /\ b.stage = "open" /\ b.open = kind /\ b.text = text
                /\ CallsOf(b.parts) = CallsOf(n.parts)
  BY <1>8, <1>9, <1>10, <1>11, TextLeads
<1>13. Leads(s, a, OpeningAt(s, a) \o SwitchingAt(s, a, kind), n, cap2, allowed)
  BY <1>3, <1>8, LeadsThen
<1>14. Leads(s, a, OpeningAt(s, a) \o SwitchingAt(s, a, kind) \o <<TextEvent(s, kind)>>, b, cap2, allowed)
  BY <1>12, <1>13, LeadsThen
<1>15. Matches(s, b, cap2)
  <2>1. Len(cap2.calls) = Len(cap.calls)
    BY FitsPlace, ToldGrows DEF Fits
  <2>2. cap2.text > 0 => b.text
    <3>1. CASE IsText(e)
      BY <1>9, <1>12, <3>1
    <3>2. CASE ~IsText(e)
      <4>1. cap2.text = cap.text
        BY <3>2 DEF Collects
      <4>2. cap.text > 0 => a.text
        BY DEF Matches
      <4> QED BY <1>8, <1>9, <1>12, <4>1, <4>2
    <3> QED BY <3>1, <3>2
  <2> QED BY <1>8, <1>12, <2>1, <2>2 DEF Matches
<1> QED BY <1>12, <1>14, <1>15

(* A call is started in the same step for the client and in the capture.   *)
LEMMA BothStart ==
  ASSUME NEW s, NEW a, NEW cap \in Accumulators, NEW allowed,
         Fits(s, a, cap, allowed), Matches(s, a, cap),
         NEW e \in AllEvents, NEW cap2, Collects(cap, e, cap2), IsStart(e),
         NEW kind \in {"tool_use", "function_call"}
  PROVE  /\ e.index \in Int
         /\ Told(CallsOf(Append(a.parts, NewPart(kind, e.index))), cap2.calls)
         /\ Len(CallsOf(Append(a.parts, NewPart(kind, e.index)))) = Len(cap2.calls)
<1>1. e.index \in Int /\ kind \in Kinds /\ "tool_use" \in Kinds
  BY EventFields DEF Kinds
<1>2. PICK p \in Part : p = NewPart(kind, e.index) /\ p.kind = kind /\ p.call = e.index /\ Len(p.got) = 0
  BY <1>1, NewPartFields
<1>3. PICK x \in Part : x = NewPart("tool_use", e.index) /\ x.call = e.index /\ Len(x.got) = 0
  BY <1>1, NewPartFields
<1>4. SameCall(p, x)
  BY <1>2, <1>3 DEF SameCall
<1>5. PICK cs \in Seq(Part) : cs = cap.calls
  BY AccumulatorFields
<1>6. PICK l \in Seq(Part) : l = CallsOf(a.parts)
  BY FitsPlace
<1>7. Told(l, cs) /\ Len(l) = Len(cs)
  BY <1>5, <1>6 DEF Fits, Matches
<1>8. cap2.calls = Append(cs, x)
  BY <1>3, <1>5 DEF Collects
<1>9. p \in CallParts
  BY <1>2 DEF CallParts
<1>10. CallsOf(Append(a.parts, p)) = Append(l, p)
  BY <1>6, <1>9, CallsNext, FitsPlace
<1>11. Told(Append(l, p), Append(cs, x))
  BY <1>4, <1>7, ToldPart
<1>12. Len(Append(l, p)) = Len(Append(cs, x))
  BY <1>7
<1> QED BY <1>1, <1>2, <1>8, <1>10, <1>11, <1>12

LEMMA BothArgs ==
  ASSUME NEW s, NEW a, NEW cap \in Accumulators, NEW allowed,
         Fits(s, a, cap, allowed), Matches(s, a, cap),
         NEW e \in AllEvents, NEW cap2, Collects(cap, e, cap2), IsArgs(e),
         NEW q \in Seq(Part), NEW p \in CallParts, a.parts = Append(q, p), NEW f, f = e.index
  PROVE  /\ f \in Int
         /\ Told(Append(CallsOf(q), Longer(p, f)), cap2.calls)
         /\ Len(CallsOf(Append(q, Longer(p, f)))) = Len(cap2.calls)
<1>1. f \in Int /\ p \in Part
  BY EventFields DEF CallParts
<1>2. PICK r \in Seq(Part) : r = CallsOf(q)
  BY <1>1, CallsNext
<1>3. CallsOf(a.parts) = Append(r, p)
  BY <1>1, <1>2, CallsNext
<1>4. PICK l \in Seq(Part) : l = Append(r, p)
  BY <1>1, AppendIn
<1>5. PICK cs \in Seq(Caught) : cs = cap.calls
  BY AccumulatorFields
<1>6. Told(l, cs) /\ Len(l) = Len(cs)
  BY <1>3, <1>4, <1>5 DEF Fits, Matches
<1>7. Extends(cs, f, cap2.calls)
  BY <1>5 DEF Collects
<1>8. /\ Len(cap2.calls) = Len(cs)
      /\ \A u \in Seq(Part), x \in Part :
           l = Append(u, x) /\ Len(l) = Len(cs) => Told(Append(u, Longer(x, f)), cap2.calls)
  BY <1>1, <1>6, <1>7, ToldArgs
<1>9. Told(Append(r, Longer(p, f)), cap2.calls)
  BY <1>1, <1>2, <1>4, <1>6, <1>8
<1>10. Len(CallsOf(Append(q, Longer(p, f)))) = Len(l)
  BY <1>1, <1>2, <1>3, <1>4, LongerCalls
<1> QED BY <1>1, <1>2, <1>6, <1>8, <1>9, <1>10

LEMMA NestedCall ==
  ASSUME NEW s \in Nested, NEW a, NEW cap \in Accumulators, NEW allowed,
         Fits(s, a, cap, allowed), Matches(s, a, cap), a.stage \in {"before", "open"},
         NEW e \in AllEvents, NEW cap2, Collects(cap, e, cap2), IsStart(e), ~IsText(e)
  PROVE  \E b : /\ Leads(s, a, OpeningAt(s, a) \o ClosingAt(s, a)
                                 \o <<StartEvent(s, CallKind(s), e.index)>>, b, cap2, allowed)
                /\ b.stage = "open" /\ b.open = CallKind(s) /\ Matches(s, b, cap2)
                /\ b.parts = Append(a.parts, NewPart(CallKind(s), e.index))
<1>1. Fits(s, a, cap2, allowed)
  BY FitsGrows
<1>2. PICK kind \in {"tool_use", "function_call"} : kind = CallKind(s)
  BY DEF CallKind
<1>3. PICK m : m = AllClosed(a)
  OBVIOUS
<1>4. Leads(s, a, OpeningAt(s, a) \o ClosingAt(s, a), m, cap2, allowed)
  BY <1>1, <1>3, ClearedLeads
<1>5. m.stage = "open" /\ m.open = "none" /\ m.parts = a.parts /\ m.text = a.text /\ m.status = a.status
  BY <1>3 DEF AllClosed, Place
<1>6. Fits(s, m, cap2, allowed)
  BY <1>4, LeadsEnds
<1>7. /\ e.index \in Int
      /\ Told(CallsOf(Append(a.parts, NewPart(kind, e.index))), cap2.calls)
      /\ Len(CallsOf(Append(a.parts, NewPart(kind, e.index)))) = Len(cap2.calls)
  BY BothStart
<1>8. PICK b : b = Place("open", kind, Append(m.parts, NewPart(kind, e.index)), m.text, m.status)
  OBVIOUS
<1>9. /\ b.stage = "open" /\ b.open = kind /\ b.parts = Append(a.parts, NewPart(kind, e.index))
      /\ b.text = a.text
  BY <1>5, <1>8 DEF Place
<1>10. kind \in TextKinds(s) \cup {CallKind(s)}
  BY <1>2
<1>11. Told(CallsOf(b.parts), cap2.calls)
  BY <1>7, <1>9
<1>12. Leads(s, m, <<StartEvent(s, kind, e.index)>>, b, cap2, allowed)
  BY <1>5, <1>6, <1>7, <1>8, <1>10, <1>11, StartingLeads
<1>13. Leads(s, a, OpeningAt(s, a) \o ClosingAt(s, a) \o <<StartEvent(s, kind, e.index)>>, b, cap2, allowed)
  BY <1>4, <1>12, LeadsThen
<1>14. cap2.text = cap.text
  BY DEF Collects
<1>15. Matches(s, b, cap2)
  BY <1>7, <1>9, <1>14 DEF Matches
<1> QED BY <1>2, <1>9, <1>13, <1>15

LEMMA NestedArgs ==
  ASSUME NEW s \in Nested, NEW a, NEW cap \in Accumulators, NEW allowed,
         Fits(s, a, cap, allowed), Matches(s, a, cap), a.stage = "open", a.open = CallKind(s),
         NEW e \in AllEvents, NEW cap2, Collects(cap, e, cap2), IsArgs(e), ~IsStart(e), ~IsText(e),
         s = "messages" => \A q \in Seq(Part), p \in Part : a.parts = Append(q, p) => p.call = e.index
  PROVE  \E b : /\ Leads(s, a, <<ArgsEvent(s, e.index)>>, b, cap2, allowed)
                /\ b.stage = "open" /\ b.open = CallKind(s) /\ Matches(s, b, cap2)
                /\ \E q \in Seq(Part), p \in Part :
                     a.parts = Append(q, p) /\ b.parts = Append(q, Longer(p, e.index))
<1>1. Fits(s, a, cap2, allowed)
  BY FitsGrows
<1>2. PICK kind \in {"tool_use", "function_call"} : kind = CallKind(s)
  BY DEF CallKind
<1>3. PICK q \in Seq(Part), p \in Part : a.parts = Append(q, p) /\ p.kind = kind
  BY <1>2, FitsPlace DEF Sound
<1>4. PICK f \in Int : f = e.index
  BY EventFields
<1>5. p \in CallParts
  BY <1>3 DEF CallParts
<1>6. /\ Told(Append(CallsOf(q), Longer(p, f)), cap2.calls)
      /\ Len(CallsOf(Append(q, Longer(p, f)))) = Len(cap2.calls)
  BY <1>3, <1>4, <1>5, BothArgs
<1>13. PICK b : b = Place("open", a.open, Append(q, Longer(p, f)), a.text, a.status)
  OBVIOUS
<1>16. Leads(s, a, <<ArgsEvent(s, f)>>, b, cap2, allowed)
  <2>1. s = "messages" => p.call = f
    BY <1>3, <1>4
  <2>2. Told(Append(CallsOf(q), Longer(p, f)), cap2.calls)
    BY <1>6
  <2>3. a.parts = Append(q, p)
    BY <1>3
  <2> QED BY <1>1, <1>13, <2>1, <2>2, <2>3, ArgsLeads
<1>17. /\ b.stage = "open" /\ b.open = a.open /\ b.text = a.text
       /\ b.parts = Append(q, Longer(p, f))
  BY <1>13 DEF Place
<1>14. cap2.text = cap.text
  BY DEF Collects
<1>15. Matches(s, b, cap2)
  <2>1. Len(CallsOf(b.parts)) = Len(cap2.calls)
    BY <1>6, <1>17
  <2> QED BY <1>14, <1>17, <2>1 DEF Matches
<1> QED BY <1>3, <1>4, <1>15, <1>16, <1>17

(* The translator, and the place that its client will have reached.        *)
Reasons == STRING \cup {"none"}

MessagesTranslators ==
  [started : BOOLEAN, finished : BOOLEAN, open : {"none", "text", "thinking", "tool_use"},
   tool : Int, usage : SUBSET {"input", "output"}, reason : Reasons]

ResponsesTranslators ==
  [started : BOOLEAN, finished : BOOLEAN, open : {"none", "message", "function_call"},
   usage : SUBSET {"input", "output"}, reason : Reasons]

ChatTranslators ==
  [started : BOOLEAN, finished : BOOLEAN, open : {"none", "text", "thinking", "tool_use"},
   tool : Int, usage : SUBSET STRING]

Observers == [finished : BOOLEAN, usage : SUBSET (STRING \cup {"input", "output"})]

InStep(t, a) ==
  /\ t.started <=> a.stage # "before"
  /\ t.finished <=> a.stage = "done"
  /\ a.stage # "closing"

MessagesAgrees(t, a) ==
  /\ t \in MessagesTranslators /\ InStep(t, a) /\ t.open = a.open
  /\ t.open = "tool_use" =>
       \A q \in Seq(Part), p \in Part : a.parts = Append(q, p) => p.call = t.tool

ResponsesAgrees(t, a) == t \in ResponsesTranslators /\ InStep(t, a) /\ t.open = a.open

AllTools(parts) == \A k \in DOMAIN parts : parts[k].kind = "tool_use"

ChatAgrees(t, a) ==
  /\ t \in ChatTranslators /\ InStep(t, a)
  /\ t.tool = Len(a.parts) - 1
  /\ AllTools(a.parts)
  /\ t.open = "tool_use" => a.stage # "before" /\ a.parts # <<>>

Agrees(s, t, a) ==
  /\ s = "messages" => MessagesAgrees(t, a)
  /\ s = "responses" => ResponsesAgrees(t, a)
  /\ s = "chat" => ChatAgrees(t, a)
  /\ Verbatim(s) => t \in Observers /\ a.open = "none"

Arrives(s, a, events, t, cap, allowed) ==
  \E b : Leads(s, a, events, b, cap, allowed) /\ Agrees(s, t, b) /\ Matches(s, b, cap)

LEMMA ArrivesBy ==
  ASSUME NEW s \in Translated, NEW a, NEW events, NEW b, NEW t, NEW cap, NEW allowed,
         Leads(s, a, events, b, cap, allowed), Matches(s, b, cap),
         s = "messages" => MessagesAgrees(t, b),
         s = "responses" => ResponsesAgrees(t, b),
         s = "chat" => ChatAgrees(t, b)
  PROVE  Arrives(s, a, events, t, cap, allowed)
BY SurfaceKinds DEF Arrives, Agrees

LEMMA MessagesPieces ==
  ASSUME NEW t, NEW a, MessagesAgrees(t, a)
  PROVE  /\ Messages!Opening(t) = OpeningAt("messages", a)
         /\ Messages!Closing(t) = ClosingAt("messages", a)
         /\ \A kind, call : Messages!Starting(kind, call) = <<StartEvent("messages", kind, call)>>
         /\ \A kind : Messages!Switching(t, kind) = SwitchingAt("messages", a, kind)
         /\ \A kind : <<[type |-> kind]>> = <<TextEvent("messages", kind)>>
         /\ \A f : <<[type |-> "json", of |-> f]>> = <<ArgsEvent("messages", f)>>
<1>1. (t.started <=> a.stage # "before") /\ t.open = a.open
  BY DEF MessagesAgrees, InStep
<1>2. Messages!Opening(t) = OpeningAt("messages", a)
  BY <1>1 DEF Messages!Opening, OpeningAt, OpenEvent
<1>3. Messages!Closing(t) = ClosingAt("messages", a)
  BY <1>1 DEF Messages!Closing, ClosingAt, CloseEvent
<1>4. \A kind, call : Messages!Starting(kind, call) = <<StartEvent("messages", kind, call)>>
  BY DEF Messages!Starting, StartEvent
<1>5. Messages!NoIndex = NoCall
  BY DEF Messages!NoIndex, NoCall
<1>6. \A kind : Messages!Switching(t, kind) = SwitchingAt("messages", a, kind)
  BY <1>1, <1>3, <1>4, <1>5 DEF Messages!Switching, SwitchingAt
<1>7. \A kind : [type |-> kind] = TextEvent("messages", kind)
  BY DEF TextEvent
<1>8. \A f : [type |-> "json", of |-> f] = ArgsEvent("messages", f)
  BY DEF ArgsEvent
<1> QED BY <1>2, <1>3, <1>4, <1>6, <1>7, <1>8

LEMMA ChatEventKinds ==
  ASSUME NEW e \in ChatEvents
  PROVE  /\ e.type \in {"done", "start", "reasoning_delta", "text_delta", "usage", "tool_call_start",
                        "tool_args_delta", "finish"}
         /\ IsText(e) <=> e.type = "text_delta"
         /\ IsStart(e) <=> e.type = "tool_call_start"
         /\ IsArgs(e) <=> e.type = "tool_args_delta"
         /\ e.type \in {"tool_call_start", "tool_args_delta"} => e.index \in Int
         /\ e.type = "finish" => e.reason \in STRING
         /\ e \in AllEvents
BY DEF ChatEvents, IsText, IsStart, IsArgs, AllEvents

(* What a pushed event leaves of the translator.                           *)
LEMMA MessagesPushed ==
  ASSUME NEW t \in MessagesTranslators, ~t.finished, NEW e \in ChatEvents,
         NEW u, u = Messages!Pushed(t, e)
  PROVE  /\ u \in MessagesTranslators
         /\ u.usage = IF e.type = "usage" THEN {"input", "output"} ELSE t.usage
         /\ u.reason = IF e.type = "finish" THEN e.reason ELSE t.reason
         /\ u.started <=> t.started \/ e.type \in {"start", "text_delta", "reasoning_delta",
                                                   "tool_call_start", "done"}
         /\ u.finished <=> e.type = "done"
         /\ e.type \in {"start", "tool_args_delta", "finish", "usage"} =>
              u.open = t.open /\ u.tool = t.tool
         /\ e.type \in {"text_delta", "reasoning_delta"} => u.open = Messages!Kind(e)
         /\ e.type = "tool_call_start" => u.open = "tool_use" /\ u.tool = e.index
         /\ e.type = "done" => u.open = "none"
<1>1. CASE e.type = "start"
  <2>1. u = [t EXCEPT !.started = TRUE]
    BY <1>1 DEF Messages!Pushed
  <2> QED BY <1>1, <2>1 DEF MessagesTranslators
<1>2. CASE e.type \in {"text_delta", "reasoning_delta"}
  <2>1. PICK kind \in {"text", "thinking"} : kind = Messages!Kind(e)
    BY DEF Messages!Kind
  <2>2. PICK i \in Int : i = Messages!NoIndex
    BY DEF Messages!NoIndex
  <2>3. u = [t EXCEPT !.started = TRUE, !.open = kind, !.tool = i]
    BY <1>2, <2>1, <2>2 DEF Messages!Pushed
  <2>4. u.open = kind
    BY <2>3 DEF MessagesTranslators
  <2> QED BY <1>2, <2>1, <2>3, <2>4 DEF MessagesTranslators
<1>3. CASE e.type = "tool_call_start"
  <2>1. PICK i \in Int : i = e.index
    BY <1>3, ChatEventKinds
  <2>2. u = [t EXCEPT !.started = TRUE, !.open = "tool_use", !.tool = i]
    BY <1>3, <2>1 DEF Messages!Pushed
  <2> QED BY <1>3, <2>1, <2>2 DEF MessagesTranslators
<1>4. CASE e.type = "done"
  <2>1. PICK i \in Int : i = Messages!NoIndex
    BY DEF Messages!NoIndex
  <2>2. u = [t EXCEPT !.started = TRUE, !.finished = TRUE, !.open = "none", !.tool = i]
    BY <1>4, <2>1 DEF Messages!Pushed, Messages!Finished
  <2> QED BY <1>4, <2>1, <2>2 DEF MessagesTranslators
<1>5. CASE e.type = "finish"
  <2>1. PICK r \in Reasons : r = e.reason
    BY <1>5, ChatEventKinds DEF Reasons
  <2>2. u = [t EXCEPT !.reason = r]
    BY <1>5, <2>1 DEF Messages!Pushed
  <2> QED BY <1>5, <2>1, <2>2 DEF MessagesTranslators
<1>6. CASE e.type = "usage"
  <2>1. u = [t EXCEPT !.usage = {"input", "output"}]
    BY <1>6 DEF Messages!Pushed
  <2> QED BY <1>6, <2>1 DEF MessagesTranslators
<1>7. CASE e.type = "tool_args_delta"
  <2>1. u = t
    BY <1>7 DEF Messages!Pushed
  <2> QED BY <1>7, <2>1
<1> QED BY <1>1, <1>2, <1>3, <1>4, <1>5, <1>6, <1>7, ChatEventKinds

LEMMA MessagesTerminal ==
  ASSUME NEW t, NEW a, MessagesAgrees(t, a), ~t.finished, NEW cap, NEW allowed,
         Fits("messages", a, cap, allowed), Matches("messages", a, cap),
         NEW u, u = Messages!Finished(t)
  PROVE  /\ u \in MessagesTranslators /\ u.finished /\ u.usage = t.usage /\ u.reason = t.reason
         /\ Arrives("messages", a, Messages!Terminal(t), u, cap, allowed)
<1> DEFINE s == "messages"
<1>1. t \in MessagesTranslators /\ InStep(t, a) /\ s \in Nested /\ s \in Translated
  BY DEF MessagesAgrees, Nested, Translated
<1>2. a.stage \in {"before", "open"}
  BY <1>1, FitsPlace DEF InStep, Stages
<1>3. PICK b : /\ Leads(s, a, OpeningAt(s, a) \o ClosingAt(s, a) \o LastEvents(s, a.status), b, cap, allowed)
               /\ b.stage = "done" /\ b.open = "none" /\ b.text = a.text /\ b.parts = a.parts
  BY <1>1, <1>2, TerminalLeads, FitsPlace
<1>4. Messages!Terminal(t) = OpeningAt(s, a) \o ClosingAt(s, a) \o LastEvents(s, a.status)
  BY MessagesPieces DEF Messages!Terminal, LastEvents
<1>5. PICK i \in Int : i = Messages!NoIndex
  BY DEF Messages!NoIndex
<1>6. u = [t EXCEPT !.started = TRUE, !.finished = TRUE, !.open = "none", !.tool = i]
  BY <1>5 DEF Messages!Finished
<1>7. /\ u \in MessagesTranslators /\ u.started /\ u.finished /\ u.open = "none"
      /\ u.usage = t.usage /\ u.reason = t.reason
  BY <1>1, <1>6 DEF MessagesTranslators
<1>8. MessagesAgrees(u, b)
  BY <1>3, <1>7 DEF MessagesAgrees, InStep
<1>9. Matches(s, b, cap)
  BY <1>3 DEF Matches
<1>10. Arrives(s, a, Messages!Terminal(t), u, cap, allowed)
  BY <1>1, <1>3, <1>4, <1>8, <1>9, ArrivesBy
<1> QED BY <1>7, <1>10

LEMMA MessagesPush ==
  ASSUME NEW t, NEW a, MessagesAgrees(t, a), ~t.finished,
         NEW cap \in Accumulators, NEW allowed, Fits("messages", a, cap, allowed),
         Matches("messages", a, cap),
         NEW e \in ChatEvents, NEW cap2, Collects(cap, e, cap2)
  PROVE  Arrives("messages", a, Messages!Implied(t, e), Messages!Pushed(t, e), cap2, allowed)
<1> DEFINE s == "messages"
<1>1. t \in MessagesTranslators /\ InStep(t, a) /\ t.open = a.open /\ s \in Nested /\ s \in Translated
  BY DEF MessagesAgrees, Nested, Translated
<1>2. a.stage \in {"before", "open"}
  BY <1>1, FitsPlace DEF InStep, Stages
<1>3. PICK u : u = Messages!Pushed(t, e)
  OBVIOUS
<1>10. /\ u \in MessagesTranslators
       /\ u.started <=> t.started \/ e.type \in {"start", "text_delta", "reasoning_delta",
                                                 "tool_call_start", "done"}
       /\ u.finished <=> e.type = "done"
       /\ e.type \in {"start", "tool_args_delta", "finish", "usage"} =>
            u.open = t.open /\ u.tool = t.tool
       /\ e.type \in {"text_delta", "reasoning_delta"} => u.open = Messages!Kind(e)
       /\ e.type = "tool_call_start" => u.open = "tool_use" /\ u.tool = e.index
       /\ e.type = "done" => u.open = "none"
  BY <1>1, <1>3, MessagesPushed
<1>4. CASE e.type = "start"
  <2>1. PICK b : b = AllOpen(a)
    OBVIOUS
  <2>2. Fits(s, a, cap2, allowed) /\ Matches(s, a, cap2)
    BY <1>4, ChatEventKinds, NestedSkip
  <2>3. Leads(s, a, OpeningAt(s, a), b, cap2, allowed)
    BY <1>1, <1>2, <2>1, <2>2, OpeningLeads
  <2>4. Messages!Implied(t, e) = OpeningAt(s, a)
    BY <1>4, MessagesPieces DEF Messages!Implied
  <2>5. b.stage = "open" /\ b.open = a.open /\ b.parts = a.parts /\ b.text = a.text
    BY <2>1 DEF AllOpen, Place
  <2>7. MessagesAgrees(u, b)
    BY <1>1, <1>4, <1>10, <2>5 DEF MessagesAgrees, InStep
  <2>8. Matches(s, b, cap2)
    BY <2>2, <2>5 DEF Matches
  <2> QED BY <1>1, <1>3, <2>3, <2>4, <2>7, <2>8, ArrivesBy
<1>5. CASE e.type \in {"text_delta", "reasoning_delta"}
  <2>1. PICK kind \in {"text", "thinking"} : kind = Messages!Kind(e)
    BY DEF Messages!Kind
  <2>2. kind = "text" <=> e.type = "text_delta"
    BY <2>1 DEF Messages!Kind
  <2>3. /\ kind \in TextKinds(s) /\ (IsText(e) <=> kind \in {"text", "message"})
        /\ ~IsStart(e) /\ e \in AllEvents
    BY <1>5, <2>2, ChatEventKinds DEF TextKinds
  <2>9. kind \in TextKinds(s)
    BY <2>3
  <2>10. IsText(e) <=> kind \in {"text", "message"}
    BY <2>3
  <2>11. e \in AllEvents /\ ~IsStart(e)
    BY <2>3
  <2>4. PICK b : /\ Leads(s, a, OpeningAt(s, a) \o SwitchingAt(s, a, kind) \o <<TextEvent(s, kind)>>,
                          b, cap2, allowed)
                 /\ b.stage = "open" /\ b.open = kind /\ Matches(s, b, cap2)
    BY SMTT(20), <1>1, <1>2, <2>9, <2>10, <2>11, NestedText
  <2>5. Messages!Implied(t, e)
          = Messages!Opening(t) \o Messages!Switching(t, kind) \o <<[type |-> kind]>>
    BY <1>5, <2>1 DEF Messages!Implied
  <2>6. Messages!Implied(t, e) = OpeningAt(s, a) \o SwitchingAt(s, a, kind) \o <<TextEvent(s, kind)>>
    BY <2>5, MessagesPieces
  <2>8. MessagesAgrees(u, b)
    BY <1>5, <1>10, <2>1, <2>4 DEF MessagesAgrees, InStep
  <2> QED BY <1>1, <1>3, <2>4, <2>6, <2>8, ArrivesBy
<1>6. CASE e.type = "tool_call_start"
  <2>1. IsStart(e) /\ ~IsText(e) /\ e \in AllEvents /\ e.index \in Int
    BY <1>6, ChatEventKinds
  <2>2. CallKind(s) = "tool_use"
    BY DEF CallKind
  <2>3. PICK b : /\ Leads(s, a, OpeningAt(s, a) \o ClosingAt(s, a)
                                 \o <<StartEvent(s, CallKind(s), e.index)>>, b, cap2, allowed)
                 /\ b.stage = "open" /\ b.open = CallKind(s) /\ Matches(s, b, cap2)
                 /\ b.parts = Append(a.parts, NewPart(CallKind(s), e.index))
    BY <1>1, <1>2, <2>1, NestedCall
  <2>4. Messages!Implied(t, e)
          = Messages!Opening(t) \o Messages!Closing(t) \o Messages!Starting("tool_use", e.index)
    BY <1>6 DEF Messages!Implied
  <2>5. Messages!Implied(t, e) = OpeningAt(s, a) \o ClosingAt(s, a) \o <<StartEvent(s, CallKind(s), e.index)>>
    BY <2>2, <2>4, MessagesPieces
  <2>7. MessagesAgrees(u, b)
    <3>1. u \in MessagesTranslators
      BY <1>10
    <3>2. u.started /\ ~u.finished /\ u.open = "tool_use" /\ u.tool = e.index
      BY <1>6, <1>10
    <3>3. ASSUME NEW q \in Seq(Part), NEW p \in Part, b.parts = Append(q, p) PROVE p.call = e.index
      <4>1. PICK x \in Part : x = NewPart("tool_use", e.index) /\ x.call = e.index
        BY <2>1, NewPartFields DEF Kinds
      <4>2. PICK l \in Seq(Part) : l = a.parts
        BY FitsPlace
      <4>3. Append(l, x) = Append(q, p)
        BY <2>2, <2>3, <3>3, <4>1, <4>2
      <4>4. x = p
        BY <4>3, AppendSame
      <4> QED BY <4>1, <4>4
    <3> QED BY <2>2, <2>3, <3>1, <3>2, <3>3 DEF MessagesAgrees, InStep
  <2> QED BY <1>1, <1>3, <2>3, <2>5, <2>7, ArrivesBy
<1>7. CASE e.type = "tool_args_delta" /\ t.open = "tool_use" /\ t.tool = e.index
  <2>1. IsArgs(e) /\ ~IsStart(e) /\ ~IsText(e) /\ e \in AllEvents
    BY <1>7, ChatEventKinds
  <2>2. CallKind(s) = "tool_use"
    BY DEF CallKind
  <2>3. a.stage = "open" /\ a.open = CallKind(s)
    BY <1>1, <1>2, <1>7, <2>2, FitsPlace DEF Sound
  <2>4. \A q \in Seq(Part), p \in Part : a.parts = Append(q, p) => p.call = e.index
    BY <1>7 DEF MessagesAgrees
  <2>5. PICK b : /\ Leads(s, a, <<ArgsEvent(s, e.index)>>, b, cap2, allowed)
                 /\ b.stage = "open" /\ b.open = CallKind(s) /\ Matches(s, b, cap2)
                 /\ \E q \in Seq(Part), p \in Part :
                      a.parts = Append(q, p) /\ b.parts = Append(q, Longer(p, e.index))
    BY <1>1, <2>1, <2>3, <2>4, NestedArgs
  <2>6. Messages!Implied(t, e) = <<ArgsEvent(s, e.index)>>
    <3>1. Messages!Implied(t, e) = <<[type |-> "json", of |-> e.index]>>
      BY <1>7 DEF Messages!Implied
    <3> QED BY <3>1, MessagesPieces
  <2>7. u = t
    BY <1>3, <1>7 DEF Messages!Pushed
  <2>8. MessagesAgrees(t, b)
    <3>1. PICK q \in Seq(Part), p \in Part, y \in Part :
                a.parts = Append(q, p) /\ y = Longer(p, e.index) /\ b.parts = Append(q, y) /\ y.call = p.call
      BY <2>1, <2>5, EventFields, PartFields
    <3>2. p.call = e.index
      BY <2>4, <3>1
    <3>3. ASSUME NEW r \in Seq(Part), NEW x \in Part, b.parts = Append(r, x) PROVE x.call = t.tool
      <4>1. Append(r, x) = Append(q, y)
        BY <3>1, <3>3
      <4>2. x = y
        BY <4>1, AppendSame
      <4> QED BY <1>7, <3>1, <3>2, <4>2
    <3> QED BY <1>1, <1>7, <2>2, <2>3, <2>5, <3>3 DEF MessagesAgrees, InStep
  <2> QED BY <1>1, <1>3, <2>5, <2>6, <2>7, <2>8, ArrivesBy
<1>8. CASE e.type = "done"
  <2>1. Fits(s, a, cap2, allowed) /\ Matches(s, a, cap2)
    BY <1>8, ChatEventKinds, NestedSkip
  <2>2. Messages!Implied(t, e) = Messages!Terminal(t) /\ u = Messages!Finished(t)
    BY <1>3, <1>8 DEF Messages!Implied, Messages!Pushed
  <2>3. Arrives(s, a, Messages!Terminal(t), u, cap2, allowed)
    BY <2>1, <2>2, MessagesTerminal
  <2> QED BY <1>3, <2>2, <2>3
<1>9. CASE \/ e.type = "tool_args_delta" /\ ~(t.open = "tool_use" /\ t.tool = e.index)
           \/ e.type \in {"finish", "usage"}
  <2>1. Fits(s, a, cap2, allowed) /\ Matches(s, a, cap2)
    BY <1>9, ChatEventKinds, NestedSkip
  <2>2. Leads(s, a, <<>>, a, cap2, allowed)
    BY <2>1, LeadsNothing
  <2>3. Messages!Implied(t, e) = <<>>
    BY <1>9 DEF Messages!Implied
  <2>5. MessagesAgrees(u, a)
    BY <1>9, <1>10 DEF MessagesAgrees, InStep
  <2> QED BY <1>1, <1>3, <2>1, <2>2, <2>3, <2>5, ArrivesBy
<1> QED BY <1>4, <1>5, <1>6, <1>7, <1>8, <1>9, ChatEventKinds

LEMMA ResponsesPieces ==
  ASSUME NEW t, NEW a, ResponsesAgrees(t, a)
  PROVE  /\ Responses!Opening(t) = OpeningAt("responses", a)
         /\ Responses!Closing(t) = ClosingAt("responses", a)
         /\ \A kind, call : Responses!Starting(kind, call) = <<StartEvent("responses", kind, call)>>
         /\ Responses!Switching(t) = SwitchingAt("responses", a, "message")
         /\ <<[type |-> "output_text"]>> = <<TextEvent("responses", "message")>>
         /\ \A f : <<[type |-> "function_arguments", of |-> f]>> = <<ArgsEvent("responses", f)>>
<1>1. (t.started <=> a.stage # "before") /\ t.open = a.open
  BY DEF ResponsesAgrees, InStep
<1>2. Responses!Opening(t) = OpeningAt("responses", a)
  BY <1>1 DEF Responses!Opening, OpeningAt, OpenEvent
<1>3. Responses!Closing(t) = ClosingAt("responses", a)
  BY <1>1 DEF Responses!Closing, ClosingAt, CloseEvent
<1>4. \A kind, call : Responses!Starting(kind, call) = <<StartEvent("responses", kind, call)>>
  BY DEF Responses!Starting, StartEvent
<1>5. Responses!NoIndex = NoCall
  BY DEF Responses!NoIndex, NoCall
<1>6. Responses!Switching(t) = SwitchingAt("responses", a, "message")
  BY <1>1, <1>3, <1>4, <1>5 DEF Responses!Switching, SwitchingAt
<1>7. [type |-> "output_text"] = TextEvent("responses", "message")
  BY DEF TextEvent
<1>8. \A f : [type |-> "function_arguments", of |-> f] = ArgsEvent("responses", f)
  BY DEF ArgsEvent
<1> QED BY <1>2, <1>3, <1>4, <1>6, <1>7, <1>8

LEMMA ResponsesPushed ==
  ASSUME NEW t \in ResponsesTranslators, ~t.finished, NEW e \in ChatEvents,
         NEW u, u = Responses!Pushed(t, e)
  PROVE  /\ u \in ResponsesTranslators
         /\ u.usage = IF e.type = "usage" THEN {"input", "output"} ELSE t.usage
         /\ u.reason = IF e.type = "finish" THEN e.reason ELSE t.reason
         /\ u.started <=> t.started \/ e.type \in {"start", "text_delta", "tool_call_start", "done"}
         /\ u.finished <=> e.type = "done"
         /\ e.type \in {"start", "reasoning_delta", "tool_args_delta", "finish", "usage"} =>
              u.open = t.open
         /\ e.type = "text_delta" => u.open = "message"
         /\ e.type = "tool_call_start" => u.open = "function_call"
         /\ e.type = "done" => u.open = "none"
<1>1. CASE e.type = "start"
  <2>1. u = [t EXCEPT !.started = TRUE]
    BY <1>1 DEF Responses!Pushed
  <2> QED BY <1>1, <2>1 DEF ResponsesTranslators
<1>2. CASE e.type = "text_delta"
  <2>1. u = [t EXCEPT !.started = TRUE, !.open = "message"]
    BY <1>2 DEF Responses!Pushed
  <2> QED BY <1>2, <2>1 DEF ResponsesTranslators
<1>3. CASE e.type = "tool_call_start"
  <2>1. u = [t EXCEPT !.started = TRUE, !.open = "function_call"]
    BY <1>3 DEF Responses!Pushed
  <2> QED BY <1>3, <2>1 DEF ResponsesTranslators
<1>4. CASE e.type = "done"
  <2>1. u = [t EXCEPT !.started = TRUE, !.finished = TRUE, !.open = "none"]
    BY <1>4 DEF Responses!Pushed, Responses!Finished
  <2> QED BY <1>4, <2>1 DEF ResponsesTranslators
<1>5. CASE e.type = "finish"
  <2>1. PICK r \in Reasons : r = e.reason
    BY <1>5, ChatEventKinds DEF Reasons
  <2>2. u = [t EXCEPT !.reason = r]
    BY <1>5, <2>1 DEF Responses!Pushed
  <2> QED BY <1>5, <2>1, <2>2 DEF ResponsesTranslators
<1>6. CASE e.type = "usage"
  <2>1. u = [t EXCEPT !.usage = {"input", "output"}]
    BY <1>6 DEF Responses!Pushed
  <2> QED BY <1>6, <2>1 DEF ResponsesTranslators
<1>7. CASE e.type \in {"tool_args_delta", "reasoning_delta"}
  <2>1. u = t
    BY <1>7 DEF Responses!Pushed
  <2> QED BY <1>7, <2>1
<1> QED BY <1>1, <1>2, <1>3, <1>4, <1>5, <1>6, <1>7, ChatEventKinds

LEMMA ResponsesTerminal ==
  ASSUME NEW t, NEW a, ResponsesAgrees(t, a), ~t.finished, NEW cap, NEW allowed,
         Fits("responses", a, cap, allowed), Matches("responses", a, cap),
         NEW status \in Statuses, status \in allowed,
         NEW u, u = Responses!Finished(t)
  PROVE  /\ u \in ResponsesTranslators /\ u.finished /\ u.usage = t.usage /\ u.reason = t.reason
         /\ Arrives("responses", a, Responses!Terminal(t, status), u, cap, allowed)
<1> DEFINE s == "responses"
<1>1. t \in ResponsesTranslators /\ InStep(t, a) /\ s \in Nested /\ s \in Translated
  BY DEF ResponsesAgrees, Nested, Translated
<1>2. a.stage \in {"before", "open"}
  BY <1>1, FitsPlace DEF InStep, Stages
<1>3. PICK b : /\ Leads(s, a, OpeningAt(s, a) \o ClosingAt(s, a) \o LastEvents(s, status), b, cap, allowed)
               /\ b.stage = "done" /\ b.open = "none" /\ b.text = a.text /\ b.parts = a.parts
  BY <1>1, <1>2, TerminalLeads
<1>4. Responses!Terminal(t, status) = OpeningAt(s, a) \o ClosingAt(s, a) \o LastEvents(s, status)
  BY ResponsesPieces DEF Responses!Terminal, LastEvents
<1>6. u = [t EXCEPT !.started = TRUE, !.finished = TRUE, !.open = "none"]
  BY DEF Responses!Finished
<1>7. /\ u \in ResponsesTranslators /\ u.started /\ u.finished /\ u.open = "none"
      /\ u.usage = t.usage /\ u.reason = t.reason
  BY <1>1, <1>6 DEF ResponsesTranslators
<1>8. ResponsesAgrees(u, b)
  BY <1>3, <1>7 DEF ResponsesAgrees, InStep
<1>9. Matches(s, b, cap)
  BY <1>3 DEF Matches
<1>10. Arrives(s, a, Responses!Terminal(t, status), u, cap, allowed)
  BY <1>1, <1>3, <1>4, <1>8, <1>9, ArrivesBy
<1> QED BY <1>7, <1>10

LEMMA ResponsesPush ==
  ASSUME NEW t, NEW a, ResponsesAgrees(t, a), ~t.finished,
         NEW cap \in Accumulators, NEW allowed, Fits("responses", a, cap, allowed),
         Matches("responses", a, cap),
         NEW e \in ChatEvents, NEW cap2, Collects(cap, e, cap2),
         "incomplete" \in allowed, e.type = "done" => "completed" \in allowed
  PROVE  Arrives("responses", a, Responses!Implied(t, e), Responses!Pushed(t, e), cap2, allowed)
<1> DEFINE s == "responses"
<1>1. t \in ResponsesTranslators /\ InStep(t, a) /\ t.open = a.open /\ s \in Nested /\ s \in Translated
  BY DEF ResponsesAgrees, Nested, Translated
<1>2. a.stage \in {"before", "open"}
  BY <1>1, FitsPlace DEF InStep, Stages
<1>3. PICK u : u = Responses!Pushed(t, e)
  OBVIOUS
<1>10. /\ u \in ResponsesTranslators
       /\ u.started <=> t.started \/ e.type \in {"start", "text_delta", "tool_call_start", "done"}
       /\ u.finished <=> e.type = "done"
       /\ e.type \in {"start", "reasoning_delta", "tool_args_delta", "finish", "usage"} =>
            u.open = t.open
       /\ e.type = "text_delta" => u.open = "message"
       /\ e.type = "tool_call_start" => u.open = "function_call"
       /\ e.type = "done" => u.open = "none"
  BY <1>1, <1>3, ResponsesPushed
<1>4. CASE e.type = "start"
  <2>1. PICK b : b = AllOpen(a)
    OBVIOUS
  <2>2. Fits(s, a, cap2, allowed) /\ Matches(s, a, cap2)
    BY <1>4, ChatEventKinds, NestedSkip
  <2>3. Leads(s, a, OpeningAt(s, a), b, cap2, allowed)
    BY <1>1, <1>2, <2>1, <2>2, OpeningLeads
  <2>4. Responses!Implied(t, e) = OpeningAt(s, a)
    BY <1>4, ResponsesPieces DEF Responses!Implied
  <2>5. b.stage = "open" /\ b.open = a.open /\ b.parts = a.parts /\ b.text = a.text
    BY <2>1 DEF AllOpen, Place
  <2>7. ResponsesAgrees(u, b)
    BY <1>1, <1>4, <1>10, <2>5 DEF ResponsesAgrees, InStep
  <2>8. Matches(s, b, cap2)
    BY <2>2, <2>5 DEF Matches
  <2> QED BY <1>1, <1>3, <2>3, <2>4, <2>7, <2>8, ArrivesBy
<1>5. CASE e.type = "text_delta"
  <2>1. PICK kind : kind = "message"
    OBVIOUS
  <2>9. kind \in TextKinds(s)
    BY <2>1 DEF TextKinds
  <2>10. IsText(e) <=> kind \in {"text", "message"}
    BY <1>5, <2>1, ChatEventKinds
  <2>11. e \in AllEvents /\ ~IsStart(e)
    BY <1>5, ChatEventKinds
  <2>4. PICK b : /\ Leads(s, a, OpeningAt(s, a) \o SwitchingAt(s, a, kind) \o <<TextEvent(s, kind)>>,
                          b, cap2, allowed)
                 /\ b.stage = "open" /\ b.open = kind /\ Matches(s, b, cap2)
    BY <1>1, <1>2, <2>9, <2>10, <2>11, NestedText
  <2>5. Responses!Implied(t, e)
          = Responses!Opening(t) \o Responses!Switching(t) \o <<[type |-> "output_text"]>>
    BY <1>5 DEF Responses!Implied
  <2>6. Responses!Implied(t, e) = OpeningAt(s, a) \o SwitchingAt(s, a, kind) \o <<TextEvent(s, kind)>>
    BY <2>1, <2>5, ResponsesPieces
  <2>8. ResponsesAgrees(u, b)
    BY <1>5, <1>10, <2>1, <2>4 DEF ResponsesAgrees, InStep
  <2> QED BY <1>1, <1>3, <2>4, <2>6, <2>8, ArrivesBy
<1>6. CASE e.type = "tool_call_start"
  <2>1. IsStart(e) /\ ~IsText(e) /\ e \in AllEvents /\ e.index \in Int
    BY <1>6, ChatEventKinds
  <2>2. CallKind(s) = "function_call"
    BY DEF CallKind
  <2>3. PICK b : /\ Leads(s, a, OpeningAt(s, a) \o ClosingAt(s, a)
                                 \o <<StartEvent(s, CallKind(s), e.index)>>, b, cap2, allowed)
                 /\ b.stage = "open" /\ b.open = CallKind(s) /\ Matches(s, b, cap2)
    BY <1>1, <1>2, <2>1, NestedCall
  <2>4. Responses!Implied(t, e)
          = Responses!Opening(t) \o Responses!Closing(t) \o Responses!Starting("function_call", e.index)
    BY <1>6 DEF Responses!Implied
  <2>5. Responses!Implied(t, e) = OpeningAt(s, a) \o ClosingAt(s, a) \o <<StartEvent(s, CallKind(s), e.index)>>
    BY <2>2, <2>4, ResponsesPieces
  <2>7. ResponsesAgrees(u, b)
    BY <1>6, <1>10, <2>2, <2>3 DEF ResponsesAgrees, InStep
  <2> QED BY <1>1, <1>3, <2>3, <2>5, <2>7, ArrivesBy
<1>7. CASE e.type = "tool_args_delta" /\ t.open = "function_call"
  <2>1. IsArgs(e) /\ ~IsStart(e) /\ ~IsText(e) /\ e \in AllEvents
    BY <1>7, ChatEventKinds
  <2>2. CallKind(s) = "function_call"
    BY DEF CallKind
  <2>3. a.stage = "open" /\ a.open = CallKind(s)
    BY <1>1, <1>2, <1>7, <2>2, FitsPlace DEF Sound
  <2>4. s # "messages"
    OBVIOUS
  <2>5. PICK b : /\ Leads(s, a, <<ArgsEvent(s, e.index)>>, b, cap2, allowed)
                 /\ b.stage = "open" /\ b.open = CallKind(s) /\ Matches(s, b, cap2)
    BY <1>1, <2>1, <2>3, <2>4, NestedArgs
  <2>6. Responses!Implied(t, e) = <<ArgsEvent(s, e.index)>>
    <3>1. Responses!Implied(t, e) = <<[type |-> "function_arguments", of |-> e.index]>>
      BY <1>7 DEF Responses!Implied
    <3> QED BY <3>1, ResponsesPieces
  <2>8. ResponsesAgrees(u, b)
    BY <1>1, <1>7, <1>10, <2>2, <2>3, <2>5 DEF ResponsesAgrees, InStep
  <2> QED BY <1>1, <1>3, <2>5, <2>6, <2>8, ArrivesBy
<1>8. CASE e.type = "done"
  <2>1. Fits(s, a, cap2, allowed) /\ Matches(s, a, cap2)
    BY <1>8, ChatEventKinds, NestedSkip
  <2>2. PICK status \in Statuses : status = Responses!Status(t.reason)
    BY DEF Responses!Status, Statuses
  <2>3. Responses!Implied(t, e) = Responses!Terminal(t, status) /\ u = Responses!Finished(t)
    BY <1>3, <1>8, <2>2 DEF Responses!Implied, Responses!Pushed
  <2>4. status \in allowed
    BY <1>8, <2>2 DEF Responses!Status
  <2>5. Arrives(s, a, Responses!Terminal(t, status), u, cap2, allowed)
    BY <2>1, <2>3, <2>4, ResponsesTerminal
  <2> QED BY <1>3, <2>3, <2>5
<1>9. CASE \/ e.type = "tool_args_delta" /\ t.open # "function_call"
           \/ e.type \in {"reasoning_delta", "finish", "usage"}
  <2>1. Fits(s, a, cap2, allowed) /\ Matches(s, a, cap2)
    BY <1>9, ChatEventKinds, NestedSkip
  <2>2. Leads(s, a, <<>>, a, cap2, allowed)
    BY <2>1, LeadsNothing
  <2>3. Responses!Implied(t, e) = <<>>
    BY <1>9 DEF Responses!Implied
  <2>5. ResponsesAgrees(u, a)
    BY <1>1, <1>9, <1>10 DEF ResponsesAgrees, InStep
  <2> QED BY <1>1, <1>3, <2>1, <2>2, <2>3, <2>5, ArrivesBy
<1> QED BY <1>4, <1>5, <1>6, <1>7, <1>8, <1>9, ChatEventKinds

(* end()                                                                   *)
LEMMA MessagesEnds ==
  ASSUME NEW t, NEW a, MessagesAgrees(t, a), ~t.finished, NEW cap, NEW allowed,
         Fits("messages", a, cap, allowed), Matches("messages", a, cap),
         NEW u, u = Messages!Ended(t)
  PROVE  /\ u.finished /\ u.usage = t.usage
         /\ Arrives("messages", a, Messages!Ending(t), u, cap, allowed)
<1>1. u = Messages!Finished(t) /\ Messages!Ending(t) = Messages!Terminal(t)
  BY DEF Messages!Ended, Messages!Ending
<1> QED BY <1>1, MessagesTerminal

LEMMA ResponsesEnds ==
  ASSUME NEW t, NEW a, ResponsesAgrees(t, a), ~t.finished, NEW cap, NEW allowed,
         Fits("responses", a, cap, allowed), Matches("responses", a, cap),
         "incomplete" \in allowed, t.reason # "none" => "completed" \in allowed,
         NEW u, u = Responses!Ended(t)
  PROVE  /\ u.finished /\ u.usage = t.usage
         /\ Arrives("responses", a, Responses!Ending(t), u, cap, allowed)
<1>1. PICK status \in Statuses : status = IF t.reason = "none" THEN "incomplete" ELSE Responses!Status(t.reason)
  BY DEF Responses!Status, Statuses
<1>2. u = Responses!Finished(t) /\ Responses!Ending(t) = Responses!Terminal(t, status)
  BY <1>1 DEF Responses!Ended, Responses!Ending
<1>3. status \in allowed
  BY <1>1 DEF Responses!Status
<1> QED BY <1>2, <1>3, ResponsesTerminal

-----------------------------------------------------------------------------
(* The chat translator                                                     *)

KnownFrames == {e \in Upstream!AnthropicFrames : e.type # "unknown"}

LEMMA AnthropicKinds ==
  ASSUME NEW e \in KnownFrames
  PROVE  /\ e.type \in {"message_start", "message_delta", "text_delta", "thinking_delta", "signature_delta",
                        "json_delta", "block_stop", "block_start", "message_stop", "error"}
         /\ e.type \in {"message_start", "message_delta"} => e.usage \subseteq STRING
         /\ e.type = "json_delta" => e.index \in Int
         /\ e.type = "block_start" => e.index \in Int /\ e.kind \in {"text", "tool_use", "thinking"}
         /\ IsText(e) <=> e.type = "text_delta"
         /\ IsStart(e) <=> e.type = "block_start" /\ e.kind = "tool_use"
         /\ IsArgs(e) <=> e.type = "json_delta"
         /\ e \in AllEvents
BY DEF KnownFrames, Upstream!AnthropicFrames, IsText, IsStart, IsArgs, AllEvents

LEMMA ConcatSome ==
  ASSUME NEW R, NEW x \in Seq(R), NEW y \in R
  PROVE  x \o <<y>> # <<>>
<1>1. PICK z \in Seq(R) : z = <<y>> /\ Len(z) = 1
  <2>1. PICK z : z = <<y>>
    OBVIOUS
  <2>2. z \in Seq(R) /\ Len(z) = 1
    BY <2>1
  <2> QED BY <2>1, <2>2
<1>2. PICK w : w = x \o z
  OBVIOUS
<1>3. PICK n \in Nat : n = Len(x)
  OBVIOUS
<1>4. w \in Seq(R) /\ Len(w) = n + 1
  BY <1>1, <1>2, <1>3, ConcatProperties
<1>5. w # <<>>
  BY <1>4, EmptySeq
<1> QED BY <1>1, <1>2, <1>5

LEMMA ChatOpening ==
  ASSUME NEW t, NEW y
  PROVE  /\ Chat!Opening(t) \o <<y>> # <<>>
         /\ ~t.started => Chat!Opening(t) # <<>>
         /\ t.started => Chat!Opening(t) = <<>>
<1>1. PICK o : o = [type |-> "start"]
  OBVIOUS
<1>2. PICK R : R = {o, y}
  OBVIOUS
<1>3. Chat!Opening(t) = IF t.started THEN <<>> ELSE <<o>>
  BY <1>1 DEF Chat!Opening
<1>4. PICK x : x = Chat!Opening(t)
  OBVIOUS
<1>5. x \in Seq(R) /\ y \in R
  <2>1. CASE t.started
    <3>1. x = <<>>
      BY <1>3, <1>4, <2>1
    <3> QED BY <1>2, <3>1
  <2>2. CASE ~t.started
    <3>1. x = <<o>>
      BY <1>3, <1>4, <2>2
    <3> QED BY <1>2, <3>1
  <2> QED BY <2>1, <2>2
<1>6. x \o <<y>> # <<>>
  BY <1>5, ConcatSome
<1>7. ~t.started => x # <<>>
  BY <1>3, <1>4
<1> QED BY <1>3, <1>4, <1>6, <1>7

(* What a frame makes of the translator, and what it emits.                *)
Forwarded(t, e) ==
  \/ e.type \in {"message_start", "message_stop"}
  \/ e.type = "block_start" /\ e.kind = "tool_use"
  \/ e.type = "text_delta" /\ t.open # "thinking"
  \/ e.type = "json_delta" /\ t.open = "tool_use"

LEMMA ChatImplied ==
  ASSUME NEW t, ~t.finished, NEW e \in KnownFrames
  PROVE  /\ e.type = "message_start" => Chat!Implied(t, e) = Chat!Opening(t)
         /\ e.type = "block_start" /\ e.kind = "tool_use" =>
              Chat!Implied(t, e)
                = Chat!Opening(t) \o <<[type |-> "tool_call_start", index |-> t.tool + 1, call |-> e.index]>>
         /\ e.type = "text_delta" /\ t.open # "thinking" =>
              Chat!Implied(t, e) = Chat!Opening(t) \o <<[type |-> "text"]>>
         /\ e.type = "json_delta" /\ t.open = "tool_use" =>
              Chat!Implied(t, e)
                = Chat!Opening(t) \o <<[type |-> "tool_args", index |-> t.tool, of |-> e.index]>>
         /\ e.type = "message_stop" => Chat!Implied(t, e) = Chat!Terminal(t)
         /\ ~Forwarded(t, e) => Chat!Implied(t, e) = <<>>
<1>1. e.type = "message_start" => Chat!Implied(t, e) = Chat!Opening(t)
  BY DEF Chat!Implied
<1>2. e.type = "block_start" /\ e.kind = "tool_use" =>
        Chat!Implied(t, e)
          = Chat!Opening(t) \o <<[type |-> "tool_call_start", index |-> t.tool + 1, call |-> e.index]>>
  BY DEF Chat!Implied
<1>3. e.type = "text_delta" /\ t.open # "thinking" =>
        Chat!Implied(t, e) = Chat!Opening(t) \o <<[type |-> "text"]>>
  BY DEF Chat!Implied, Chat!ForwardsText
<1>4. e.type = "json_delta" /\ t.open = "tool_use" =>
        Chat!Implied(t, e)
          = Chat!Opening(t) \o <<[type |-> "tool_args", index |-> t.tool, of |-> e.index]>>
  BY DEF Chat!Implied
<1>5. e.type = "message_stop" => Chat!Implied(t, e) = Chat!Terminal(t)
  BY DEF Chat!Implied
<1>6. ~Forwarded(t, e) => Chat!Implied(t, e) = <<>>
  BY DEF Chat!Implied, Chat!ForwardsText, Forwarded
<1> QED BY <1>1, <1>2, <1>3, <1>4, <1>5, <1>6

LEMMA ChatStarts ==
  ASSUME NEW t, ~t.finished, NEW e \in KnownFrames, e.type # "message_stop"
  PROVE  t.started \/ Chat!Opens(t, e) <=> t.started \/ Forwarded(t, e)
<1>1. CASE ~Forwarded(t, e)
  <2>1. ~Chat!Opens(t, e)
    BY <1>1, ChatImplied DEF Chat!Opens
  <2> QED BY <1>1, <2>1
<1>2. CASE Forwarded(t, e)
  <2>1. CASE e.type = "message_start"
    BY <1>2, <2>1, ChatImplied, ChatOpening DEF Chat!Opens
  <2>2. CASE e.type = "block_start" /\ e.kind = "tool_use"
    BY <1>2, <2>2, ChatImplied, ChatOpening DEF Chat!Opens
  <2>3. CASE e.type = "text_delta" /\ t.open # "thinking"
    BY <1>2, <2>3, ChatImplied, ChatOpening DEF Chat!Opens
  <2>4. CASE e.type = "json_delta" /\ t.open = "tool_use"
    BY <1>2, <2>4, ChatImplied, ChatOpening DEF Chat!Opens
  <2> QED BY <1>2, <2>1, <2>2, <2>3, <2>4 DEF Forwarded
<1> QED BY <1>1, <1>2

LEMMA ChatPushed ==
  ASSUME NEW t \in ChatTranslators, ~t.finished, NEW e \in KnownFrames,
         NEW u, u = Chat!Pushed(t, e)
  PROVE  /\ u \in ChatTranslators
         /\ u.usage = IF e.type \in {"message_start", "message_delta"} THEN t.usage \cup e.usage ELSE t.usage
         /\ u.started <=> t.started \/ Forwarded(t, e)
         /\ u.finished <=> e.type = "message_stop"
         /\ u.open = IF e.type = "block_start" THEN e.kind
                     ELSE IF e.type = "block_stop" THEN "none" ELSE t.open
         /\ u.tool = IF e.type = "block_start" /\ e.kind = "tool_use" THEN t.tool + 1 ELSE t.tool
<1>1. PICK x \in BOOLEAN : x <=> t.started \/ Chat!Opens(t, e)
  OBVIOUS
<1>2. e.type # "message_stop" => (x <=> t.started \/ Forwarded(t, e))
  BY <1>1, ChatStarts
<1>3. x = (t.started \/ Chat!Opens(t, e))
  BY <1>1
<1>4. CASE e.type \in {"message_start", "message_delta"}
  <2>1. PICK us \in SUBSET STRING : us = t.usage \cup e.usage
    BY <1>4, AnthropicKinds DEF ChatTranslators
  <2>2. u = [t EXCEPT !.started = x, !.usage = us]
    BY <1>3, <1>4, <2>1 DEF Chat!Pushed, Chat!Merged
  <2>3. /\ u \in ChatTranslators /\ u.usage = us /\ u.started = x
        /\ ~u.finished /\ u.open = t.open /\ u.tool = t.tool
    BY <2>2 DEF ChatTranslators
  <2> QED BY <1>2, <1>4, <2>1, <2>3
<1>5. CASE e.type = "block_start"
  <2>1. PICK kind \in {"text", "thinking", "tool_use"} : kind = e.kind
    BY <1>5, AnthropicKinds
  <2>2. PICK i \in Int : i = IF e.kind = "tool_use" THEN t.tool + 1 ELSE t.tool
    BY DEF ChatTranslators
  <2>3. u = [t EXCEPT !.started = x, !.open = kind, !.tool = i]
    BY <1>3, <1>5, <2>1, <2>2 DEF Chat!Pushed
  <2>4. /\ u \in ChatTranslators /\ u.usage = t.usage /\ u.started = x
        /\ ~u.finished /\ u.open = kind /\ u.tool = i
    BY <2>3 DEF ChatTranslators
  <2> QED BY <1>2, <1>5, <2>1, <2>2, <2>4
<1>6. CASE e.type = "block_stop"
  <2>1. u = [t EXCEPT !.open = "none"]
    BY <1>6 DEF Chat!Pushed
  <2>2. /\ u \in ChatTranslators /\ u.usage = t.usage /\ u.started = t.started
        /\ ~u.finished /\ u.open = "none" /\ u.tool = t.tool
    BY <2>1 DEF ChatTranslators
  <2>3. ~Forwarded(t, e)
    BY <1>6 DEF Forwarded
  <2> QED BY <1>6, <2>2, <2>3
<1>7. CASE e.type = "message_stop"
  <2>1. u = [t EXCEPT !.started = TRUE, !.finished = TRUE]
    BY <1>7 DEF Chat!Pushed
  <2>2. /\ u \in ChatTranslators /\ u.usage = t.usage /\ u.started
        /\ u.finished /\ u.open = t.open /\ u.tool = t.tool
    BY <2>1 DEF ChatTranslators
  <2>3. Forwarded(t, e)
    BY <1>7 DEF Forwarded
  <2> QED BY <1>7, <2>2, <2>3
<1>8. CASE e.type \in {"text_delta", "thinking_delta", "signature_delta", "json_delta", "error"}
  <2>1. u = [t EXCEPT !.started = x]
    BY <1>3, <1>8 DEF Chat!Pushed
  <2>2. /\ u \in ChatTranslators /\ u.usage = t.usage /\ u.started = x
        /\ ~u.finished /\ u.open = t.open /\ u.tool = t.tool
    BY <2>1 DEF ChatTranslators
  <2> QED BY <1>2, <1>8, <2>2
<1> QED BY <1>4, <1>5, <1>6, <1>7, <1>8, AnthropicKinds

LEMMA ToolsAppend ==
  ASSUME NEW q \in Seq(Part), NEW p \in Part
  PROVE  AllTools(Append(q, p)) <=> AllTools(q) /\ p.kind = "tool_use"
<1>1. PICK n \in Nat : n = Len(q)
  OBVIOUS
<1>2. PICK m : m = Append(q, p)
  OBVIOUS
<1>3. DOMAIN m = 1..(n + 1) /\ m[n + 1] = p /\ (\A k \in 1..n : m[k] = q[k]) /\ DOMAIN q = 1..n
  BY <1>1, <1>2
<1>4. \A k \in 1..(n + 1) : k = n + 1 \/ k \in 1..n
  BY <1>1
<1>5. n + 1 \in 1..(n + 1) /\ \A k \in 1..n : k \in 1..(n + 1)
  BY <1>1
<1>6. AllTools(m) <=> AllTools(q) /\ p.kind = "tool_use"
  BY <1>3, <1>4, <1>5 DEF AllTools
<1> QED BY <1>2, <1>6

LEMMA ChatTerminal ==
  ASSUME NEW t, NEW a, ChatAgrees(t, a), ~t.finished, NEW cap, NEW allowed,
         Fits("chat", a, cap, allowed), Matches("chat", a, cap),
         NEW u, u \in ChatTranslators, u.started, u.finished, u.open = t.open, u.tool = t.tool
  PROVE  Arrives("chat", a, Chat!Terminal(t), u, cap, allowed)
<1> DEFINE s == "chat"
<1>1. t \in ChatTranslators /\ InStep(t, a) /\ s \in Translated
  BY DEF ChatAgrees, Translated
<1>2. a.stage \in {"before", "open"} /\ a.open = "none"
  BY <1>1, FitsPlace DEF InStep, Stages, Sound
<1>3. PICK m : m = AllOpen(a)
  OBVIOUS
<1>4. Leads(s, a, OpeningAt(s, a), m, cap, allowed)
  BY <1>1, <1>2, <1>3, OpeningLeads
<1>5. m.stage = "open" /\ m.open = "none" /\ m.parts = a.parts /\ m.text = a.text /\ m.status = a.status
  BY <1>2, <1>3 DEF AllOpen, Place
<1>6. PICK b : b = Place("done", "none", m.parts, m.text, m.status)
  OBVIOUS
<1>7. b.stage = "done" /\ b.open = "none" /\ b.parts = a.parts /\ b.text = a.text
  BY <1>5, <1>6 DEF Place
<1>8. Fits(s, m, cap, allowed)
  BY <1>4, LeadsEnds
<1>9. Fits(s, b, cap, allowed)
  <2>1. "done" \in Stages /\ m.status \in Statuses /\ m.status \in allowed
    BY <1>8, FitsPlace DEF Stages
  <2> QED BY <1>6, <1>8, <2>1, FitsMoved
<1>10. PICK ev : ev = [type |-> "finish", usage |-> t.usage]
  OBVIOUS
<1>11. Turns(m, "open", "done", b)
  BY <1>5, <1>6 DEF Turns
<1>12. ChatMoves(m, ev, b)
  BY <1>10, <1>11 DEF ChatMoves
<1>13. Follows(s, m, ev, b)
  BY <1>1, <1>12, MovesBy
<1>14. Leads(s, m, <<ev>>, b, cap, allowed)
  BY <1>8, <1>9, <1>13, LeadsOne
<1>15. Chat!Terminal(t) = OpeningAt(s, a) \o <<ev>>
  BY <1>1, <1>10 DEF Chat!Terminal, Chat!Opening, OpeningAt, OpenEvent, InStep
<1>16. Leads(s, a, Chat!Terminal(t), b, cap, allowed)
  BY <1>4, <1>14, <1>15, LeadsThen
<1>17. ChatAgrees(u, b)
  BY <1>7 DEF ChatAgrees, InStep
<1>18. Matches(s, b, cap)
  BY <1>7 DEF Matches, Nested
<1> QED BY <1>1, <1>16, <1>17, <1>18, ArrivesBy

LEMMA ChatEnds ==
  ASSUME NEW t, NEW a, ChatAgrees(t, a), ~t.finished, NEW cap, NEW allowed,
         Fits("chat", a, cap, allowed), Matches("chat", a, cap),
         NEW u, u = Chat!Ended(t)
  PROVE  /\ u.finished /\ u.usage = t.usage
         /\ Arrives("chat", a, Chat!Ending(t), u, cap, allowed)
<1>1. u = [t EXCEPT !.started = TRUE, !.finished = TRUE] /\ Chat!Ending(t) = Chat!Terminal(t)
  BY DEF Chat!Ended, Chat!Ending
<1>2. t \in ChatTranslators
  BY DEF ChatAgrees
<1>3. /\ u \in ChatTranslators /\ u.usage = t.usage /\ u.started
      /\ u.finished /\ u.open = t.open /\ u.tool = t.tool
  BY <1>1, <1>2 DEF ChatTranslators
<1> QED BY <1>1, <1>3, ChatTerminal

(* What a chat client has after the opening.                               *)
LEMMA ChatOpened ==
  ASSUME NEW t, NEW a, ChatAgrees(t, a), ~t.finished, NEW cap, NEW allowed, Fits("chat", a, cap, allowed),
         NEW m, m = AllOpen(a)
  PROVE  /\ Chat!Opening(t) = OpeningAt("chat", a)
         /\ Leads("chat", a, Chat!Opening(t), m, cap, allowed)
         /\ Fits("chat", m, cap, allowed)
         /\ m.stage = "open" /\ m.open = "none" /\ m.parts = a.parts /\ m.text = a.text /\ m.status = a.status
<1>1. InStep(t, a) /\ "chat" \in Translated
  BY DEF ChatAgrees, Translated
<1>2. a.stage \in {"before", "open"} /\ a.open = "none"
  BY <1>1, FitsPlace DEF InStep, Stages, Sound
<1>3. Chat!Opening(t) = OpeningAt("chat", a)
  BY <1>1 DEF Chat!Opening, OpeningAt, OpenEvent, InStep
<1>4. Leads("chat", a, OpeningAt("chat", a), m, cap, allowed)
  BY <1>1, <1>2, OpeningLeads
<1>5. m.stage = "open" /\ m.open = "none" /\ m.parts = a.parts /\ m.text = a.text /\ m.status = a.status
  BY <1>2 DEF AllOpen, Place
<1>6. Fits("chat", m, cap, allowed)
  BY <1>4, LeadsEnds
<1> QED BY <1>3, <1>4, <1>5, <1>6

LEMMA ChatText ==
  ASSUME NEW m, NEW cap, NEW allowed, Fits("chat", m, cap, allowed), m.stage = "open", cap.text > 0,
         NEW b, b = Place("open", m.open, m.parts, TRUE, m.status)
  PROVE  Leads("chat", m, <<[type |-> "text"]>>, b, cap, allowed)
<1>1. "chat" \in Translated /\ m.open = "none" /\ "open" \in Stages
  BY FitsPlace DEF Translated, Sound, Stages
<1>2. b.stage = "open" /\ b.open = "none" /\ b.parts = m.parts /\ b.text = TRUE /\ b.status = m.status
  BY <1>1 DEF Place
<1>3. b \in Places
  BY <1>1, FitsPlace, PlaceIs
<1>4. Fits("chat", b, cap, allowed)
  BY <1>2, <1>3 DEF Fits, Sound
<1>5. PICK ev : ev = [type |-> "text"]
  OBVIOUS
<1>6. ChatMoves(m, ev, b)
  BY <1>5 DEF ChatMoves
<1>7. Follows("chat", m, ev, b)
  BY <1>1, <1>6, MovesBy
<1>8. Leads("chat", m, <<ev>>, b, cap, allowed)
  BY <1>4, <1>7, LeadsOne
<1> QED BY <1>5, <1>8

LEMMA ChatCall ==
  ASSUME NEW m, NEW cap, NEW allowed, Fits("chat", m, cap, allowed), m.stage = "open",
         NEW call \in Int,
         NEW b, b = Place("open", "none", Append(m.parts, NewPart("tool_use", call)), m.text, m.status),
         Told(CallsOf(b.parts), cap.calls), NEW i, i = Len(m.parts)
  PROVE  Leads("chat", m, <<[type |-> "tool_call_start", index |-> i, call |-> call]>>, b, cap, allowed)
<1>1. "chat" \in Translated /\ m.open = "none" /\ "tool_use" \in Kinds
  BY FitsPlace DEF Translated, Sound, Kinds
<1>2. Fits("chat", b, cap, allowed)
  BY <1>1, FitsNew
<1>3. PICK ev : ev = [type |-> "tool_call_start", index |-> i, call |-> call]
  OBVIOUS
<1>4. Begins(m, "tool_use", call, "none", b)
  BY <1>1 DEF Begins
<1>5. ChatMoves(m, ev, b)
  BY <1>3, <1>4 DEF ChatMoves
<1>6. Follows("chat", m, ev, b)
  BY <1>1, <1>5, MovesBy
<1>7. Leads("chat", m, <<ev>>, b, cap, allowed)
  BY <1>2, <1>6, LeadsOne
<1> QED BY <1>3, <1>7

LEMMA ChatArgs ==
  ASSUME NEW m, NEW cap, NEW allowed, Fits("chat", m, cap, allowed), m.stage = "open",
         NEW q \in Seq(Part), NEW p \in Part, m.parts = Append(q, p), p.kind = "tool_use", NEW f \in Int,
         Told(Append(CallsOf(q), Longer(p, f)), cap.calls),
         NEW b, b = Place("open", m.open, Append(q, Longer(p, f)), m.text, m.status),
         NEW i, i = Len(m.parts) - 1
  PROVE  Leads("chat", m, <<[type |-> "tool_args", index |-> i, of |-> f]>>, b, cap, allowed)
<1>1. "chat" \in Translated
  BY DEF Translated
<1>2. PICK y \in Part : y = Longer(p, f) /\ y.kind = "tool_use"
  BY PartFields
<1>3. y \in CallParts
  BY <1>2 DEF CallParts
<1>4. CallsOf(Append(q, y)) = Append(CallsOf(q), y)
  BY <1>3, CallsNext
<1>5. b.parts = Append(q, y)
  BY <1>2 DEF Place
<1>6. Told(CallsOf(b.parts), cap.calls)
  BY <1>2, <1>4, <1>5
<1>7. m.text \in BOOLEAN /\ (m.text => cap.text > 0)
  BY FitsPlace DEF Fits
<1>8. "chat" = "messages" => f \in {NoCall, p.call}
  OBVIOUS
<1>9. Fits("chat", b, cap, allowed)
  BY <1>6, <1>7, <1>8, FitsLonger
<1>10. Adds(m, "tool_use", f, b)
  <2>1. b = Place("open", m.open, Append(q, Longer(p, f)),
                  m.text \/ "tool_use" \in {"text", "message"}, m.status)
    <3>1. m.text = (m.text \/ "tool_use" \in {"text", "message"})
      BY <1>7
    <3> QED BY <3>1 DEF Place
  <2> QED BY <2>1 DEF Adds
<1>11. PICK ev : ev = [type |-> "tool_args", index |-> i, of |-> f]
  OBVIOUS
<1>12. ChatMoves(m, ev, b)
  BY <1>10, <1>11 DEF ChatMoves
<1>13. Follows("chat", m, ev, b)
  BY <1>1, <1>12, MovesBy
<1>14. Leads("chat", m, <<ev>>, b, cap, allowed)
  BY <1>9, <1>13, LeadsOne
<1> QED BY <1>11, <1>14

LEMMA ChatPush ==
  ASSUME NEW t, NEW a, ChatAgrees(t, a), ~t.finished,
         NEW cap \in Accumulators, NEW allowed, Fits("chat", a, cap, allowed),
         Matches("chat", a, cap),
         NEW e \in KnownFrames, NEW cap2, Collects(cap, e, cap2)
  PROVE  Arrives("chat", a, Chat!Implied(t, e), Chat!Pushed(t, e), cap2, allowed)
<1> DEFINE s == "chat"
<1>1. /\ t \in ChatTranslators /\ InStep(t, a) /\ s \in Translated /\ s \notin Nested
      /\ t.tool = Len(a.parts) - 1 /\ AllTools(a.parts)
      /\ t.open = "tool_use" => a.stage # "before" /\ a.parts # <<>>
  BY DEF ChatAgrees, Nested, Translated
<1>2. a.stage \in {"before", "open"} /\ a.open = "none"
  BY <1>1, FitsPlace DEF InStep, Stages, Sound
<1>3. PICK u : u = Chat!Pushed(t, e)
  OBVIOUS
<1>4. /\ u \in ChatTranslators
      /\ u.started <=> t.started \/ Forwarded(t, e)
      /\ u.finished <=> e.type = "message_stop"
      /\ u.open = IF e.type = "block_start" THEN e.kind
                  ELSE IF e.type = "block_stop" THEN "none" ELSE t.open
      /\ u.tool = IF e.type = "block_start" /\ e.kind = "tool_use" THEN t.tool + 1 ELSE t.tool
  BY <1>1, <1>3, ChatPushed
<1>5. e \in AllEvents /\ Fits(s, a, cap2, allowed)
  BY AnthropicKinds, FitsGrows
<1>6. PICK m : m = AllOpen(a)
  OBVIOUS
<1>7. /\ Leads(s, a, Chat!Opening(t), m, cap2, allowed) /\ Fits(s, m, cap2, allowed)
      /\ m.stage = "open" /\ m.open = "none" /\ m.parts = a.parts /\ m.text = a.text /\ m.status = a.status
  BY <1>5, <1>6, ChatOpened
<1>8. PICK parts \in Seq(Part) : parts = a.parts
  BY FitsPlace
<1>9. CASE e.type = "message_start"
  <2>1. Matches(s, a, cap2)
    BY <1>9, AnthropicKinds, NestedSkip, <1>1
  <2>2. Chat!Implied(t, e) = Chat!Opening(t)
    BY <1>9, ChatImplied
  <2>3. Forwarded(t, e)
    BY <1>9 DEF Forwarded
  <2>4. ChatAgrees(u, m)
    BY <1>1, <1>4, <1>7, <1>9, <2>3 DEF ChatAgrees, InStep
  <2>5. Matches(s, m, cap2)
    BY <1>7, <2>1 DEF Matches
  <2> QED BY <1>1, <1>3, <1>7, <2>2, <2>4, <2>5, ArrivesBy
<1>10. CASE e.type = "block_start" /\ e.kind = "tool_use"
  <2>1. PICK f \in Int : f = e.index
    BY <1>10, AnthropicKinds
  <2>2. /\ Told(CallsOf(Append(a.parts, NewPart("tool_use", f))), cap2.calls)
        /\ Len(CallsOf(Append(a.parts, NewPart("tool_use", f)))) = Len(cap2.calls)
    BY <1>5, <1>10, <2>1, AnthropicKinds, BothStart
  <2>3. PICK b : b = Place("open", "none", Append(m.parts, NewPart("tool_use", f)), m.text, m.status)
    OBVIOUS
  <2>4. b.stage = "open" /\ b.parts = Append(a.parts, NewPart("tool_use", f))
    BY <1>7, <2>3 DEF Place
  <2>5. t.tool + 1 = Len(m.parts)
    <3>1. Len(parts) \in Nat
      OBVIOUS
    <3> QED BY <1>1, <1>7, <1>8, <3>1
  <2>6. Told(CallsOf(b.parts), cap2.calls)
    BY <2>2, <2>4
  <2>7. Leads(s, m, <<[type |-> "tool_call_start", index |-> t.tool + 1, call |-> f]>>, b, cap2, allowed)
    BY <1>7, <2>3, <2>5, <2>6, ChatCall
  <2>8. Chat!Implied(t, e)
          = Chat!Opening(t) \o <<[type |-> "tool_call_start", index |-> t.tool + 1, call |-> f]>>
    BY <1>10, <2>1, ChatImplied
  <2>9. Leads(s, a, Chat!Implied(t, e), b, cap2, allowed)
    BY <1>7, <2>7, <2>8, LeadsThen
  <2>10. PICK p \in Part : p = NewPart("tool_use", f) /\ p.kind = "tool_use"
    BY NewPartFields DEF Kinds
  <2>11. b.parts = Append(parts, p)
    BY <1>8, <2>4, <2>10
  <2>12. AllTools(b.parts) /\ Len(b.parts) = Len(parts) + 1 /\ b.parts # <<>>
    BY <1>1, <1>8, <2>10, <2>11, ToolsAppend
  <2>13. Forwarded(t, e)
    BY <1>10 DEF Forwarded
  <2>14. ChatAgrees(u, b)
    <3>1. u.tool = Len(b.parts) - 1
      <4>1. PICK n \in Nat : n = Len(parts)
        OBVIOUS
      <4>2. t.tool = n - 1 /\ u.tool = t.tool + 1
        BY <1>1, <1>4, <1>8, <1>10, <4>1
      <4> QED BY <2>12, <4>1, <4>2
    <3> QED BY <1>4, <1>10, <2>4, <2>12, <2>13, <3>1 DEF ChatAgrees, InStep
  <2>15. Matches(s, b, cap2)
    BY <1>1, <2>2, <2>4 DEF Matches
  <2> QED BY <1>1, <1>3, <2>9, <2>14, <2>15, ArrivesBy
<1>11. CASE e.type = "text_delta" /\ t.open # "thinking"
  <2>1. Matches(s, a, cap2)
    BY <1>1, <1>11, AnthropicKinds, NestedSkip
  <2>2. cap2.text > 0
    BY <1>11, AnthropicKinds DEF Collects
  <2>3. PICK b : b = Place("open", m.open, m.parts, TRUE, m.status)
    OBVIOUS
  <2>4. Leads(s, m, <<[type |-> "text"]>>, b, cap2, allowed)
    BY <1>7, <2>2, <2>3, ChatText
  <2>5. Chat!Implied(t, e) = Chat!Opening(t) \o <<[type |-> "text"]>>
    BY <1>11, ChatImplied
  <2>6. Leads(s, a, Chat!Implied(t, e), b, cap2, allowed)
    BY <1>7, <2>4, <2>5, LeadsThen
  <2>7. b.stage = "open" /\ b.parts = a.parts
    BY <1>7, <2>3 DEF Place
  <2>8. Forwarded(t, e)
    BY <1>11 DEF Forwarded
  <2>9. ChatAgrees(u, b)
    BY <1>1, <1>4, <1>11, <2>7, <2>8 DEF ChatAgrees, InStep
  <2>10. Matches(s, b, cap2)
    BY <1>1, <2>1, <2>7 DEF Matches
  <2> QED BY <1>1, <1>3, <2>6, <2>9, <2>10, ArrivesBy
<1>12. CASE e.type = "json_delta" /\ t.open = "tool_use"
  <2>1. PICK q \in Seq(Part), p \in Part : parts = Append(q, p)
    <3>1. parts # <<>>
      BY <1>1, <1>8, <1>12
    <3>2. \E q \in Seq(Part), p \in Part : parts = Append(q, p)
      BY <3>1, LastPart
    <3> QED BY <3>2
  <2>2. AllTools(q) /\ p.kind = "tool_use"
    BY <1>1, <1>8, <2>1, ToolsAppend
  <2>3. p \in CallParts
    BY <2>2 DEF CallParts
  <2>4. PICK f \in Int : f = e.index
    BY <1>12, AnthropicKinds
  <2>5. /\ Told(Append(CallsOf(q), Longer(p, f)), cap2.calls)
        /\ Len(CallsOf(Append(q, Longer(p, f)))) = Len(cap2.calls)
    <3>1. a.parts = Append(q, p)
      BY <1>8, <2>1
    <3>2. IsArgs(e)
      BY <1>12, AnthropicKinds
    <3> QED BY <1>5, <2>3, <2>4, <3>1, <3>2, BothArgs
  <2>6. PICK b : b = Place("open", m.open, Append(q, Longer(p, f)), m.text, m.status)
    OBVIOUS
  <2>7. b.stage = "open" /\ b.parts = Append(q, Longer(p, f))
    BY <2>6 DEF Place
  <2>8. m.parts = Append(q, p) /\ t.tool = Len(m.parts) - 1
    BY <1>1, <1>7, <1>8, <2>1
  <2>9. Leads(s, m, <<[type |-> "tool_args", index |-> t.tool, of |-> f]>>, b, cap2, allowed)
    BY <1>7, <2>2, <2>5, <2>6, <2>8, ChatArgs
  <2>10. Chat!Implied(t, e) = Chat!Opening(t) \o <<[type |-> "tool_args", index |-> t.tool, of |-> f]>>
    BY <1>12, <2>4, ChatImplied
  <2>11. Leads(s, a, Chat!Implied(t, e), b, cap2, allowed)
    BY <1>7, <2>9, <2>10, LeadsThen
  <2>12. PICK y \in Part : y = Longer(p, f) /\ y.kind = "tool_use"
    BY <2>2, PartFields
  <2>13. AllTools(b.parts) /\ Len(b.parts) = Len(a.parts) /\ b.parts # <<>>
    <3>1. b.parts = Append(q, y)
      BY <2>7, <2>12
    <3>2. Len(Append(q, y)) = Len(Append(q, p)) /\ Append(q, y) # <<>>
      BY AppendParts
    <3> QED BY <1>8, <2>1, <2>2, <2>12, <3>1, <3>2, ToolsAppend
  <2>14. Forwarded(t, e)
    BY <1>12 DEF Forwarded
  <2>15. ChatAgrees(u, b)
    BY <1>1, <1>4, <1>12, <2>7, <2>13, <2>14 DEF ChatAgrees, InStep
  <2>16. Matches(s, b, cap2)
    BY <1>1, <2>5, <2>7 DEF Matches
  <2> QED BY <1>1, <1>3, <2>11, <2>15, <2>16, ArrivesBy
<1>13. CASE e.type = "message_stop"
  <2>1. Matches(s, a, cap2)
    BY <1>1, <1>13, AnthropicKinds, NestedSkip
  <2>2. Chat!Implied(t, e) = Chat!Terminal(t)
    BY <1>13, ChatImplied
  <2>3. Forwarded(t, e)
    BY <1>13 DEF Forwarded
  <2>4. u \in ChatTranslators /\ u.started /\ u.finished /\ u.open = t.open /\ u.tool = t.tool
    BY <1>4, <1>13, <2>3
  <2>5. Arrives(s, a, Chat!Terminal(t), u, cap2, allowed)
    BY <1>5, <2>1, <2>4, ChatTerminal
  <2> QED BY <1>3, <2>2, <2>5
<1>14. CASE ~Forwarded(t, e)
  <2>0. e.type # "message_start" /\ e.type # "message_stop" /\ ~(e.type = "block_start" /\ e.kind = "tool_use")
    BY <1>14 DEF Forwarded
  <2>1. Matches(s, a, cap2)
    BY <1>1, <2>0, AnthropicKinds, NestedSkip
  <2>2. Leads(s, a, <<>>, a, cap2, allowed)
    BY <1>5, LeadsNothing
  <2>3. Chat!Implied(t, e) = <<>>
    BY <1>14, ChatImplied
  <2>4. u.open = "tool_use" => t.open = "tool_use"
    BY <1>4, <2>0
  <2>5. ChatAgrees(u, a)
    BY <1>1, <1>4, <1>14, <2>0, <2>4 DEF ChatAgrees, InStep
  <2> QED BY <1>1, <1>3, <2>1, <2>2, <2>3, <2>5, ArrivesBy
<1> QED BY <1>9, <1>10, <1>11, <1>12, <1>13, <1>14 DEF Forwarded

-----------------------------------------------------------------------------
(* What a frame says                                                       *)

LEMMA SeqInduct ==
  ASSUME NEW R, NEW G, <<>> \in G, \A s \in Seq(R), x \in R : s \in G => Append(s, x) \in G
  PROVE  Seq(R) \subseteq G
<1>1. SUFFICES ASSUME NEW s \in Seq(R) PROVE s \in G
  OBVIOUS
<1>2. PICK n \in Nat : n = Len(s)
  OBVIOUS
<1> DEFINE H == {k \in 0..n : SubSeq(s, 1, k) \in G}
<1>3. 0 \in H
  <2>1. PICK q : q = SubSeq(s, 1, 0)
    OBVIOUS
  <2>2. q \in Seq(R) /\ Len(q) = 0
    BY <2>1
  <2>3. q = <<>>
    BY <2>2, EmptySeq
  <2>4. q \in G
    <3>1. PICK z : z = <<>> /\ z \in G
      OBVIOUS
    <3> QED BY <2>3, <3>1
  <2>5. 0 \in 0..n
    OBVIOUS
  <2> QED BY <2>1, <2>4, <2>5
<1>4. ASSUME NEW k \in 1..n, k - 1 \in H PROVE k \in H
  <2>1. PICK q : q = SubSeq(s, 1, k - 1)
    OBVIOUS
  <2>2. PICK r : r = SubSeq(s, 1, k)
    OBVIOUS
  <2>3. q \in Seq(R) /\ Len(q) = k - 1 /\ \A i \in 1..(k - 1) : q[i] = s[i]
    BY <1>2, <2>1
  <2>4. r \in Seq(R) /\ Len(r) = k /\ \A i \in 1..k : r[i] = s[i]
    BY <1>2, <2>2
  <2>5. PICK x \in R : x = s[k]
    BY <1>2
  <2>6. PICK t : t = Append(q, x)
    OBVIOUS
  <2>7. t \in Seq(R) /\ Len(t) = k /\ t[k] = x /\ \A i \in 1..(k - 1) : t[i] = q[i]
    BY <2>3, <2>6
  <2>8. \A i \in 1..k : i = k \/ i \in 1..(k - 1)
    OBVIOUS
  <2>9. \A i \in 1..Len(t) : t[i] = r[i]
    BY <2>3, <2>4, <2>5, <2>7, <2>8
  <2>10. t = r
    BY <2>4, <2>7, <2>9, SeqEqual
  <2>11. q \in G
    BY <1>4, <2>1
  <2>12. r \in G
    BY <2>3, <2>5, <2>6, <2>10, <2>11
  <2> QED BY <2>2, <2>12
<1>5. n \in H
  <2>0. n \in 0..n
    OBVIOUS
  <2> HIDE DEF H
  <2>1. \A k \in 1..n : k - 1 \in H => k \in H
    BY <1>4
  <2>2. \A k \in 0..n : k \in H
    BY <1>3, <2>1, UpTo
  <2> QED BY <2>0, <2>2
<1>6. PICK w : w = SubSeq(s, 1, n)
  OBVIOUS
<1>7. w \in Seq(R) /\ Len(w) = n /\ \A i \in 1..n : w[i] = s[i]
  BY <1>2, <1>6
<1>8. w = s
  BY <1>2, <1>7, SeqEqual
<1> QED BY <1>5, <1>6, <1>8

LEMMA MapIn ==
  ASSUME NEW R, NEW Q, NEW D \in [R -> Q], NEW s \in Seq(R)
  PROVE  [k \in DOMAIN s |-> D[s[k]]] \in Seq(Q)
<1>1. PICK n \in Nat : n = Len(s)
  OBVIOUS
<1>2. PICK m : m = [k \in DOMAIN s |-> D[s[k]]]
  OBVIOUS
<1>3. DOMAIN s = 1..n /\ \A k \in 1..n : s[k] \in R
  BY <1>1
<1>4. m \in Seq(Q)
  BY <1>1, <1>2, <1>3
<1> QED BY <1>2, <1>4

LEMMA MapAppend ==
  ASSUME NEW R, NEW Q, NEW D \in [R -> Q], NEW s \in Seq(R), NEW x \in R
  PROVE  [k \in DOMAIN Append(s, x) |-> D[Append(s, x)[k]]] = Append([k \in DOMAIN s |-> D[s[k]]], D[x])
<1>1. PICK n \in Nat : n = Len(s)
  OBVIOUS
<1>2. PICK m : m = [k \in DOMAIN s |-> D[s[k]]]
  OBVIOUS
<1>3. PICK t \in Seq(R) : t = Append(s, x)
  BY AppendIn
<1>4. DOMAIN s = 1..n /\ \A k \in 1..n : s[k] \in R
  BY <1>1
<1>5. DOMAIN t = 1..(n + 1) /\ Len(t) = n + 1 /\ t[n + 1] = x /\ \A k \in 1..n : t[k] = s[k]
  BY <1>1, <1>3
<1>6. m \in Seq(Q) /\ Len(m) = n /\ \A k \in 1..n : m[k] = D[s[k]]
  BY <1>1, <1>2, <1>4
<1>7. PICK u : u = [k \in DOMAIN t |-> D[t[k]]]
  OBVIOUS
<1>8. \A k \in 1..(n + 1) : t[k] \in R
  BY <1>5
<1>9. u \in Seq(Q) /\ Len(u) = n + 1 /\ \A k \in 1..(n + 1) : u[k] = D[t[k]]
  BY <1>5, <1>7, <1>8
<1>10. PICK v : v = Append(m, D[x])
  OBVIOUS
<1>11. v \in Seq(Q) /\ Len(v) = n + 1 /\ v[n + 1] = D[x] /\ \A k \in 1..n : v[k] = m[k]
  BY <1>6, <1>10
<1>12. \A k \in 1..(n + 1) : k = n + 1 \/ k \in 1..n
  OBVIOUS
<1>13. \A k \in 1..Len(u) : u[k] = v[k]
  BY <1>5, <1>6, <1>9, <1>11, <1>12
<1>14. u = v
  BY <1>9, <1>11, <1>13, SeqEqual
<1> QED BY <1>2, <1>3, <1>6, <1>7, <1>10, <1>14

LEMMA MapEmpty ==
  ASSUME NEW D
  PROVE  [k \in DOMAIN <<>> |-> D[<<>>[k]]] = <<>>
<1>1. PICK e : e = <<>>
  OBVIOUS
<1>2. PICK m : m = [k \in DOMAIN e |-> D[e[k]]]
  OBVIOUS
<1>3. DOMAIN e = 1..0 /\ 1..0 = {}
  BY <1>1
<1>4. m \in Seq({}) /\ Len(m) = 0
  BY <1>2, <1>3
<1>5. m = <<>>
  BY <1>4, EmptySeq
<1> QED BY <1>1, <1>2, <1>5

(* Whether there is an event of the type.                                  *)
Has(events, type) == \E k \in DOMAIN events : events[k].type = type

LEMMA HasConcat ==
  ASSUME NEW R, NEW s \in Seq(R), NEW t \in Seq(R), NEW type
  PROVE  s \o t \in Seq(R) /\ (Has(s \o t, type) <=> Has(s, type) \/ Has(t, type))
<1>1. PICK m \in Nat, n \in Nat : m = Len(s) /\ n = Len(t)
  OBVIOUS
<1>2. PICK w : w = s \o t
  OBVIOUS
<1>3. w \in Seq(R) /\ Len(w) = m + n /\ \A k \in 1..(m + n) : w[k] = IF k <= m THEN s[k] ELSE t[k - m]
  BY <1>1, <1>2, ConcatProperties
<1>4. DOMAIN w = 1..(m + n) /\ DOMAIN s = 1..m /\ DOMAIN t = 1..n
  BY <1>1, <1>3
<1>5. ASSUME NEW k \in 1..(m + n), w[k].type = type PROVE Has(s, type) \/ Has(t, type)
  <2>1. CASE k <= m
    <3>1. k \in 1..m /\ w[k] = s[k]
      BY <1>3, <2>1
    <3> QED BY <1>4, <1>5, <3>1 DEF Has
  <2>2. CASE ~(k <= m)
    <3>1. k - m \in 1..n
      BY <2>2
    <3> QED BY <1>3, <1>4, <1>5, <2>2, <3>1 DEF Has
  <2> QED BY <2>1, <2>2
<1>6. ASSUME NEW k \in 1..m, s[k].type = type PROVE Has(w, type)
  <2>1. k \in 1..(m + n) /\ w[k] = s[k]
    BY <1>3
  <2> QED BY <1>4, <1>6, <2>1 DEF Has
<1>7. ASSUME NEW k \in 1..n, t[k].type = type PROVE Has(w, type)
  <2>1. k + m \in 1..(m + n) /\ ~(k + m <= m) /\ (k + m) - m = k
    OBVIOUS
  <2>2. w[k + m] = t[k]
    BY <1>3, <2>1
  <2> QED BY <1>4, <1>7, <2>1, <2>2 DEF Has
<1>8. Has(w, type) <=> Has(s, type) \/ Has(t, type)
  BY <1>4, <1>5, <1>6, <1>7 DEF Has
<1> QED BY <1>2, <1>3, <1>8

LEMMA HasNothing ==
  ASSUME NEW type
  PROVE  ~Has(<<>>, type)
<1>1. PICK e : e = <<>>
  OBVIOUS
<1>2. DOMAIN e = {}
  BY <1>1
<1> QED BY <1>1, <1>2 DEF Has

LEMMA HasOne ==
  ASSUME NEW ev, NEW type
  PROVE  Has(<<ev>>, type) <=> ev.type = type
<1>1. PICK e : e = <<ev>>
  OBVIOUS
<1>2. DOMAIN e = 1..1 /\ e[1] = ev /\ 1 \in 1..1 /\ \A k \in 1..1 : k = 1
  BY <1>1
<1> QED BY <1>1, <1>2 DEF Has

(* The calls that events start.                                            *)
StartEvents == {e \in ChatEvents : e.type = "tool_call_start"}

Starts(events) == Keep(events, StartEvents)

SameIndex(s, t) == Len(s) = Len(t) /\ \A k \in 1..Len(s) : s[k].index = t[k].index

LEMMA StartsOne ==
  ASSUME NEW ev \in ChatEvents
  PROVE  /\ ev.type = "tool_call_start" => Starts(<<ev>>) = <<ev>>
         /\ ev.type # "tool_call_start" => Starts(<<ev>>) = <<>>
<1>1. PICK e \in Seq(ChatEvents) : e = <<>> /\ Append(e, ev) = <<ev>>
  <2>1. PICK e : e = <<>>
    OBVIOUS
  <2>2. e \in Seq(ChatEvents) /\ Len(e) = 0
    BY <2>1
  <2>3. PICK u : u = Append(e, ev)
    OBVIOUS
  <2>4. PICK w : w = <<ev>>
    OBVIOUS
  <2>5. u \in Seq(ChatEvents) /\ Len(u) = 1 /\ u[1] = ev
    BY <2>2, <2>3
  <2>6. w \in Seq(ChatEvents) /\ Len(w) = 1 /\ w[1] = ev
    BY <2>4
  <2>7. \A k \in 1..Len(u) : u[k] = w[k]
    BY <2>5, <2>6
  <2>8. u = w
    BY <2>5, <2>6, <2>7, SeqEqual
  <2> QED BY <2>1, <2>2, <2>3, <2>4, <2>8
<1>2. Keep(e, StartEvents) = e
  BY <1>1, KeepEmpty
<1>3. Keep(Append(e, ev), StartEvents) = IF ev \in StartEvents THEN Append(e, ev) ELSE e
  <2>1. e \in Seq(ChatEvents)
    BY <1>1
  <2>2. Keep(Append(e, ev), StartEvents)
          = IF ev \in StartEvents THEN Append(Keep(e, StartEvents), ev) ELSE Keep(e, StartEvents)
    BY <2>1, KeepAppend
  <2> QED BY <1>2, <2>2
<1> QED BY <1>1, <1>3 DEF Starts, StartEvents

LEMMA StartsConcat ==
  ASSUME NEW s \in Seq(ChatEvents), NEW t \in Seq(ChatEvents)
  PROVE  /\ Starts(s \o t) = Starts(s) \o Starts(t)
         /\ Starts(s) \in Seq(ChatEvents)
<1>1. Keep(s \o t, StartEvents) = Keep(s, StartEvents) \o Keep(t, StartEvents)
  BY KeepConcat
<1>2. Keep(s, StartEvents) \in Seq(ChatEvents)
  BY KeepSays
<1> QED BY <1>1, <1>2 DEF Starts

LEMMA WhenSays ==
  ASSUME NEW cond, NEW ev \in ChatEvents, NEW type
  PROVE  /\ Upstream!When(cond, ev) \in Seq(ChatEvents)
         /\ Has(Upstream!When(cond, ev), type) <=> cond /\ ev.type = type
         /\ ~cond \/ ev.type # "tool_call_start" => Starts(Upstream!When(cond, ev)) = <<>>
         /\ cond /\ ev.type = "tool_call_start" => Starts(Upstream!When(cond, ev)) = <<ev>>
<1>1. CASE cond
  <2>1. PICK e : e = <<ev>>
    OBVIOUS
  <2>2. Upstream!When(cond, ev) = e
    BY <1>1, <2>1 DEF Upstream!When
  <2>3. e \in Seq(ChatEvents)
    BY <2>1
  <2>4. Has(e, type) <=> ev.type = type
    BY <2>1, HasOne
  <2> QED BY <1>1, <2>1, <2>2, <2>3, <2>4, StartsOne
<1>2. CASE ~cond
  <2>1. PICK e : e = <<>>
    OBVIOUS
  <2>2. Upstream!When(cond, ev) = e
    BY <1>2, <2>1 DEF Upstream!When
  <2>3. e \in Seq(ChatEvents)
    BY <2>1
  <2>4. ~Has(e, type)
    BY <2>1, HasNothing
  <2>5. Starts(e) = e
    BY <2>1, KeepEmpty DEF Starts
  <2> QED BY <1>2, <2>1, <2>2, <2>3, <2>4, <2>5
<1> QED BY <1>1, <1>2

LEMMA ConcatOne ==
  ASSUME NEW R, NEW s \in Seq(R), NEW x \in R
  PROVE  s \o <<x>> = Append(s, x)
<1>1. PICK n \in Nat : n = Len(s)
  OBVIOUS
<1>2. PICK o : o = <<x>>
  OBVIOUS
<1>3. o \in Seq(R) /\ Len(o) = 1 /\ o[1] = x
  BY <1>2
<1>4. PICK w : w = s \o o
  OBVIOUS
<1>5. w \in Seq(R) /\ Len(w) = n + 1 /\ \A k \in 1..(n + 1) : w[k] = IF k <= n THEN s[k] ELSE o[k - n]
  BY <1>1, <1>3, <1>4, ConcatProperties
<1>6. PICK u : u = Append(s, x)
  OBVIOUS
<1>7. u \in Seq(R) /\ Len(u) = n + 1 /\ u[n + 1] = x /\ \A k \in 1..n : u[k] = s[k]
  BY <1>1, <1>6
<1>8. ASSUME NEW k \in 1..(n + 1) PROVE w[k] = u[k]
  <2>1. CASE k <= n
    <3>1. k \in 1..n
      BY <2>1
    <3> QED BY <1>5, <1>7, <2>1, <3>1
  <2>2. CASE ~(k <= n)
    <3>1. k = n + 1 /\ k - n = 1
      BY <2>2
    <3>2. w[k] = o[k - n]
      BY <1>5, <2>2
    <3> QED BY <1>3, <1>7, <3>1, <3>2
  <2> QED BY <2>1, <2>2
<1>9. w = u
  BY <1>5, <1>7, <1>8, SeqEqual
<1> QED BY <1>2, <1>4, <1>6, <1>9

LEMMA SameIndexAppend ==
  ASSUME NEW R, NEW Q, NEW s \in Seq(R), NEW t \in Seq(Q), SameIndex(s, t),
         NEW x \in R, NEW y \in Q, x.index = y.index
  PROVE  SameIndex(s \o <<x>>, Append(t, y))
<1>1. PICK n \in Nat : n = Len(s)
  OBVIOUS
<1>2. PICK u : u = Append(s, x)
  OBVIOUS
<1>3. PICK v : v = Append(t, y)
  OBVIOUS
<1>0. n = Len(t)
  BY <1>1 DEF SameIndex
<1>4. Len(u) = n + 1 /\ u[n + 1] = x /\ \A k \in 1..n : u[k] = s[k]
  <2>1. Len(Append(s, x)) = n + 1 /\ Append(s, x)[n + 1] = x /\ \A k \in 1..n : Append(s, x)[k] = s[k]
    BY <1>1, AppendParts
  <2> QED BY <1>2, <2>1
<1>5. Len(v) = n + 1 /\ v[n + 1] = y /\ \A k \in 1..n : v[k] = t[k]
  <2>1. Len(Append(t, y)) = n + 1 /\ Append(t, y)[n + 1] = y /\ \A k \in 1..n : Append(t, y)[k] = t[k]
    BY <1>0, AppendParts
  <2> QED BY <1>3, <2>1
<1>6. \A k \in 1..(n + 1) : k = n + 1 \/ k \in 1..n
  OBVIOUS
<1>7. \A k \in 1..n : s[k].index = t[k].index
  BY <1>0, <1>1 DEF SameIndex
<1>8. SameIndex(u, v)
  BY <1>4, <1>5, <1>6, <1>7 DEF SameIndex
<1>9. s \o <<x>> = u
  BY <1>2, ConcatOne
<1> QED BY <1>3, <1>8, <1>9

Fragments == [index : Int, named : BOOLEAN, args : BOOLEAN]

Named == {c \in Fragments : c.named}

(* What the decoded fragments of a frame hold.                             *)
SaysCalls(d, calls) ==
  /\ d \in Seq(ChatEvents)
  /\ ~Has(d, "text_delta") /\ ~Has(d, "done") /\ ~Has(d, "finish")
  /\ SameIndex(Starts(d), Keep(calls, Named))

LEMMA DecodedCall ==
  ASSUME NEW c \in Fragments, NEW d, d = Upstream!DecodeToolCall(c)
  PROVE  /\ d \in Seq(ChatEvents)
         /\ ~Has(d, "text_delta") /\ ~Has(d, "done") /\ ~Has(d, "finish")
         /\ ~c.named => Starts(d) = <<>>
         /\ c.named => \E x \in ChatEvents : Starts(d) = <<x>> /\ x.index = c.index
<1>1. c.index \in Int /\ c.named \in BOOLEAN /\ c.args \in BOOLEAN
  BY DEF Fragments
<1>2. PICK x \in ChatEvents : x = [type |-> "tool_call_start", index |-> c.index]
  BY <1>1 DEF ChatEvents
<1>3. PICK y \in ChatEvents : y = [type |-> "tool_args_delta", index |-> c.index]
  BY <1>1 DEF ChatEvents
<1>4. PICK u : u = Upstream!When(c.named, x)
  OBVIOUS
<1>5. PICK v : v = Upstream!When(c.args, y)
  OBVIOUS
<1>6. d = u \o v
  BY <1>2, <1>3, <1>4, <1>5 DEF Upstream!DecodeToolCall
<1>7. x.type = "tool_call_start" /\ y.type = "tool_args_delta" /\ x.index = c.index
  BY <1>2, <1>3
<1>8. PICK named \in BOOLEAN, given \in BOOLEAN : named = c.named /\ given = c.args
  BY <1>1
<1>9. /\ u \in Seq(ChatEvents) /\ (\A type : Has(u, type) => type = "tool_call_start")
      /\ ~named => Starts(u) = <<>>
      /\ named => Starts(u) = <<x>>
  BY <1>4, <1>7, <1>8, WhenSays
<1>10. /\ v \in Seq(ChatEvents) /\ (\A type : Has(v, type) => type = "tool_args_delta")
       /\ Starts(v) = <<>>
  BY <1>5, <1>7, <1>8, WhenSays
<1>11. /\ d \in Seq(ChatEvents)
       /\ \A type : Has(d, type) => type \in {"tool_call_start", "tool_args_delta"}
  BY <1>6, <1>9, <1>10, HasConcat
<1>12. Starts(d) = Starts(u) \o <<>> /\ Starts(u) \in Seq(ChatEvents)
  BY <1>6, <1>9, <1>10, StartsConcat
<1>13. Starts(d) = Starts(u)
  BY <1>12, ConcatEmptySeq
<1>14. ~Has(d, "text_delta") /\ ~Has(d, "done") /\ ~Has(d, "finish")
  BY <1>11
<1> QED BY <1>7, <1>8, <1>9, <1>11, <1>13, <1>14

LEMMA DecodedCalls ==
  ASSUME NEW calls \in Seq(Fragments)
  PROVE  SaysCalls(Flat([k \in DOMAIN calls |-> Upstream!DecodeToolCall(calls[k])]), calls)
<1>1. PICK D : D = [c \in Fragments |-> Upstream!DecodeToolCall(c)]
  OBVIOUS
<1>2. D \in [Fragments -> Seq(ChatEvents)] /\ \A c \in Fragments : D[c] = Upstream!DecodeToolCall(c)
  <2>1. \A c \in Fragments : D[c] = Upstream!DecodeToolCall(c)
    BY <1>1
  <2>2. \A c \in Fragments : D[c] \in Seq(ChatEvents)
    BY <2>1, DecodedCall
  <2> QED BY <1>1, <2>1, <2>2
<1> DEFINE G == {s \in Seq(Fragments) : SaysCalls(Flat([k \in DOMAIN s |-> D[s[k]]]), s)}
<1>3. <<>> \in G
  <2>1. PICK e \in Seq(Fragments), z \in Seq(ChatEvents) : e = <<>> /\ z = <<>>
    <3>1. PICK e : e = <<>>
      OBVIOUS
    <3>2. e \in Seq(Fragments) /\ e \in Seq(ChatEvents)
      BY <3>1
    <3> QED BY <3>1, <3>2
  <2>2. [k \in DOMAIN e |-> D[e[k]]] = <<>>
    BY <2>1, MapEmpty
  <2>3. Flat([k \in DOMAIN e |-> D[e[k]]]) = z
    BY <2>1, <2>2, FlatEmpty
  <2>4. Starts(z) = z /\ Keep(e, Named) = e
    BY <2>1, KeepEmpty DEF Starts
  <2>5. ~Has(z, "text_delta") /\ ~Has(z, "done") /\ ~Has(z, "finish")
    BY <2>1, HasNothing
  <2>6. SameIndex(z, e)
    BY <2>1 DEF SameIndex
  <2>7. SaysCalls(z, e)
    BY <2>4, <2>5, <2>6 DEF SaysCalls
  <2> QED BY <2>1, <2>3, <2>7
<1>4. ASSUME NEW s \in Seq(Fragments), NEW c \in Fragments, s \in G PROVE Append(s, c) \in G
  <2>1. PICK m \in Seq(Seq(ChatEvents)) : m = [k \in DOMAIN s |-> D[s[k]]]
    <3>1. D \in [Fragments -> Seq(ChatEvents)]
      BY <1>2
    <3>2. [k \in DOMAIN s |-> D[s[k]]] \in Seq(Seq(ChatEvents))
      BY <3>1, MapIn
    <3> QED BY <3>2
  <2>2. PICK t \in Seq(Fragments) : t = Append(s, c)
    BY AppendIn
  <2>3. [k \in DOMAIN t |-> D[t[k]]] = Append(m, D[c])
    BY <1>2, <2>1, <2>2, MapAppend
  <2>4. PICK d \in Seq(ChatEvents) : d = D[c]
    BY <1>2
  <2>5. PICK w : w = Flat(m)
    OBVIOUS
  <2>6. w \in Seq(ChatEvents) /\ Flat(Append(m, d)) = w \o d
    BY <2>5, FlatAppend
  <2>7. SaysCalls(w, s)
    BY <1>4, <2>1, <2>5
  <2>8. d = Upstream!DecodeToolCall(c)
    BY <1>2, <2>4
  <2>9. /\ w \o d \in Seq(ChatEvents)
        /\ ~Has(w \o d, "text_delta") /\ ~Has(w \o d, "done") /\ ~Has(w \o d, "finish")
    BY <2>6, <2>7, <2>8, DecodedCall, HasConcat DEF SaysCalls
  <2>10. Starts(w \o d) = Starts(w) \o Starts(d)
    BY <2>6, StartsConcat
  <2>11. Keep(t, Named) = IF c \in Named THEN Append(Keep(s, Named), c) ELSE Keep(s, Named)
    BY <2>2, KeepAppend
  <2>12. PICK x \in Seq(ChatEvents), y \in Seq(Fragments) : x = Starts(w) /\ y = Keep(s, Named)
    BY <2>6, StartsConcat, KeepSays
  <2>13. SameIndex(x, y)
    BY <2>7, <2>12 DEF SaysCalls
  <2>14. SameIndex(Starts(w \o d), Keep(t, Named))
    <3>1. CASE c.named
      <4>1. PICK b \in ChatEvents : Starts(d) = <<b>> /\ b.index = c.index
        BY <2>8, <3>1, DecodedCall
      <4>2. SameIndex(x \o <<b>>, Append(y, c))
        BY <2>13, <4>1, SameIndexAppend
      <4>3. Keep(t, Named) = Append(y, c)
        BY <2>11, <2>12, <3>1 DEF Named
      <4> QED BY <2>10, <2>12, <4>1, <4>2, <4>3
    <3>2. CASE ~c.named
      <4>1. Starts(d) = <<>>
        BY <2>8, <3>2, DecodedCall
      <4>2. x \o <<>> = x
        BY ConcatEmptySeq
      <4>3. Keep(t, Named) = y
        BY <2>11, <2>12, <3>2 DEF Named
      <4>4. Starts(w \o d) = x
        BY <2>10, <2>12, <4>1, <4>2
      <4> QED BY <2>13, <4>3, <4>4
    <3> QED BY <3>1, <3>2
  <2>15. SaysCalls(w \o d, t)
    BY <2>9, <2>14 DEF SaysCalls
  <2>16. Flat([k \in DOMAIN t |-> D[t[k]]]) = w \o d
    BY <2>3, <2>4, <2>6
  <2> QED BY <2>2, <2>15, <2>16
<1>5. calls \in G
  <2> HIDE DEF G
  <2>1. Seq(Fragments) \subseteq G
    BY <1>3, <1>4, SeqInduct
  <2> QED BY <2>1
<1>6. [k \in DOMAIN calls |-> D[calls[k]]] = [k \in DOMAIN calls |-> Upstream!DecodeToolCall(calls[k])]
  <2>1. \A k \in DOMAIN calls : calls[k] \in Fragments
    OBVIOUS
  <2> QED BY <1>2, <2>1
<1> QED BY <1>5, <1>6

SaysChat(events, f) ==
  /\ events \in Seq(ChatEvents)
  /\ \A k \in DOMAIN events : events[k].type = "done" => Len(events) = 1
  /\ Has(events, "done") => f.done
  /\ Has(events, "finish") => f.finish # "none"
  /\ Has(events, "text_delta") <=> f.text
  /\ SameIndex(Starts(events), Keep(f.calls, Named))

LEMMA ChatFrameFields ==
  ASSUME NEW f \in Upstream!ChatFrames
  PROVE  /\ f.done \in BOOLEAN /\ f.role \in BOOLEAN /\ f.reasoning \in BOOLEAN /\ f.text \in BOOLEAN
         /\ f.calls \in Seq(Fragments) /\ f.finish \in STRING /\ f.usage \in BOOLEAN
BY DEF Upstream!ChatFrames, Fragments

(* A piece without calls, put behind what was decoded before.              *)
LEMMA JoinPiece ==
  ASSUME NEW u \in Seq(ChatEvents), NEW v \in Seq(ChatEvents), Starts(v) = <<>>
  PROVE  u \o v \in Seq(ChatEvents) /\ Starts(u \o v) = Starts(u)
<1>1. Starts(u \o v) = Starts(u) \o <<>> /\ Starts(u) \in Seq(ChatEvents)
  BY StartsConcat
<1>2. Starts(u) \o <<>> = Starts(u)
  BY <1>1, ConcatEmptySeq
<1>3. u \o v \in Seq(ChatEvents)
  BY ConcatProperties
<1> QED BY <1>1, <1>2, <1>3

LEMMA DecodedChat ==
  ASSUME NEW f \in Upstream!ChatFrames, f.done => f = Upstream!Done,
         NEW events, events = Upstream!DecodeChat(f)
  PROVE  SaysChat(events, f)
<1>1. CASE f.done
  <2>1. PICK ev : ev = [type |-> "done"]
    OBVIOUS
  <2>2. events = <<ev>>
    BY <1>1, <2>1 DEF Upstream!DecodeChat
  <2>3. ev \in ChatEvents
    BY <2>1 DEF ChatEvents
  <2>4. events \in Seq(ChatEvents) /\ Len(events) = 1
    BY <2>2, <2>3
  <2>5. Has(events, "done") /\ ~Has(events, "finish") /\ ~Has(events, "text_delta")
    BY <2>1, <2>2, HasOne
  <2>6. ~f.text /\ f.calls = <<>>
    BY <1>1 DEF Upstream!Done, Upstream!Chunk
  <2>7. Starts(events) = <<>>
    BY <2>1, <2>2, <2>3, StartsOne
  <2>8. Keep(f.calls, Named) = <<>>
    BY <2>6, KeepEmpty
  <2>9. SameIndex(Starts(events), Keep(f.calls, Named))
    <3>1. PICK e : e = <<>>
      OBVIOUS
    <3>2. SameIndex(e, e)
      BY <3>1 DEF SameIndex
    <3> QED BY <2>7, <2>8, <3>1, <3>2
  <2> QED BY <1>1, <2>4, <2>5, <2>6, <2>9 DEF SaysChat
<1>2. CASE ~f.done
  <2>1. PICK role \in BOOLEAN, reasoning \in BOOLEAN, text \in BOOLEAN, usage \in BOOLEAN,
             calls \in Seq(Fragments), finish \in STRING :
               /\ role = f.role /\ reasoning = f.reasoning /\ text = f.text /\ usage = f.usage
               /\ calls = f.calls /\ finish = f.finish
    BY ChatFrameFields
  <2>2. PICK s \in ChatEvents : s = [type |-> "start"]
    BY DEF ChatEvents
  <2>3. PICK r \in ChatEvents : r = [type |-> "reasoning_delta"]
    BY DEF ChatEvents
  <2>4. PICK t \in ChatEvents : t = [type |-> "text_delta"]
    BY DEF ChatEvents
  <2>5. PICK fin \in ChatEvents : fin = [type |-> "finish", reason |-> finish]
    BY DEF ChatEvents
  <2>6. PICK u \in ChatEvents : u = [type |-> "usage"]
    BY DEF ChatEvents
  <2>7. PICK ending \in BOOLEAN : ending <=> finish # "none"
    OBVIOUS
  <2>8. PICK p1 : p1 = Upstream!When(role, s)
    OBVIOUS
  <2>9. PICK p2 : p2 = Upstream!When(reasoning, r)
    OBVIOUS
  <2>10. PICK p3 : p3 = Upstream!When(text, t)
    OBVIOUS
  <2>11. PICK p4 : p4 = Flat([k \in DOMAIN calls |-> Upstream!DecodeToolCall(calls[k])])
    OBVIOUS
  <2>12. PICK p5 : p5 = Upstream!When(ending, fin)
    OBVIOUS
  <2>13. PICK p6 : p6 = Upstream!When(usage, u)
    OBVIOUS
  <2>14. events = p1 \o p2 \o p3 \o p4 \o p5 \o p6
    <3>1. p5 = Upstream!When(f.finish # "none", [type |-> "finish", reason |-> f.finish])
      BY <2>1, <2>5, <2>7, <2>12 DEF Upstream!When
    <3>2. p1 = Upstream!When(f.role, [type |-> "start"])
      BY <2>1, <2>2, <2>8 DEF Upstream!When
    <3>3. p2 = Upstream!When(f.reasoning, [type |-> "reasoning_delta"])
      BY <2>1, <2>3, <2>9 DEF Upstream!When
    <3>4. p3 = Upstream!When(f.text, [type |-> "text_delta"])
      BY <2>1, <2>4, <2>10 DEF Upstream!When
    <3>5. p6 = Upstream!When(f.usage, [type |-> "usage"])
      BY <2>1, <2>6, <2>13 DEF Upstream!When
    <3>6. \A seqs : Upstream!Flat(seqs) = Flat(seqs)
      BY DEF Upstream!Flat, Flat
    <3>7. p4 = Upstream!Flat([k \in DOMAIN f.calls |-> Upstream!DecodeToolCall(f.calls[k])])
      BY <2>1, <2>11, <3>6
    <3> QED BY <1>2, <3>1, <3>2, <3>3, <3>4, <3>5, <3>7, Zenon DEF Upstream!DecodeChat
  <2>15. p1 \in Seq(ChatEvents) /\ Starts(p1) = <<>> /\ \A type : Has(p1, type) => type = "start"
    BY <2>2, <2>8, WhenSays
  <2>16. p2 \in Seq(ChatEvents) /\ Starts(p2) = <<>> /\ \A type : Has(p2, type) => type = "reasoning_delta"
    BY <2>3, <2>9, WhenSays
  <2>17. p3 \in Seq(ChatEvents) /\ Starts(p3) = <<>> /\ \A type : Has(p3, type) <=> text /\ type = "text_delta"
    BY <2>4, <2>10, WhenSays
  <2>18. SaysCalls(p4, calls)
    BY <2>11, DecodedCalls
  <2>19. p5 \in Seq(ChatEvents) /\ Starts(p5) = <<>> /\ \A type : Has(p5, type) <=> ending /\ type = "finish"
    BY <2>5, <2>12, WhenSays
  <2>20. p6 \in Seq(ChatEvents) /\ Starts(p6) = <<>> /\ \A type : Has(p6, type) => type = "usage"
    BY <2>6, <2>13, WhenSays
  <2>21. PICK q2 : q2 = p1 \o p2
    OBVIOUS
  <2>22. PICK q3 : q3 = q2 \o p3
    OBVIOUS
  <2>23. PICK q4 : q4 = q3 \o p4
    OBVIOUS
  <2>24. PICK q5 : q5 = q4 \o p5
    OBVIOUS
  <2>25. events = q5 \o p6
    BY <2>14, <2>21, <2>22, <2>23, <2>24
  <2>26. q2 \in Seq(ChatEvents) /\ Starts(q2) = <<>>
    BY <2>15, <2>16, <2>21, JoinPiece
  <2>27. q3 \in Seq(ChatEvents) /\ Starts(q3) = <<>>
    BY <2>17, <2>22, <2>26, JoinPiece
  <2>28. p4 \in Seq(ChatEvents) /\ ~Has(p4, "text_delta") /\ ~Has(p4, "done") /\ ~Has(p4, "finish")
         /\ SameIndex(Starts(p4), Keep(calls, Named))
    BY <2>18 DEF SaysCalls
  <2>29. q4 \in Seq(ChatEvents) /\ Starts(q4) = Starts(p4)
    <3>1. Starts(q4) = <<>> \o Starts(p4) /\ Starts(p4) \in Seq(ChatEvents)
      BY <2>23, <2>27, <2>28, StartsConcat
    <3>2. <<>> \o Starts(p4) = Starts(p4)
      BY <3>1, ConcatEmptySeq
    <3>3. q4 \in Seq(ChatEvents)
      BY <2>23, <2>27, <2>28, ConcatProperties
    <3> QED BY <3>1, <3>2, <3>3
  <2>30. q5 \in Seq(ChatEvents) /\ Starts(q5) = Starts(p4)
    BY <2>19, <2>24, <2>29, JoinPiece
  <2>31. events \in Seq(ChatEvents) /\ Starts(events) = Starts(p4)
    BY <2>20, <2>25, <2>30, JoinPiece
  <2>32. ASSUME NEW type
         PROVE  Has(events, type) <=> \/ Has(p1, type) \/ Has(p2, type) \/ Has(p3, type)
                                      \/ Has(p4, type) \/ Has(p5, type) \/ Has(p6, type)
    <3>1. Has(q2, type) <=> Has(p1, type) \/ Has(p2, type)
      BY <2>15, <2>16, <2>21, HasConcat
    <3>2. Has(q3, type) <=> Has(q2, type) \/ Has(p3, type)
      BY <2>17, <2>22, <2>26, HasConcat
    <3>3. Has(q4, type) <=> Has(q3, type) \/ Has(p4, type)
      BY <2>23, <2>27, <2>28, HasConcat
    <3>4. Has(q5, type) <=> Has(q4, type) \/ Has(p5, type)
      BY <2>19, <2>24, <2>29, HasConcat
    <3>5. Has(events, type) <=> Has(q5, type) \/ Has(p6, type)
      BY <2>20, <2>25, <2>30, HasConcat
    <3> QED BY <3>1, <3>2, <3>3, <3>4, <3>5
  <2>33. Has(events, "text_delta") <=> text
    <3>1. ~Has(p1, "text_delta")
      BY <2>15
    <3>2. ~Has(p2, "text_delta")
      BY <2>16
    <3>3. Has(p3, "text_delta") <=> text
      BY <2>17
    <3>4. ~Has(p5, "text_delta")
      BY <2>19
    <3>5. ~Has(p6, "text_delta")
      BY <2>20
    <3>6. Has(events, "text_delta")
            <=> \/ Has(p1, "text_delta") \/ Has(p2, "text_delta") \/ Has(p3, "text_delta")
                \/ Has(p4, "text_delta") \/ Has(p5, "text_delta") \/ Has(p6, "text_delta")
      BY <2>32
    <3> QED BY <2>28, <3>1, <3>2, <3>3, <3>4, <3>5, <3>6
  <2>34. ~Has(events, "done")
    <3>1. ~Has(p1, "done")
      BY <2>15
    <3>2. ~Has(p2, "done")
      BY <2>16
    <3>3. ~Has(p3, "done")
      BY <2>17
    <3>4. ~Has(p5, "done")
      BY <2>19
    <3>5. ~Has(p6, "done")
      BY <2>20
    <3>6. Has(events, "done")
            <=> \/ Has(p1, "done") \/ Has(p2, "done") \/ Has(p3, "done")
                \/ Has(p4, "done") \/ Has(p5, "done") \/ Has(p6, "done")
      BY <2>32
    <3> QED BY <2>28, <3>1, <3>2, <3>3, <3>4, <3>5, <3>6
  <2>35. Has(events, "finish") => ending
    <3>1. ~Has(p1, "finish")
      BY <2>15
    <3>2. ~Has(p2, "finish")
      BY <2>16
    <3>3. ~Has(p3, "finish")
      BY <2>17
    <3>4. Has(p5, "finish") => ending
      BY <2>19
    <3>5. ~Has(p6, "finish")
      BY <2>20
    <3>6. Has(events, "finish")
            <=> \/ Has(p1, "finish") \/ Has(p2, "finish") \/ Has(p3, "finish")
                \/ Has(p4, "finish") \/ Has(p5, "finish") \/ Has(p6, "finish")
      BY <2>32
    <3> QED BY <2>28, <3>1, <3>2, <3>3, <3>4, <3>5, <3>6
  <2>36. \A k \in DOMAIN events : events[k].type # "done"
    BY <2>34 DEF Has
  <2> QED BY <2>1, <2>7, <2>28, <2>31, <2>33, <2>34, <2>35, <2>36 DEF SaysChat
<1> QED BY <1>1, <1>2

-----------------------------------------------------------------------------
(* What the frames of a stream say, frame by frame                         *)

LEMMA UsageNothing == UsageOf(<<>>) = {}
<1>1. PICK e : e = <<>>
  OBVIOUS
<1>2. DOMAIN e = {}
  BY <1>1
<1> QED BY <1>1, <1>2 DEF UsageOf

LEMMA UsageHead ==
  ASSUME NEW R, NEW x \in Seq(R), x # <<>>
  PROVE  /\ Head(x) \in R /\ Tail(x) \in Seq(R)
         /\ UsageOf(x) = Upstream!UsageIn(Head(x)) \cup UsageOf(Tail(x))
<1>1. PICK n \in Nat : n = Len(x)
  OBVIOUS
<1>2. PICK t : t = Tail(x)
  OBVIOUS
<1>3. n >= 1 /\ t \in Seq(R) /\ Len(t) = n - 1 /\ \A k \in 1..(n - 1) : t[k] = x[k + 1]
  BY <1>1, <1>2, HeadTailProperties, EmptySeq
<1>4. Head(x) = x[1] /\ Head(x) \in R
  BY <1>1, <1>3
<1>5. DOMAIN x = 1..n /\ DOMAIN t = 1..(n - 1)
  BY <1>1, <1>3
<1>6. ASSUME NEW u, u \in UsageOf(x) PROVE u \in Upstream!UsageIn(Head(x)) \cup UsageOf(t)
  <2>1. PICK k \in 1..n : u \in Upstream!UsageIn(x[k])
    BY <1>5, <1>6 DEF UsageOf
  <2>2. CASE k = 1
    BY <1>4, <2>1, <2>2
  <2>3. CASE k # 1
    <3>1. k - 1 \in 1..(n - 1) /\ (k - 1) + 1 = k
      BY <2>3
    <3>2. u \in Upstream!UsageIn(t[k - 1])
      BY <1>3, <2>1, <3>1
    <3> QED BY <1>5, <3>1, <3>2 DEF UsageOf
  <2> QED BY <2>2, <2>3
<1>7. ASSUME NEW u, u \in UsageOf(t) PROVE u \in UsageOf(x)
  <2>1. PICK k \in 1..(n - 1) : u \in Upstream!UsageIn(t[k])
    BY <1>5, <1>7 DEF UsageOf
  <2>2. k + 1 \in 1..n
    OBVIOUS
  <2>3. u \in Upstream!UsageIn(x[k + 1])
    BY <1>3, <2>1
  <2> QED BY <1>5, <2>2, <2>3 DEF UsageOf
<1>8. ASSUME NEW u, u \in Upstream!UsageIn(Head(x)) PROVE u \in UsageOf(x)
  <2>1. 1 \in 1..n
    BY <1>3
  <2> QED BY <1>4, <1>5, <1>8, <2>1 DEF UsageOf
<1> QED BY <1>2, <1>3, <1>4, <1>6, <1>7, <1>8

(* The fields a usage can have.                                            *)
UsageFields == STRING \cup {"input", "output"}

LEMMA UsageInFields ==
  ASSUME NEW e \in AllEvents
  PROVE  /\ Upstream!UsageIn(e) \subseteq UsageFields
         /\ e \in ChatEvents =>
              Upstream!UsageIn(e) = IF e.type = "usage" THEN {"input", "output"} ELSE {}
         /\ e \in KnownFrames =>
              Upstream!UsageIn(e) = IF e.type \in {"message_start", "message_delta"} THEN e.usage ELSE {}
<1>1. CASE e \in ChatEvents
  <2>1. e.type \notin {"message_start", "message_delta", "snapshot"}
    BY <1>1, ChatEventKinds
  <2>2. Upstream!UsageIn(e) = IF e.type = "usage" THEN {"input", "output"} ELSE {}
    BY <2>1 DEF Upstream!UsageIn, Upstream!ChatUsage
  <2>3. e \in KnownFrames => e.type \notin {"message_start", "message_delta"} /\ e.type # "usage"
    BY <2>1, AnthropicKinds
  <2> QED BY <2>2, <2>3 DEF UsageFields
<1>2. CASE e \in Upstream!AnthropicFrames
  <2>1. e.type # "usage" /\ e.type # "snapshot"
    BY <1>2 DEF Upstream!AnthropicFrames
  <2>2. e.type \in {"message_start", "message_delta"} => e.usage \subseteq STRING
    BY <1>2 DEF Upstream!AnthropicFrames
  <2>3. Upstream!UsageIn(e) = IF e.type \in {"message_start", "message_delta"} THEN e.usage ELSE {}
    BY <2>1 DEF Upstream!UsageIn
  <2>4. e \in ChatEvents => e.type \notin {"message_start", "message_delta"}
    BY ChatEventKinds
  <2> QED BY <2>1, <2>2, <2>3, <2>4 DEF UsageFields
<1>3. CASE e \in Upstream!ResponsesFrames
  <2>1. e.type \in {"output_text_delta", "unknown", "snapshot"}
    BY <1>3 DEF Upstream!ResponsesFrames
  <2>2. e.type = "snapshot" => e.usage \subseteq STRING
    BY <1>3 DEF Upstream!ResponsesFrames
  <2>3. Upstream!UsageIn(e) = IF e.type = "snapshot" THEN e.usage ELSE {}
    BY <2>1 DEF Upstream!UsageIn
  <2>4. e \notin ChatEvents /\ e \notin KnownFrames
    BY <2>1, ChatEventKinds, AnthropicKinds
  <2> QED BY <2>2, <2>3, <2>4 DEF UsageFields
<1> QED BY <1>1, <1>2, <1>3 DEF AllEvents

LEMMA UsageOfFields ==
  ASSUME NEW x \in Seq(AllEvents)
  PROVE  UsageOf(x) \subseteq UsageFields
<1>1. \A k \in DOMAIN x : x[k] \in AllEvents
  OBVIOUS
<1>2. \A k \in DOMAIN x : Upstream!UsageIn(x[k]) \subseteq UsageFields
  BY <1>1, UsageInFields
<1> QED BY <1>2 DEF UsageOf

(* The usage that the first n frames state.                                *)
Stated(s, fs, n) == UNION {UsageOf(Decode(s, fs[k])) : k \in 1..n}

Joined(a, b) == a \cup b

LEMMA StatedNext ==
  ASSUME NEW s, NEW R, NEW fs \in Seq(R), NEW f \in R
  PROVE  Stated(s, Append(fs, f), Len(Append(fs, f))) = Joined(Stated(s, fs, Len(fs)), UsageOf(Decode(s, f)))
<1>1. PICK n \in Nat : n = Len(fs)
  OBVIOUS
<1>2. PICK t : t = Append(fs, f)
  OBVIOUS
<1>3. Len(t) = n + 1 /\ t[n + 1] = f /\ \A k \in 1..n : t[k] = fs[k]
  BY <1>1, <1>2
<1>4. \A k \in 1..(n + 1) : k = n + 1 \/ k \in 1..n
  OBVIOUS
<1>5. (\A k \in 1..n : k \in 1..(n + 1)) /\ n + 1 \in 1..(n + 1)
  OBVIOUS
<1>6. ASSUME NEW u, u \in Stated(s, t, n + 1)
      PROVE  u \in Stated(s, fs, n) \cup UsageOf(Decode(s, f))
  BY <1>3, <1>4, <1>6 DEF Stated
<1>7. ASSUME NEW u, u \in Stated(s, fs, n) \cup UsageOf(Decode(s, f))
      PROVE  u \in Stated(s, t, n + 1)
  BY <1>3, <1>5, <1>7 DEF Stated
<1> QED BY <1>1, <1>2, <1>3, <1>6, <1>7 DEF Joined

LEMMA StatedBefore ==
  ASSUME NEW s, NEW R, NEW fs \in Seq(R), NEW f \in R
  PROVE  Stated(s, Append(fs, f), Len(Append(fs, f)) - 1) = Stated(s, fs, Len(fs))
<1>1. PICK n \in Nat : n = Len(fs)
  OBVIOUS
<1>2. PICK t : t = Append(fs, f)
  OBVIOUS
<1>3. Len(t) = n + 1 /\ \A k \in 1..n : t[k] = fs[k]
  BY <1>1, <1>2
<1>4. (n + 1) - 1 = n
  OBVIOUS
<1>5. Stated(s, t, n) = Stated(s, fs, n)
  BY <1>3 DEF Stated
<1> QED BY <1>1, <1>2, <1>3, <1>4, <1>5

LEMMA StatedNothing ==
  ASSUME NEW s, NEW fs, NEW n \in Int, n <= 0
  PROVE  Stated(s, fs, n) = {}
<1>1. 1..n = {}
  OBVIOUS
<1> QED BY <1>1 DEF Stated

EndIn(fs) == \E k \in DOMAIN fs : fs[k].done \/ fs[k].finish # "none"

TextIn(fs) == \E k \in DOMAIN fs : fs[k].text

CallsIn(fs) == Flat([k \in DOMAIN fs |-> Keep(fs[k].calls, Named)])

LEMMA SaidAppend ==
  ASSUME NEW fs \in Seq(Upstream!ChatFrames), NEW f \in Upstream!ChatFrames, NEW t, t = Append(fs, f)
  PROVE  /\ EndIn(t) <=> EndIn(fs) \/ f.done \/ f.finish # "none"
         /\ TextIn(t) <=> TextIn(fs) \/ f.text
<1>1. PICK n \in Nat : n = Len(fs) /\ DOMAIN fs = 1..n
  OBVIOUS
<1>2. DOMAIN t = 1..(n + 1) /\ t[n + 1] = f /\ \A k \in 1..n : t[k] = fs[k]
  BY <1>1
<1>3. \A k \in 1..(n + 1) : k = n + 1 \/ k \in 1..n
  OBVIOUS
<1>4. n + 1 \in 1..(n + 1) /\ \A k \in 1..n : k \in 1..(n + 1)
  OBVIOUS
<1>5. EndIn(t) <=> EndIn(fs) \/ f.done \/ f.finish # "none"
  BY <1>1, <1>2, <1>3, <1>4 DEF EndIn
<1>6. TextIn(t) <=> TextIn(fs) \/ f.text
  BY <1>1, <1>2, <1>3, <1>4 DEF TextIn
<1> QED BY <1>5, <1>6

LEMMA NothingSaid == ~EndIn(<<>>) /\ ~TextIn(<<>>) /\ CallsIn(<<>>) = <<>>
<1>1. PICK e : e = <<>>
  OBVIOUS
<1>2. DOMAIN e = {}
  BY <1>1
<1>3. PICK m : m = [k \in DOMAIN e |-> Keep(e[k].calls, Named)]
  OBVIOUS
<1>4. DOMAIN e = 1..0 /\ 1..0 = {}
  BY <1>1
<1>5. m \in Seq({}) /\ Len(m) = 0
  BY <1>3, <1>4
<1>6. m = <<>>
  BY <1>5, EmptySeq
<1>7. CallsIn(e) = <<>>
  BY <1>3, <1>6, FlatEmpty DEF CallsIn
<1> QED BY <1>1, <1>2, <1>7 DEF EndIn, TextIn

LEMMA CallsInAppend ==
  ASSUME NEW fs \in Seq(Upstream!ChatFrames), NEW f \in Upstream!ChatFrames, NEW t, t = Append(fs, f)
  PROVE  /\ CallsIn(fs) \in Seq(Fragments) /\ Keep(f.calls, Named) \in Seq(Fragments)
         /\ CallsIn(t) = CallsIn(fs) \o Keep(f.calls, Named)
<1>1. PICK D : D = [c \in Upstream!ChatFrames |-> Keep(c.calls, Named)]
  OBVIOUS
<1>2. D \in [Upstream!ChatFrames -> Seq(Fragments)]
      /\ \A c \in Upstream!ChatFrames : D[c] = Keep(c.calls, Named)
  <2>1. \A c \in Upstream!ChatFrames : D[c] = Keep(c.calls, Named)
    BY <1>1
  <2>2. \A c \in Upstream!ChatFrames : c.calls \in Seq(Fragments)
    BY ChatFrameFields
  <2>3. \A c \in Upstream!ChatFrames : D[c] \in Seq(Fragments)
    BY <2>1, <2>2, KeepSays
  <2> QED BY <1>1, <2>1, <2>3
<1>3. PICK m : m = [k \in DOMAIN fs |-> D[fs[k]]]
  OBVIOUS
<1>4. m \in Seq(Seq(Fragments))
  <2>1. D \in [Upstream!ChatFrames -> Seq(Fragments)]
    BY <1>2
  <2>2. [k \in DOMAIN fs |-> D[fs[k]]] \in Seq(Seq(Fragments))
    BY <2>1, MapIn
  <2> QED BY <1>3, <2>2
<1>5. t \in Seq(Upstream!ChatFrames)
  OBVIOUS
<1>6. [k \in DOMAIN t |-> D[t[k]]] = Append(m, D[f])
  BY <1>2, <1>3, MapAppend
<1>7. [k \in DOMAIN t |-> D[t[k]]] = [k \in DOMAIN t |-> Keep(t[k].calls, Named)]
  <2>1. \A k \in DOMAIN t : t[k] \in Upstream!ChatFrames
    BY <1>5
  <2> QED BY <1>2, <2>1
<1>8. m = [k \in DOMAIN fs |-> Keep(fs[k].calls, Named)]
  <2>1. \A k \in DOMAIN fs : fs[k] \in Upstream!ChatFrames
    OBVIOUS
  <2> QED BY <1>2, <1>3, <2>1
<1>9. CallsIn(fs) = Flat(m)
  BY <1>8 DEF CallsIn
<1>10. CallsIn(t) = Flat(Append(m, D[f]))
  BY <1>6, <1>7 DEF CallsIn
<1>11. PICK d \in Seq(Fragments) : d = D[f]
  BY <1>2
<1>12. Flat(m) \in Seq(Fragments) /\ Flat(Append(m, d)) = Flat(m) \o d
  BY <1>4, FlatAppend
<1>13. d = Keep(f.calls, Named)
  BY <1>2, <1>11
<1> QED BY <1>9, <1>10, <1>11, <1>12, <1>13

LEMMA CallsInFragments ==
  ASSUME NEW fs \in Seq(Upstream!ChatFrames)
  PROVE  CallsIn(fs) \in Seq(Fragments)
<1>1. PICK D : D = [c \in Upstream!ChatFrames |-> Keep(c.calls, Named)]
  OBVIOUS
<1>2. D \in [Upstream!ChatFrames -> Seq(Fragments)]
      /\ \A c \in Upstream!ChatFrames : D[c] = Keep(c.calls, Named)
  <2>1. \A c \in Upstream!ChatFrames : D[c] = Keep(c.calls, Named)
    BY <1>1
  <2>2. \A c \in Upstream!ChatFrames : c.calls \in Seq(Fragments)
    BY ChatFrameFields
  <2>3. \A c \in Upstream!ChatFrames : D[c] \in Seq(Fragments)
    BY <2>1, <2>2, KeepSays
  <2> QED BY <1>1, <2>1, <2>3
<1>3. PICK m : m = [k \in DOMAIN fs |-> D[fs[k]]]
  OBVIOUS
<1>4. m \in Seq(Seq(Fragments))
  <2>1. D \in [Upstream!ChatFrames -> Seq(Fragments)]
    BY <1>2
  <2>2. [k \in DOMAIN fs |-> D[fs[k]]] \in Seq(Seq(Fragments))
    BY <2>1, MapIn
  <2> QED BY <1>3, <2>2
<1>5. m = [k \in DOMAIN fs |-> Keep(fs[k].calls, Named)]
  <2>1. \A k \in DOMAIN fs : fs[k] \in Upstream!ChatFrames
    OBVIOUS
  <2> QED BY <1>2, <1>3, <2>1
<1>6. CallsIn(fs) = Flat(m)
  BY <1>5 DEF CallsIn
<1>7. PICK d \in Seq(Fragments) : d = <<>>
  <2>1. <<>> \in Seq(Fragments)
    BY EmptySeq
  <2> QED BY <2>1
<1>8. Flat(m) \in Seq(Fragments)
  BY <1>4, FlatAppend
<1> QED BY <1>6, <1>8

LEMMA SaidBy ==
  ASSUME frames \in Seq(Upstream!ChatFrames)
  PROVE  (SaidEnd <=> EndIn(frames)) /\ (SaidText <=> TextIn(frames)) /\ CallsSaid = CallsIn(frames)
<1>1. \A k \in DOMAIN frames : frames[k] \in Upstream!ChatFrames
  OBVIOUS
<1>2. ASSUME NEW k \in DOMAIN frames
      PROVE  Keep(frames[k].calls, {c \in ToSet(frames[k].calls) : c.named}) = Keep(frames[k].calls, Named)
  <2>1. PICK s \in Seq(Fragments) : s = frames[k].calls
    BY <1>1, ChatFrameFields
  <2>2. \A i \in DOMAIN s : s[i] \in ToSet(s) /\ s[i] \in Fragments
    BY <2>1 DEF ToSet
  <2>3. \A i \in DOMAIN s : s[i] \in {c \in ToSet(s) : c.named} <=> s[i] \in Named
    BY <2>2 DEF Named
  <2>4. PICK S : S = {c \in ToSet(s) : c.named}
    OBVIOUS
  <2>5. \A i \in DOMAIN s : s[i] \in S <=> s[i] \in Named
    BY <2>3, <2>4
  <2>6. Keep(s, S) = Keep(s, Named)
    BY <2>5, KeepSame
  <2> QED BY <2>1, <2>4, <2>6
<1>3. [k \in DOMAIN frames |-> Keep(frames[k].calls, {c \in ToSet(frames[k].calls) : c.named})]
        = [k \in DOMAIN frames |-> Keep(frames[k].calls, Named)]
  BY <1>2
<1>4. CallsSaid = CallsIn(frames)
  BY <1>3 DEF CallsSaid, CallsIn
<1>5. SaidEnd <=> EndIn(frames)
  BY DEF SaidEnd, EndIn
<1>6. SaidText <=> TextIn(frames)
  BY DEF SaidText, TextIn
<1> QED BY <1>4, <1>5, <1>6

-----------------------------------------------------------------------------
(* The calls said, caught and still to be translated                       *)

LEMMA HeadAndTail ==
  ASSUME NEW R, NEW x \in Seq(R), x # <<>>
  PROVE  x = <<Head(x)>> \o Tail(x) /\ Head(x) \in R /\ Tail(x) \in Seq(R)
<1>1. PICK n \in Nat : n = Len(x)
  OBVIOUS
<1>2. PICK t : t = Tail(x)
  OBVIOUS
<1>3. n >= 1 /\ t \in Seq(R) /\ Len(t) = n - 1 /\ \A k \in 1..(n - 1) : t[k] = x[k + 1]
  BY <1>1, <1>2, HeadTailProperties, EmptySeq
<1>4. PICK h \in R : h = Head(x) /\ h = x[1]
  BY <1>1, <1>3
<1>5. PICK o : o = <<h>>
  OBVIOUS
<1>6. o \in Seq(R) /\ Len(o) = 1 /\ o[1] = h
  BY <1>5
<1>7. PICK w : w = o \o t
  OBVIOUS
<1>8. w \in Seq(R) /\ Len(w) = 1 + (n - 1) /\ \A k \in 1..(1 + (n - 1)) : w[k] = IF k <= 1 THEN o[k] ELSE t[k - 1]
  <2>1. /\ o \o t \in Seq(R) /\ Len(o \o t) = Len(o) + Len(t)
        /\ \A k \in 1..(Len(o) + Len(t)) : (o \o t)[k] = IF k <= Len(o) THEN o[k] ELSE t[k - Len(o)]
    BY <1>3, <1>6, ConcatProperties
  <2> QED BY <1>3, <1>6, <1>7, <2>1
<1>9. ASSUME NEW k \in 1..n PROVE w[k] = x[k]
  <2>1. k \in 1..(1 + (n - 1))
    OBVIOUS
  <2>2. CASE k = 1
    BY <1>4, <1>6, <1>8, <2>1, <2>2
  <2>3. CASE k # 1
    <3>1. ~(k <= 1) /\ k - 1 \in 1..(n - 1) /\ (k - 1) + 1 = k
      BY <2>3
    <3>2. w[k] = t[k - 1]
      BY <1>8, <2>1, <3>1
    <3> QED BY <1>3, <3>1, <3>2
  <2> QED BY <2>2, <2>3
<1>10. Len(w) = n
  BY <1>3, <1>8
<1>11. w = x
  BY <1>1, <1>8, <1>9, <1>10, SeqEqual
<1> QED BY <1>2, <1>3, <1>4, <1>5, <1>7, <1>11

(* What is left of the events of a frame when the first has been taken.    *)
LEMMA Taken ==
  ASSUME NEW x \in Seq(ChatEvents), x # <<>>, NEW e, e = Head(x), NEW t, t = Tail(x)
  PROVE  /\ e \in ChatEvents /\ t \in Seq(ChatEvents)
         /\ \A type : Has(x, type) <=> e.type = type \/ Has(t, type)
         /\ e.type = "tool_call_start" => Starts(x) = <<e>> \o Starts(t)
         /\ e.type # "tool_call_start" => Starts(x) = Starts(t)
         /\ Starts(t) \in Seq(ChatEvents)
<1>1. x = <<e>> \o t /\ e \in ChatEvents /\ t \in Seq(ChatEvents)
  BY HeadAndTail
<1>2. PICK o : o = <<e>>
  OBVIOUS
<1>3. o \in Seq(ChatEvents)
  BY <1>1, <1>2
<1>4. ASSUME NEW type PROVE Has(x, type) <=> e.type = type \/ Has(t, type)
  <2>1. Has(o \o t, type) <=> Has(o, type) \/ Has(t, type)
    BY <1>1, <1>3, HasConcat
  <2>2. Has(o, type) <=> e.type = type
    BY <1>2, HasOne
  <2> QED BY <1>1, <1>2, <2>1, <2>2
<1>5. Starts(x) = Starts(o) \o Starts(t) /\ Starts(t) \in Seq(ChatEvents)
  BY <1>1, <1>2, <1>3, StartsConcat
<1>6. e.type = "tool_call_start" => Starts(x) = <<e>> \o Starts(t)
  BY <1>1, <1>2, <1>5, StartsOne
<1>7. e.type # "tool_call_start" => Starts(x) = Starts(t)
  <2>1. ASSUME e.type # "tool_call_start" PROVE Starts(o) = <<>>
    BY <1>1, <1>2, <2>1, StartsOne
  <2>2. <<>> \o Starts(t) = Starts(t)
    BY <1>5, ConcatEmptySeq
  <2> QED BY <1>5, <2>1, <2>2
<1> QED BY <1>1, <1>4, <1>5, <1>6, <1>7

(* c are the calls said: those caught, k, and those to be started, s.      *)
Shared(k, s, c) ==
  /\ Len(c) = Len(k) + Len(s)
  /\ \A i \in 1..Len(k) : k[i].call = c[i].index
  /\ \A i \in 1..Len(s) : s[i].index = c[Len(k) + i].index

LEMMA SharedStart ==
  ASSUME NEW k \in Seq(Part), NEW s \in Seq(ChatEvents), NEW e \in ChatEvents, NEW c,
         Shared(k, <<e>> \o s, c), NEW p \in Part, p.call = e.index
  PROVE  Shared(Append(k, p), s, c)
<1>1. PICK m \in Nat, n \in Nat : m = Len(k) /\ n = Len(s)
  OBVIOUS
<1>2. PICK o : o = <<e>>
  OBVIOUS
<1>3. o \in Seq(ChatEvents) /\ Len(o) = 1 /\ o[1] = e
  BY <1>2
<1>4. PICK w : w = o \o s
  OBVIOUS
<1>5. Len(w) = 1 + n /\ \A i \in 1..(1 + n) : w[i] = IF i <= 1 THEN o[i] ELSE s[i - 1]
  <2>1. /\ Len(o \o s) = Len(o) + Len(s)
        /\ \A i \in 1..(Len(o) + Len(s)) : (o \o s)[i] = IF i <= Len(o) THEN o[i] ELSE s[i - Len(o)]
    BY <1>3, ConcatProperties
  <2> QED BY <1>1, <1>3, <1>4, <2>1
<1>6. PICK k2 : k2 = Append(k, p)
  OBVIOUS
<1>7. Len(k2) = m + 1 /\ k2[m + 1] = p /\ \A i \in 1..m : k2[i] = k[i]
  BY <1>1, <1>6
<1>8. Shared(k, w, c)
  BY <1>2, <1>4
<1>9. Len(c) = m + (1 + n) /\ (\A i \in 1..m : k[i].call = c[i].index)
      /\ \A i \in 1..(1 + n) : w[i].index = c[m + i].index
  BY <1>1, <1>5, <1>8 DEF Shared
<1>10. k2[m + 1].call = c[m + 1].index
  <2>1. 1 \in 1..(1 + n) /\ 1 <= 1
    OBVIOUS
  <2>2. w[1] = e
    BY <1>3, <1>5, <2>1
  <2> QED BY <1>7, <1>9, <2>1, <2>2
<1>11. \A i \in 1..(m + 1) : i = m + 1 \/ i \in 1..m
  OBVIOUS
<1>12. \A i \in 1..(m + 1) : k2[i].call = c[i].index
  BY <1>7, <1>9, <1>10, <1>11
<1>13. ASSUME NEW i \in 1..n PROVE s[i].index = c[(m + 1) + i].index
  <2>1. i + 1 \in 1..(1 + n) /\ ~(i + 1 <= 1) /\ (i + 1) - 1 = i /\ m + (i + 1) = (m + 1) + i
    OBVIOUS
  <2>2. w[i + 1] = s[i]
    BY <1>5, <2>1
  <2>3. w[i + 1].index = c[m + (i + 1)].index
    BY <1>9, <2>1
  <2> QED BY <2>1, <2>2, <2>3
<1>14. Len(c) = (m + 1) + n
  BY <1>9
<1>15. Shared(k2, s, c)
  BY <1>1, <1>7, <1>12, <1>13, <1>14 DEF Shared
<1> QED BY <1>6, <1>15

LEMMA ExtendsCalls ==
  ASSUME NEW k \in Seq(Caught), NEW of \in Int, NEW k2, Extends(k, of, k2)
  PROVE  Len(k2) = Len(k) /\ \A i \in 1..Len(k) : k2[i].call = k[i].call
<1>1. CASE k2 = k
  BY <1>1
<1>2. CASE \E q \in Seq(Caught), p \in Caught :
             k = Append(q, p) /\ Longer(p, of) \in Caught /\ k2 = Append(q, Longer(p, of))
  <2>1. PICK q \in Seq(Caught), p \in Caught :
             k = Append(q, p) /\ Longer(p, of) \in Caught /\ k2 = Append(q, Longer(p, of))
    BY <1>2
  <2>2. PICK r \in Caught : r = Longer(p, of)
    BY <2>1
  <2>3. r.call = p.call
    BY <2>2, CaughtParts, PartFields
  <2>4. PICK m \in Nat : m = Len(q)
    OBVIOUS
  <2>5. Len(k) = m + 1 /\ k[m + 1] = p /\ \A i \in 1..m : k[i] = q[i]
    BY <2>1, <2>4, AppendParts
  <2>6. Len(k2) = m + 1 /\ k2[m + 1] = r /\ \A i \in 1..m : k2[i] = q[i]
    BY <2>1, <2>2, <2>4, AppendParts
  <2>7. \A i \in 1..(m + 1) : i = m + 1 \/ i \in 1..m
    OBVIOUS
  <2> QED BY <2>3, <2>5, <2>6, <2>7
<1> QED BY <1>1, <1>2 DEF Extends

LEMMA SharedArgs ==
  ASSUME NEW k, NEW k2, NEW s, NEW c, Shared(k, s, c),
         Len(k2) = Len(k) /\ \A i \in 1..Len(k) : k2[i].call = k[i].call
  PROVE  Shared(k2, s, c)
BY DEF Shared

LEMMA SharedRead ==
  ASSUME NEW k \in Seq(Part), NEW c \in Seq(Fragments), Shared(k, <<>>, c),
         NEW s \in Seq(ChatEvents), NEW d \in Seq(Fragments), SameIndex(s, d)
  PROVE  Shared(k, s, c \o d)
<1>1. PICK m \in Nat, n \in Nat : m = Len(k) /\ n = Len(d)
  OBVIOUS
<1>2. PICK e : e = <<>>
  OBVIOUS
<1>3. Len(e) = 0
  BY <1>2
<1>4. Shared(k, e, c)
  BY <1>2
<1>5. Len(c) = m /\ \A i \in 1..m : k[i].call = c[i].index
  BY <1>1, <1>3, <1>4 DEF Shared
<1>6. PICK w : w = c \o d
  OBVIOUS
<1>7. Len(w) = m + n /\ \A i \in 1..(m + n) : w[i] = IF i <= m THEN c[i] ELSE d[i - m]
  <2>1. /\ Len(c \o d) = Len(c) + Len(d)
        /\ \A i \in 1..(Len(c) + Len(d)) : (c \o d)[i] = IF i <= Len(c) THEN c[i] ELSE d[i - Len(c)]
    BY ConcatProperties
  <2> QED BY <1>1, <1>5, <1>6, <2>1
<1>8. Len(s) = n /\ \A i \in 1..n : s[i].index = d[i].index
  BY <1>1 DEF SameIndex
<1>9. ASSUME NEW i \in 1..m PROVE k[i].call = w[i].index
  <2>1. i \in 1..(m + n) /\ i <= m
    OBVIOUS
  <2> QED BY <1>5, <1>7, <2>1
<1>10. ASSUME NEW i \in 1..n PROVE s[i].index = w[m + i].index
  <2>1. m + i \in 1..(m + n) /\ ~(m + i <= m) /\ (m + i) - m = i
    OBVIOUS
  <2> QED BY <1>7, <1>8, <2>1
<1>11. Shared(k, s, w)
  BY <1>1, <1>7, <1>8, <1>9, <1>10 DEF Shared
<1> QED BY <1>6, <1>11

(* What the accumulator holds of the calls said, when it takes an event.   *)
LEMMA SharedTaken ==
  ASSUME NEW a \in Accumulators, NEW x \in Seq(ChatEvents), x # <<>>, NEW c,
         Shared(a.calls, Starts(x), c),
         NEW e, e = Head(x), NEW t, t = Tail(x), NEW b, Collects(a, e, b)
  PROVE  Shared(b.calls, Starts(t), c)
<1>1. /\ e \in ChatEvents /\ Starts(t) \in Seq(ChatEvents)
      /\ e.type = "tool_call_start" => Starts(x) = <<e>> \o Starts(t)
      /\ e.type # "tool_call_start" => Starts(x) = Starts(t)
  BY Taken
<1>2. /\ IsText(e) <=> e.type = "text_delta"
      /\ IsStart(e) <=> e.type = "tool_call_start"
      /\ IsArgs(e) <=> e.type = "tool_args_delta"
  BY <1>1, ChatEventKinds
<1>3. a.calls \in Seq(Caught) /\ a.calls \in Seq(Part)
  BY AccumulatorFields
<1>4. CASE IsStart(e)
  <2>1. e.index \in Int /\ b.calls = Append(a.calls, NewPart("tool_use", e.index))
    BY <1>4 DEF Collects
  <2>2. PICK p \in Part : p = NewPart("tool_use", e.index) /\ p.call = e.index
    BY <2>1, NewPartFields, KindsDiffer
  <2>3. PICK s \in Seq(ChatEvents) : s = Starts(t)
    BY <1>1
  <2>4. Shared(a.calls, <<e>> \o s, c)
    BY <1>1, <1>2, <1>4, <2>3
  <2>5. Shared(Append(a.calls, p), s, c)
    BY <1>1, <1>3, <2>2, <2>4, SharedStart
  <2> QED BY <2>1, <2>2, <2>3, <2>5
<1>5. CASE IsArgs(e)
  <2>1. e.index \in Int /\ Extends(a.calls, e.index, b.calls)
    BY <1>5 DEF Collects
  <2>2. Len(b.calls) = Len(a.calls) /\ \A i \in 1..Len(a.calls) : b.calls[i].call = a.calls[i].call
    BY <1>3, <2>1, ExtendsCalls
  <2>3. Shared(a.calls, Starts(t), c)
    BY <1>1, <1>2, <1>5
  <2> QED BY <2>2, <2>3, SharedArgs
<1>6. CASE ~IsStart(e) /\ ~IsArgs(e)
  <2>1. b.calls = a.calls
    BY <1>6 DEF Collects
  <2> QED BY <1>1, <1>2, <1>6, <2>1
<1> QED BY <1>4, <1>5, <1>6

-----------------------------------------------------------------------------
(* The invariant                                                           *)

(* The statuses a stream that has read these frames may end with.          *)
Allowed(s, fs) ==
  IF s = "responses" THEN {x \in Statuses : x = "completed" => EndIn(fs)} ELSE {"none"}

TypeInv ==
  /\ surface \in AllSurfaces
  /\ pc \in {"reading", "running", "draining", "over"}
  /\ captured \in Accumulators
  /\ eof \in BOOLEAN /\ connected \in BOOLEAN
  /\ frames \in Seq(Frames[Protocol(surface)])
  /\ todo \in Seq(AllEvents)
  /\ surface \in Nested => todo \in Seq(ChatEvents)
  /\ surface = "chat" => todo \in Seq(KnownFrames)
  /\ Verbatim(surface) => todo = <<>>

Control ==
  /\ pc = "over" <=> outcome # "none"
  /\ outcome # "threw"
  /\ completions = IF pc = "over" THEN <<Completion>> ELSE <<>>
  /\ pc = "reading" => pending = <<>> /\ todo = <<>> /\ ~tr.finished /\ ~eof
  /\ outcome = "ended" => tr.finished /\ pending = <<>>

(* The translator has taken the usage of all frames but what is left of    *)
(* the current one.                                                        *)
UsageKept ==
  /\ tr.usage \cup UsageOf(todo) = Stated(surface, frames, Len(frames))
  /\ Stated(surface, frames, Len(frames) - 1) \subseteq tr.usage

(* What a chat upstream said is caught, or about to be.                    *)
SaidKept ==
  surface \in Nested =>
    /\ Has(todo, "done") => Len(todo) = 1
    /\ tr.finished => todo = <<>>
    /\ Has(todo, "done") \/ Has(todo, "finish") \/ tr.reason # "none" => EndIn(frames)
    /\ captured.text > 0 \/ Has(todo, "text_delta") <=> TextIn(frames)
    /\ Shared(captured.calls, Starts(todo), CallsIn(frames))

(* The client is at a, the encoder as well, and what is pending leads from *)
(* there to b, where the translator is.                                    *)
Between(a, b) ==
  /\ view = ViewAt(a) /\ EncoderAt(surface, enc, a)
  /\ Leads(surface, a, pending, b, captured, Allowed(surface, frames))
  /\ Agrees(surface, tr, b)
  /\ surface \in Translated \/ ~eof => Matches(surface, b, captured)

At(a) == view = ViewAt(a) /\ Fits(surface, a, captured, Allowed(surface, frames))

Placed ==
  /\ \E a : At(a)
  /\ outcome # "left" => \E a, b : Between(a, b)

StreamInv == TypeInv /\ Control /\ UsageKept /\ SaidKept /\ Placed

LEMMA AtBetween ==
  ASSUME NEW a, NEW b, Between(a, b)
  PROVE  At(a)
BY LeadsEnds DEF Between, At

(* The frames a surface reads, and what they decode to.                    *)
LEMMA SurfaceProtocols ==
  /\ Nested \subseteq Translated /\ "chat" \in Translated /\ "chat" \notin Nested
  /\ \A s \in AllSurfaces : Protocol(s) \in Protocols
  /\ \A s \in Nested : Protocol(s) = "openai_chat"
  /\ \A s \in Translated : Protocol(s) = "openai_chat" <=> s \in Nested
  /\ Protocol("chat") = "anthropic"
  /\ \A s \in AllSurfaces : Verbatim(s) <=> s \notin Translated
BY DEF Nested, Translated, AllSurfaces, Protocol, Protocols, Verbatim

LEMMA ProtocolFrames ==
  ASSUME NEW s \in AllSurfaces, NEW f \in Frames[Protocol(s)]
  PROVE  /\ Protocol(s) = "openai_chat" => f \in Upstream!ChatFrames /\ (f.done => f = Upstream!Done)
         /\ Protocol(s) = "anthropic" => f \in Upstream!AnthropicFrames
         /\ Protocol(s) = "openai_responses" => f \in Upstream!ResponsesFrames
         /\ Protocol(s) \in {"openai_chat", "anthropic", "openai_responses"}
<1>1. Protocol(s) \in {"openai_chat", "anthropic", "openai_responses"}
  BY SurfaceProtocols DEF Protocols
<1> QED BY <1>1, StreamAssumption

LEMMA DecodedFrame ==
  ASSUME NEW s \in AllSurfaces, NEW f \in Frames[Protocol(s)], NEW x, x = Decode(s, f)
  PROVE  /\ x \in Seq(AllEvents)
         /\ s \in Nested => f \in Upstream!ChatFrames /\ SaysChat(x, f)
         /\ s = "chat" => x \in Seq(KnownFrames)
<1>1. ChatEvents \subseteq AllEvents /\ KnownFrames \subseteq AllEvents
      /\ Upstream!ResponsesFrames \subseteq AllEvents
  BY DEF AllEvents, KnownFrames
<1>2. CASE Protocol(s) = "openai_chat"
  <2>1. x = Upstream!DecodeChat(f)
    BY <1>2 DEF Decode
  <2>2. f \in Upstream!ChatFrames /\ (f.done => f = Upstream!Done)
    BY <1>2, ProtocolFrames
  <2>3. SaysChat(x, f)
    BY <2>1, <2>2, DecodedChat
  <2>4. x \in Seq(ChatEvents)
    BY <2>3 DEF SaysChat
  <2>5. x \in Seq(AllEvents)
    BY <1>1, <2>4
  <2>6. s # "chat"
    BY <1>2, SurfaceProtocols
  <2> QED BY <2>2, <2>3, <2>5, <2>6
<1>3. CASE Protocol(s) = "anthropic"
  <2>1. x = Upstream!DecodeAnthropic(f)
    BY <1>3 DEF Decode
  <2>2. f \in Upstream!AnthropicFrames
    BY <1>3, ProtocolFrames
  <2>3. x \in Seq(KnownFrames)
    <3>1. CASE f.type # "unknown"
      <4>1. f \in KnownFrames
        BY <2>2, <3>1 DEF KnownFrames
      <4>2. x = <<f>>
        BY <2>1, <3>1 DEF Upstream!DecodeAnthropic, Upstream!When
      <4> QED BY <4>1, <4>2
    <3>2. CASE f.type = "unknown"
      <4>1. x = <<>>
        BY <2>1, <3>2 DEF Upstream!DecodeAnthropic, Upstream!When
      <4> QED BY <4>1
    <3> QED BY <3>1, <3>2
  <2>4. x \in Seq(AllEvents)
    BY <1>1, <2>3
  <2>5. s \notin Nested
    BY <1>3, SurfaceProtocols
  <2> QED BY <2>3, <2>4, <2>5
<1>4. CASE Protocol(s) = "openai_responses"
  <2>1. x = <<f>>
    BY <1>4 DEF Decode, Upstream!DecodeResponses
  <2>2. f \in AllEvents
    BY <1>1, <1>4, ProtocolFrames
  <2>3. x \in Seq(AllEvents)
    BY <2>1, <2>2
  <2>4. s \notin Nested /\ s # "chat"
    BY <1>4, SurfaceProtocols
  <2> QED BY <2>3, <2>4
<1> QED BY <1>2, <1>3, <1>4, ProtocolFrames

LEMMA AllowedGrows ==
  ASSUME NEW s \in AllSurfaces, NEW fs \in Seq(Frames[Protocol(s)]), NEW f \in Frames[Protocol(s)],
         NEW t, t = Append(fs, f)
  PROVE  Allowed(s, fs) \subseteq Allowed(s, t)
<1>1. CASE s = "responses"
  <2>1. Protocol(s) = "openai_chat"
    BY <1>1, SurfaceProtocols DEF Nested
  <2>2. Frames[Protocol(s)] \subseteq Upstream!ChatFrames
    BY <2>1, ProtocolFrames
  <2>3. fs \in Seq(Upstream!ChatFrames) /\ f \in Upstream!ChatFrames
    BY <2>2
  <2>4. EndIn(fs) => EndIn(t)
    BY <2>3, SaidAppend
  <2> QED BY <2>4 DEF Allowed
<1>2. CASE s # "responses"
  BY <1>2 DEF Allowed
<1> QED BY <1>1, <1>2

LEMMA FitsAllowed ==
  ASSUME NEW s, NEW a, NEW cap, NEW allowed, NEW more, Fits(s, a, cap, allowed), allowed \subseteq more
  PROVE  Fits(s, a, cap, more)
BY DEF Fits

LEMMA MatchesOne ==
  ASSUME NEW s, NEW a, Len(CallsOf(a.parts)) = 0, NEW cap, Len(cap.calls) = 0, cap.text = 0
  PROVE  Matches(s, a, cap)
BY DEF Matches

LEMMA NewStates ==
  /\ NewTranslator("messages") = Messages!Translator /\ NewEncoder("messages") = Messages!Encoder
  /\ NewTranslator("responses") = Responses!Translator /\ NewEncoder("responses") = Responses!Encoder
  /\ NewTranslator("chat") = Chat!Translator /\ NewEncoder("chat") = Chat!Encoder
  /\ \A s : Verbatim(s) =>
       NewTranslator(s) = [finished |-> FALSE, usage |-> {}] /\ NewEncoder(s) = <<>>
<1>1. /\ NewTranslator("messages") = Messages!Translator /\ NewEncoder("messages") = Messages!Encoder
      /\ NewTranslator("responses") = Responses!Translator /\ NewEncoder("responses") = Responses!Encoder
      /\ NewTranslator("chat") = Chat!Translator /\ NewEncoder("chat") = Chat!Encoder
  BY DEF NewTranslator, NewEncoder, Verbatim, Translated
<1>2. \A s : Verbatim(s) =>
        NewTranslator(s) = [finished |-> FALSE, usage |-> {}] /\ NewEncoder(s) = <<>>
  BY DEF NewTranslator, NewEncoder, Verbatim, Translated
<1> QED BY <1>1, <1>2

(* The pipeline starts where the client is.                                *)
LEMMA InitInv == Init => StreamInv
<1> SUFFICES ASSUME Init PROVE StreamInv
  OBVIOUS
<1>1. /\ surface \in Surfaces /\ pc = "reading" /\ tr = NewTranslator(surface) /\ enc = NewEncoder(surface)
      /\ captured = NewAccumulator /\ todo = <<>> /\ pending = <<>> /\ eof = FALSE /\ connected = TRUE
      /\ completions = <<>> /\ outcome = "none" /\ frames = <<>> /\ view = Client!NewView
  BY DEF Init
<1>2. surface \in AllSurfaces
  BY <1>1, StreamAssumption
<1>3. PICK e : e = <<>>
  OBVIOUS
<1>4. Len(e) = 0 /\ \A S : e \in Seq(S)
  BY <1>3
<1>5. captured \in Accumulators /\ captured.text = 0 /\ captured.calls = e
  <2>1. captured = [text |-> 0, truncated |-> FALSE, calls |-> e]
    BY <1>1, <1>3 DEF NewAccumulator
  <2> QED BY <1>4, <2>1 DEF Accumulators
<1>6. ~tr.finished /\ tr.usage = {}
  BY <1>1, <1>2, NewStates, SurfaceProtocols, SurfaceKinds
    DEF Messages!Translator, Responses!Translator, Chat!Translator
<1>7. TypeInv
  BY <1>1, <1>2, <1>3, <1>4, <1>5 DEF TypeInv
<1>8. Control
  BY <1>1, <1>6 DEF Control
<1>9. UsageKept
  <2>1. UsageOf(todo) = {}
    BY <1>1, UsageNothing
  <2>2. Len(frames) = 0
    BY <1>1, <1>3, <1>4
  <2>3. Stated(surface, frames, Len(frames)) = {} /\ Stated(surface, frames, Len(frames) - 1) = {}
    BY <2>2, StatedNothing
  <2> QED BY <1>6, <2>1, <2>3 DEF UsageKept
<1>10. SaidKept
  <2>1. SUFFICES ASSUME surface \in Nested PROVE SaidKept
    BY DEF SaidKept
  <2>2. tr.reason = "none"
    BY <1>1, <2>1, NewStates DEF Nested, Messages!Translator, Responses!Translator
  <2>3. ~Has(todo, "done") /\ ~Has(todo, "finish") /\ ~Has(todo, "text_delta")
    BY <1>1, HasNothing
  <2>4. ~TextIn(frames) /\ CallsIn(frames) = e
    BY <1>1, <1>3, NothingSaid
  <2>5. Starts(todo) = e
    BY <1>1, <1>3, KeepEmpty DEF Starts
  <2>6. Shared(e, e, e)
    BY <1>4 DEF Shared
  <2>7. ~(captured.text > 0)
    BY <1>5
  <2> QED BY <1>1, <1>5, <2>2, <2>3, <2>4, <2>5, <2>6, <2>7 DEF SaidKept
<1>11. Placed
  <2>1. PICK a : a = Place("before", "none", e, FALSE, "none")
    OBVIOUS
  <2>2. a.stage = "before" /\ a.open = "none" /\ a.parts = e /\ a.text = FALSE /\ a.status = "none"
    BY <2>1 DEF Place
  <2>3. a \in Places
    BY <1>4, <2>1 DEF Places, Place, Stages, Statuses
  <2>4. view = ViewAt(a)
    BY <1>1, <1>3, <2>2 DEF Client!NewView, ViewAt, Sheet
  <2>5. EncoderAt(surface, enc, a)
    <3>1. ASSUME surface = "messages" PROVE MessagesEncoder(enc, a)
      BY <1>1, <1>4, <2>2, <3>1, NewStates DEF Messages!Encoder, MessagesEncoder
    <3>2. ASSUME surface = "responses" PROVE ResponsesEncoder(enc, a)
      <4>1. enc = [created |-> FALSE, done |-> FALSE, open |-> "none", call |-> NoCall,
                   got |-> e, next |-> 0, items |-> e]
        BY <1>1, <1>3, <3>2, NewStates DEF Responses!Encoder, NoCall, Responses!NoIndex
      <4>2. enc = [created |-> a.stage # "before", done |-> a.stage = "done", open |-> a.open,
                   call |-> NoCall, got |-> e, next |-> Len(a.parts), items |-> e]
        BY <1>4, <2>2, <4>1
      <4>3. e \in Seq(Part)
        BY <1>4
      <4> QED BY <2>2, <4>2, <4>3 DEF ResponsesEncoder
    <3>3. ASSUME surface = "chat" PROVE ChatEncoder(enc, a)
      BY <1>1, <2>2, <3>3, NewStates DEF Chat!Encoder, ChatEncoder
    <3>4. ASSUME Verbatim(surface) PROVE enc = <<>>
      BY <1>1, <3>4, NewStates
    <3> QED BY <3>1, <3>2, <3>3, <3>4 DEF EncoderAt
  <2>6. CallsOf(a.parts) = e
    BY <1>3, <2>2, KeepEmpty DEF CallsOf
  <2>7. Fits(surface, a, captured, Allowed(surface, frames))
    <3>1. Sound(surface, a)
      BY <2>2, <2>3 DEF Sound
    <3>2. a.status \in Allowed(surface, frames)
      BY <2>2 DEF Allowed, Statuses
    <3>3. Told(CallsOf(a.parts), captured.calls)
      BY <1>4, <1>5, <2>6 DEF Told
    <3>4. FiledParts(a.parts)
      BY <1>4, <2>2 DEF FiledParts
    <3> QED BY <2>2, <3>1, <3>2, <3>3, <3>4 DEF Fits
  <2>8. Leads(surface, a, pending, a, captured, Allowed(surface, frames))
    <3>1. PICK cap, allowed : cap = captured /\ allowed = Allowed(surface, frames)
      OBVIOUS
    <3>2. Leads(surface, a, <<>>, a, cap, allowed)
      BY <2>7, <3>1, LeadsNothing
    <3> QED BY <1>1, <3>1, <3>2
  <2>9. Agrees(surface, tr, a)
    <3>1. ASSUME surface \in Translated PROVE InStep(tr, a)
      BY <1>1, <1>6, <2>2, <3>1, NewStates, SurfaceKinds
        DEF InStep, Messages!Translator, Responses!Translator, Chat!Translator
    <3>2. ASSUME surface = "messages" PROVE MessagesAgrees(tr, a)
      <4>1. tr = Messages!Translator
        BY <1>1, <3>2, NewStates
      <4>2. tr.open = "none"
        BY <4>1 DEF Messages!Translator
      <4>3. tr \in MessagesTranslators
        BY <4>1 DEF Messages!Translator, MessagesTranslators, Messages!NoIndex, Reasons
      <4> QED BY <2>2, <3>1, <3>2, <4>2, <4>3, SurfaceKinds DEF MessagesAgrees
    <3>3. ASSUME surface = "responses" PROVE ResponsesAgrees(tr, a)
      <4>1. tr = Responses!Translator
        BY <1>1, <3>3, NewStates
      <4>2. tr.open = "none"
        BY <4>1 DEF Responses!Translator
      <4>3. tr \in ResponsesTranslators
        BY <4>1 DEF Responses!Translator, ResponsesTranslators, Reasons
      <4> QED BY <2>2, <3>1, <3>3, <4>2, <4>3, SurfaceKinds DEF ResponsesAgrees
    <3>4. ASSUME surface = "chat" PROVE ChatAgrees(tr, a)
      <4>1. tr = Chat!Translator
        BY <1>1, <3>4, NewStates
      <4>2. tr.open = "none" /\ tr.tool = 0 - 1
        BY <4>1 DEF Chat!Translator, Chat!NoIndex
      <4>3. tr \in ChatTranslators
        BY <4>1 DEF Chat!Translator, ChatTranslators, Chat!NoIndex
      <4>4. AllTools(a.parts)
        BY <1>4, <2>2 DEF AllTools
      <4> QED BY <1>4, <2>2, <3>1, <3>4, <4>2, <4>3, <4>4, SurfaceKinds DEF ChatAgrees
    <3>5. ASSUME Verbatim(surface) PROVE tr \in Observers /\ a.open = "none"
      <4>1. tr = [finished |-> FALSE, usage |-> {}]
        BY <1>1, <3>5, NewStates
      <4>2. tr \in Observers
        BY <4>1 DEF Observers
      <4> QED BY <2>2, <4>2
    <3> QED BY <3>2, <3>3, <3>4, <3>5 DEF Agrees
  <2>10. Matches(surface, a, captured)
    BY <1>4, <1>5, <2>6, MatchesOne
  <2>11. Between(a, a)
    BY <2>4, <2>5, <2>8, <2>9, <2>10 DEF Between
  <2> QED BY <2>11, AtBetween DEF Placed
<1> QED BY <1>7, <1>8, <1>9, <1>10, <1>11 DEF StreamInv

-----------------------------------------------------------------------------
(* The steps that only move control                                        *)

LEMMA Completed ==
  ASSUME Control, pc # "over", Complete, UNCHANGED <<surface, tr, captured>>
  PROVE  completions' = <<Completion'>>
<1>1. completions = <<>>
  BY DEF Control
<1>2. Completion' = Completion
  BY DEF Completion, Reported
<1>3. PICK c : c = Completion
  OBVIOUS
<1>4. Append(<<>>, c) = <<c>>
  <2>1. PICK e \in Seq({c}) : e = <<>>
    <3>1. PICK e : e = <<>>
      OBVIOUS
    <3>2. e \in Seq({c})
      BY <3>1
    <3> QED BY <3>1, <3>2
  <2>2. e \o <<c>> = Append(e, c)
    BY ConcatOne
  <2>3. <<c>> \in Seq({c})
    OBVIOUS
  <2>4. e \o <<c>> = <<c>>
    BY <2>1, <2>3, ConcatEmptySeq
  <2> QED BY <2>1, <2>2, <2>4
<1> QED BY <1>1, <1>2, <1>3, <1>4 DEF Complete

LEMMA Quiet ==
  ASSUME StreamInv, UNCHANGED <<surface, tr, enc, captured, todo, pending, frames, eof, view>>,
         pc' \in {"reading", "running", "draining", "over"}, connected' \in BOOLEAN, Control',
         outcome # "left"
  PROVE  StreamInv'
<1>1. TypeInv'
  BY DEF StreamInv, TypeInv
<1>2. UsageKept'
  BY DEF StreamInv, UsageKept
<1>3. SaidKept'
  BY DEF StreamInv, SaidKept
<1>4. Placed'
  <2>1. PICK a, b : Between(a, b)
    BY DEF StreamInv, Placed
  <2>2. At(a)
    BY <2>1, AtBetween
  <2>3. Between(a, b)' /\ At(a)'
    BY <2>1, <2>2 DEF Between, At
  <2> QED BY <2>3 DEF Placed
<1> QED BY <1>1, <1>2, <1>3, <1>4 DEF StreamInv

LEMMA Ongoing ==
  ASSUME StreamInv, pc # "over"
  PROVE  outcome = "none" /\ completions = <<>>
BY DEF StreamInv, Control

LEMMA AskUpstreamInv == StreamInv /\ AskUpstream => StreamInv'
<1> SUFFICES ASSUME StreamInv, AskUpstream PROVE StreamInv'
  OBVIOUS
<1>1. outcome = "none" /\ completions = <<>>
  BY Ongoing DEF AskUpstream
<1>2. Control'
  BY <1>1 DEF Control, StreamInv, AskUpstream
<1>3. connected' \in BOOLEAN
  BY DEF StreamInv, TypeInv, AskUpstream
<1> QED BY <1>1, <1>2, <1>3, Quiet DEF AskUpstream

LEMMA DrainedInv == StreamInv /\ Drained => StreamInv'
<1> SUFFICES ASSUME StreamInv, Drained PROVE StreamInv'
  OBVIOUS
<1>1. outcome = "none" /\ completions = <<>>
  BY Ongoing DEF Drained
<1>2. Control'
  BY <1>1 DEF Control, StreamInv, Drained
<1>3. connected' \in BOOLEAN
  BY DEF StreamInv, TypeInv, Drained
<1> QED BY <1>1, <1>2, <1>3, Quiet DEF Drained

LEMMA DisconnectInv == StreamInv /\ Disconnect => StreamInv'
<1> SUFFICES ASSUME StreamInv, Disconnect PROVE StreamInv'
  OBVIOUS
<1>1. outcome = "none" /\ completions = <<>>
  BY Ongoing DEF Disconnect
<1>2. Control'
  BY <1>1 DEF Control, StreamInv, Disconnect
<1>3. connected' \in BOOLEAN /\ pc' \in {"reading", "running", "draining", "over"}
  BY DEF Disconnect
<1> QED BY <1>1, <1>2, <1>3, Quiet DEF Disconnect

LEMMA ReadFailsInv == StreamInv /\ ReadFails => StreamInv'
<1> SUFFICES ASSUME StreamInv, ReadFails PROVE StreamInv'
  OBVIOUS
<1>1. outcome = "none" /\ completions = <<>>
  BY Ongoing DEF ReadFails
<1>2. completions' = <<Completion'>>
  BY Completed DEF StreamInv, ReadFails
<1>3. Control'
  BY <1>1, <1>2 DEF Control, StreamInv, ReadFails
<1>4. connected' \in BOOLEAN
  BY DEF StreamInv, TypeInv, ReadFails
<1> QED BY <1>1, <1>3, <1>4, Quiet DEF ReadFails

LEMMA ReturnInv == StreamInv /\ Return => StreamInv'
<1> SUFFICES ASSUME StreamInv, Return PROVE StreamInv'
  OBVIOUS
<1>1. outcome = "none" /\ completions = <<>>
  BY Ongoing DEF Return
<1>2. completions' = <<Completion'>>
  BY Completed DEF StreamInv, Return
<1>3. Control'
  BY <1>1, <1>2 DEF Control, StreamInv, Return
<1>4. connected' \in BOOLEAN
  BY DEF StreamInv, TypeInv, Return
<1> QED BY <1>1, <1>3, <1>4, Quiet DEF Return

-----------------------------------------------------------------------------
(* The writer                                                              *)

(* What the writer asks for next is in order, and takes the client on.     *)
LEMMA NextRecord ==
  ASSUME StreamInv, pc # "over", pending # <<>>, NEW ev, ev = Head(pending)
  PROVE  /\ Legal(ev)
         /\ \E a, b, c : /\ Between(a, b)
                         /\ EncoderAt(surface, Encoded(ev), c) /\ Shown(ev) = ViewAt(c)
                         /\ Leads(surface, c, Tail(pending), b, captured, Allowed(surface, frames))
<1>1. outcome = "none"
  BY Ongoing
<1>2. PICK a, b : Between(a, b)
  BY <1>1 DEF StreamInv, Placed
<1>3. PICK allowed : allowed = Allowed(surface, frames)
  OBVIOUS
<1>4. Leads(surface, a, pending, b, captured, allowed)
  BY <1>2, <1>3 DEF Between
<1>5. PICK c : Follows(surface, a, ev, c) /\ Leads(surface, c, Tail(pending), b, captured, allowed)
  BY <1>4, LeadsHead
<1>6. surface \in AllSurfaces
  BY DEF StreamInv, TypeInv
<1>7. Sound(surface, a)
  BY <1>4, LeadsEnds, FitsPlace
<1>8. view = ViewAt(a) /\ EncoderAt(surface, enc, a)
  BY <1>2 DEF Between
<1>9. Moves(surface, a, ev, c) /\ (Verbatim(surface) => ev \in Accumulators)
  BY <1>5 DEF Follows
<1>10. Legal(ev) /\ EncoderAt(surface, Encoded(ev), c) /\ Shown(ev) = ViewAt(c)
  BY <1>6, <1>7, <1>8, <1>9, Conforms
<1> QED BY <1>2, <1>3, <1>5, <1>10

LEMMA WriteInv == StreamInv /\ Write => StreamInv'
<1> SUFFICES ASSUME StreamInv, Write PROVE StreamInv'
  OBVIOUS
<1>1. PICK ev : ev = Head(pending)
  OBVIOUS
<1>2. pc = "running" /\ pending # <<>>
  BY DEF Write
<1>3. outcome = "none" /\ completions = <<>>
  BY <1>2, Ongoing
<1>4. Legal(ev)
  BY <1>1, <1>2, NextRecord
<1>5. PICK a, b, c : /\ Between(a, b)
                     /\ EncoderAt(surface, Encoded(ev), c) /\ Shown(ev) = ViewAt(c)
                     /\ Leads(surface, c, Tail(pending), b, captured, Allowed(surface, frames))
  BY <1>1, <1>2, NextRecord
<1>6. /\ enc' = Encoded(ev) /\ view' = Shown(ev) /\ pending' = Tail(pending)
      /\ pc' \in {"running", "draining"} /\ UNCHANGED <<completions, outcome>>
      /\ UNCHANGED <<surface, tr, captured, todo, eof, connected, frames>>
  BY <1>1, <1>4 DEF Write
<1>7. TypeInv'
  BY <1>6 DEF StreamInv, TypeInv
<1>8. Control'
  BY <1>2, <1>3, <1>6 DEF StreamInv, Control
<1>9. UsageKept' /\ SaidKept'
  BY <1>6 DEF StreamInv, UsageKept, SaidKept
<1>10. Between(c, b)'
  <2>1. view' = ViewAt(c) /\ EncoderAt(surface', enc', c)
    BY <1>5, <1>6
  <2>2. Leads(surface', c, pending', b, captured', Allowed(surface', frames'))
    BY <1>5, <1>6
  <2>3. Agrees(surface', tr', b) /\ (surface' \in Translated \/ ~eof' => Matches(surface', b, captured'))
    BY <1>5, <1>6 DEF Between
  <2> QED BY <2>1, <2>2, <2>3 DEF Between
<1>11. At(c)'
  <2>1. Fits(surface, c, captured, Allowed(surface, frames))
    BY <1>5, LeadsEnds
  <2> QED BY <1>5, <1>6, <2>1 DEF At
<1>12. Placed'
  BY <1>10, <1>11 DEF Placed
<1> QED BY <1>7, <1>8, <1>9, <1>12 DEF StreamInv

LEMMA LeaveInv == StreamInv /\ Leave => StreamInv'
<1> SUFFICES ASSUME StreamInv, Leave PROVE StreamInv'
  OBVIOUS
<1>1. PICK ev : ev = Head(pending)
  OBVIOUS
<1>2. pc = "running" /\ pending # <<>>
  BY DEF Leave
<1>3. outcome = "none" /\ completions = <<>>
  BY <1>2, Ongoing
<1>4. Legal(ev)
  BY <1>1, <1>2, NextRecord
<1>5. /\ Complete /\ outcome' = "left" /\ pc' = "over" /\ UNCHANGED view
      /\ UNCHANGED <<surface, tr, captured, todo, eof, connected, frames>>
  BY <1>1, <1>4 DEF Leave
<1>6. completions' = <<Completion'>>
  BY <1>2, <1>5, Completed DEF StreamInv
<1>7. TypeInv'
  BY <1>5 DEF StreamInv, TypeInv
<1>8. Control'
  BY <1>5, <1>6 DEF Control
<1>9. UsageKept' /\ SaidKept'
  BY <1>5 DEF StreamInv, UsageKept, SaidKept
<1>10. Placed'
  <2>1. PICK a : At(a)
    BY DEF StreamInv, Placed
  <2>2. At(a)'
    BY <1>5, <2>1 DEF At
  <2> QED BY <1>5, <2>2 DEF Placed
<1> QED BY <1>7, <1>8, <1>9, <1>10 DEF StreamInv

-----------------------------------------------------------------------------
(* The translator                                                          *)

LEMMA SurfacePushes ==
  ASSUME NEW e
  PROVE  /\ surface = "messages" => Implied(e) = Messages!Implied(tr, e) /\ Pushed(e) = Messages!Pushed(tr, e)
         /\ surface = "responses" => Implied(e) = Responses!Implied(tr, e) /\ Pushed(e) = Responses!Pushed(tr, e)
         /\ surface = "chat" => Implied(e) = Chat!Implied(tr, e) /\ Pushed(e) = Chat!Pushed(tr, e)
BY DEF Implied, Pushed

LEMMA SurfaceEnds ==
  /\ surface = "messages" => Ending = Messages!Ending(tr) /\ Ended = Messages!Ended(tr)
  /\ surface = "responses" => Ending = Responses!Ending(tr) /\ Ended = Responses!Ended(tr)
  /\ surface = "chat" => Ending = Chat!Ending(tr) /\ Ended = Chat!Ended(tr)
  /\ Verbatim(surface) => Ending = <<>> /\ Ended = [tr EXCEPT !.finished = TRUE]
BY DEF Ending, Ended, Verbatim, Translated

(* Nothing is pending: client, encoder and translator are at one place.    *)
LEMMA Caughtup ==
  ASSUME StreamInv, pc # "over", pending = <<>>
  PROVE  \E a : /\ Between(a, a) /\ Fits(surface, a, captured, Allowed(surface, frames))
                /\ Agrees(surface, tr, a)
                /\ surface \in Translated \/ ~eof => Matches(surface, a, captured)
<1>1. PICK a, b : Between(a, b)
  BY Ongoing DEF StreamInv, Placed
<1>2. PICK allowed : allowed = Allowed(surface, frames)
  OBVIOUS
<1>3. Leads(surface, a, pending, b, captured, allowed)
  BY <1>1, <1>2 DEF Between
<1>4. a = b /\ Fits(surface, a, captured, allowed)
  BY <1>3, LeadsEnds
<1> QED BY <1>1, <1>2, <1>4 DEF Between

LEMMA StatusAllowed ==
  /\ surface = "responses" => "incomplete" \in Allowed(surface, frames)
  /\ surface = "responses" /\ EndIn(frames) => "completed" \in Allowed(surface, frames)
BY DEF Allowed, Statuses

LEMMA PushStep ==
  ASSUME StreamInv, pc # "over", ~tr.finished, todo # <<>>, pending = <<>>,
         NEW e, e = Head(todo), NEW cap2, cap2 = Accumulated(captured, e), NEW u, u = Pushed(e)
  PROVE  /\ Collects(captured, e, cap2)
         /\ u.usage = tr.usage \cup Upstream!UsageIn(e)
         /\ surface \in Nested =>
              /\ u.reason = IF e.type = "finish" THEN e.reason ELSE tr.reason
              /\ u.finished <=> e.type = "done"
         /\ \E a : /\ Between(a, a)
                   /\ Arrives(surface, a, Implied(e), u, cap2, Allowed(surface, frames))
<1>1. captured \in Accumulators /\ todo \in Seq(AllEvents) /\ surface \in AllSurfaces
  BY DEF StreamInv, TypeInv
<1>2. e \in AllEvents
  BY <1>1, UsageHead
<1>3. Collects(captured, e, cap2)
  BY <1>1, <1>2, AccumulatedCollects
<1>4. surface \in Translated
  BY <1>1, SurfaceProtocols DEF StreamInv, TypeInv
<1>5. PICK a : /\ Between(a, a) /\ Fits(surface, a, captured, Allowed(surface, frames))
               /\ Agrees(surface, tr, a) /\ Matches(surface, a, captured)
  BY <1>4, Caughtup
<1>6. PICK allowed : allowed = Allowed(surface, frames)
  OBVIOUS
<1>7. CASE surface = "messages"
  <2>1. e \in ChatEvents
    <3>1. todo \in Seq(ChatEvents)
      BY <1>7 DEF StreamInv, TypeInv, Nested
    <3> QED BY <3>1, UsageHead
  <2>2. MessagesAgrees(tr, a) /\ tr \in MessagesTranslators
    BY <1>5, <1>7 DEF Agrees, MessagesAgrees
  <2>3. Fits("messages", a, captured, allowed) /\ Matches("messages", a, captured)
    BY <1>5, <1>6, <1>7
  <2>4. u = Messages!Pushed(tr, e) /\ Implied(e) = Messages!Implied(tr, e)
    BY <1>7, SurfacePushes
  <2>5. Arrives("messages", a, Messages!Implied(tr, e), Messages!Pushed(tr, e), cap2, allowed)
    BY <1>1, <1>3, <2>1, <2>2, <2>3, MessagesPush
  <2>6. /\ u.usage = IF e.type = "usage" THEN {"input", "output"} ELSE tr.usage
        /\ u.reason = IF e.type = "finish" THEN e.reason ELSE tr.reason
        /\ u.finished <=> e.type = "done"
    BY <2>1, <2>2, <2>4, MessagesPushed
  <2>7. tr.usage \subseteq {"input", "output"}
    BY <2>2 DEF MessagesTranslators
  <2>8. Upstream!UsageIn(e) = IF e.type = "usage" THEN {"input", "output"} ELSE {}
    BY <1>2, <2>1, UsageInFields
  <2>9. u.usage = tr.usage \cup Upstream!UsageIn(e)
    BY <2>6, <2>7, <2>8
  <2> QED BY <1>3, <1>5, <1>6, <1>7, <2>4, <2>5, <2>6, <2>9
<1>8. CASE surface = "responses"
  <2>1. e \in ChatEvents /\ (e.type = "done" => EndIn(frames))
    <3>1. todo \in Seq(ChatEvents)
      BY <1>8 DEF StreamInv, TypeInv, Nested
    <3>2. e \in ChatEvents /\ (Has(todo, "done") <=> e.type = "done" \/ Has(Tail(todo), "done"))
      BY <3>1, Taken
    <3>3. Has(todo, "done") => EndIn(frames)
      BY <1>8 DEF StreamInv, SaidKept, Nested
    <3> QED BY <3>2, <3>3
  <2>2. ResponsesAgrees(tr, a) /\ tr \in ResponsesTranslators
    BY <1>5, <1>8 DEF Agrees, ResponsesAgrees
  <2>3. Fits("responses", a, captured, allowed) /\ Matches("responses", a, captured)
    BY <1>5, <1>6, <1>8
  <2>4. u = Responses!Pushed(tr, e) /\ Implied(e) = Responses!Implied(tr, e)
    BY <1>8, SurfacePushes
  <2>10. "incomplete" \in allowed /\ (e.type = "done" => "completed" \in allowed)
    BY <1>6, <1>8, <2>1, StatusAllowed
  <2>5. Arrives("responses", a, Responses!Implied(tr, e), Responses!Pushed(tr, e), cap2, allowed)
    BY <1>1, <1>3, <2>1, <2>2, <2>3, <2>10, ResponsesPush
  <2>6. /\ u.usage = IF e.type = "usage" THEN {"input", "output"} ELSE tr.usage
        /\ u.reason = IF e.type = "finish" THEN e.reason ELSE tr.reason
        /\ u.finished <=> e.type = "done"
    BY <2>1, <2>2, <2>4, ResponsesPushed
  <2>7. tr.usage \subseteq {"input", "output"}
    BY <2>2 DEF ResponsesTranslators
  <2>8. Upstream!UsageIn(e) = IF e.type = "usage" THEN {"input", "output"} ELSE {}
    BY <1>2, <2>1, UsageInFields
  <2>9. u.usage = tr.usage \cup Upstream!UsageIn(e)
    BY <2>6, <2>7, <2>8
  <2> QED BY <1>3, <1>5, <1>6, <1>8, <2>4, <2>5, <2>6, <2>9
<1>9. CASE surface = "chat"
  <2>1. e \in KnownFrames
    <3>1. todo \in Seq(KnownFrames)
      BY <1>9 DEF StreamInv, TypeInv
    <3> QED BY <3>1, UsageHead
  <2>2. ChatAgrees(tr, a) /\ tr \in ChatTranslators
    BY <1>5, <1>9 DEF Agrees, ChatAgrees
  <2>3. Fits("chat", a, captured, allowed) /\ Matches("chat", a, captured)
    BY <1>5, <1>6, <1>9
  <2>4. u = Chat!Pushed(tr, e) /\ Implied(e) = Chat!Implied(tr, e)
    BY <1>9, SurfacePushes
  <2>5. Arrives("chat", a, Chat!Implied(tr, e), Chat!Pushed(tr, e), cap2, allowed)
    BY <1>1, <1>3, <2>1, <2>2, <2>3, ChatPush
  <2>6. u.usage = IF e.type \in {"message_start", "message_delta"} THEN tr.usage \cup e.usage ELSE tr.usage
    <3>1. PICK t \in ChatTranslators : t = tr
      BY <2>2
    <3>2. ~t.finished /\ u = Chat!Pushed(t, e)
      BY <2>4, <3>1
    <3>3. u.usage = IF e.type \in {"message_start", "message_delta"} THEN t.usage \cup e.usage ELSE t.usage
      BY ZenonT(40), <2>1, <3>2, ChatPushed
    <3> QED BY <3>1, <3>3
  <2>8. Upstream!UsageIn(e) = IF e.type \in {"message_start", "message_delta"} THEN e.usage ELSE {}
    BY <1>2, <2>1, UsageInFields
  <2>9. u.usage = tr.usage \cup Upstream!UsageIn(e)
    BY <2>6, <2>8
  <2> QED BY <1>3, <1>5, <1>6, <1>9, <2>4, <2>5, <2>9, SurfaceProtocols
<1> QED BY <1>4, <1>7, <1>8, <1>9, SurfaceKinds

(* A step that makes canonical events puts them where the client is.       *)
LEMMA ArrivesInv ==
  ASSUME StreamInv, NEW a, Between(a, a), NEW u, NEW events, NEW cap2,
         Arrives(surface, a, events, u, cap2, Allowed(surface, frames)),
         tr' = u, pending' = events, captured' = cap2, UNCHANGED <<surface, enc, frames, view>>
  PROVE  Placed'
<1>1. PICK allowed : allowed = Allowed(surface, frames)
  OBVIOUS
<1>2. Arrives(surface, a, events, u, cap2, allowed)
  BY <1>1
<1>3. PICK b : Leads(surface, a, events, b, cap2, allowed) /\ Agrees(surface, u, b) /\ Matches(surface, b, cap2)
  BY <1>2 DEF Arrives
<1>4. view = ViewAt(a) /\ EncoderAt(surface, enc, a)
  BY DEF Between
<1>5. Allowed(surface', frames') = allowed
  BY <1>1
<1>6. Between(a, b)'
  BY <1>3, <1>4, <1>5 DEF Between
<1>7. Fits(surface, a, cap2, allowed)
  BY <1>3, LeadsEnds
<1>8. At(a)'
  BY <1>4, <1>5, <1>7 DEF At
<1> QED BY <1>6, <1>8 DEF Placed

LEMMA TranslateInv == StreamInv /\ Translate => StreamInv'
<1> SUFFICES ASSUME StreamInv, Translate PROVE StreamInv'
  OBVIOUS
<1>1. PICK e, cap2, u, t : /\ e = Head(todo) /\ cap2 = Accumulated(captured, e) /\ u = Pushed(e)
                           /\ t = Tail(todo)
  OBVIOUS
<1>2. /\ pc = "running" /\ ~tr.finished /\ pending = <<>> /\ todo # <<>>
      /\ captured' = cap2 /\ pending' = Implied(e) /\ tr' = u /\ todo' = t
      /\ UNCHANGED <<surface, pc, enc, eof, connected, completions, outcome, frames, view>>
  BY <1>1 DEF Translate
<1>3. outcome = "none" /\ completions = <<>>
  BY <1>2, Ongoing
<1>4. pc # "over"
  BY <1>2
<1>5. /\ Collects(captured, e, cap2)
      /\ u.usage = tr.usage \cup Upstream!UsageIn(e)
      /\ surface \in Nested =>
           /\ u.reason = IF e.type = "finish" THEN e.reason ELSE tr.reason
           /\ u.finished <=> e.type = "done"
  BY <1>1, <1>2, <1>4, PushStep
<1>6. PICK a : Between(a, a) /\ Arrives(surface, a, Implied(e), u, cap2, Allowed(surface, frames))
  BY <1>1, <1>2, <1>4, PushStep
<1>7. cap2 \in Accumulators
  BY <1>5 DEF Collects
<1>8. \A R : todo \in Seq(R) => e \in R /\ t \in Seq(R) /\ UsageOf(todo) = Upstream!UsageIn(e) \cup UsageOf(t)
  BY <1>1, <1>2, UsageHead
<1>9. TypeInv'
  <2>1. ~Verbatim(surface)
    BY <1>2 DEF StreamInv, TypeInv
  <2>2. t \in Seq(AllEvents) /\ (surface \in Nested => t \in Seq(ChatEvents))
        /\ (surface = "chat" => t \in Seq(KnownFrames))
    BY <1>8 DEF StreamInv, TypeInv
  <2> QED BY <1>2, <1>7, <2>1, <2>2 DEF StreamInv, TypeInv
<1>10. Control'
  BY <1>2, <1>3 DEF StreamInv, Control
<1>11. UsageKept'
  <2>1. UsageOf(todo) = Upstream!UsageIn(e) \cup UsageOf(t)
    BY <1>8 DEF StreamInv, TypeInv
  <2> QED BY <1>2, <1>5, <2>1 DEF StreamInv, UsageKept
<1>12. SaidKept'
  <2>1. SUFFICES ASSUME surface \in Nested PROVE SaidKept'
    BY <1>2 DEF SaidKept
  <2>2. todo \in Seq(ChatEvents)
    BY <2>1 DEF StreamInv, TypeInv
  <2>3. /\ e \in ChatEvents /\ t \in Seq(ChatEvents)
        /\ \A type : Has(todo, type) <=> e.type = type \/ Has(t, type)
    BY <1>1, <1>2, <2>2, Taken
  <2>4. Has(todo, "done") <=> e.type = "done" \/ Has(t, "done")
    BY <2>3
  <2>5. Has(todo, "finish") <=> e.type = "finish" \/ Has(t, "finish")
    BY <2>3
  <2>6. Has(todo, "text_delta") <=> e.type = "text_delta" \/ Has(t, "text_delta")
    BY <2>3
  <2>7. /\ Has(todo, "done") => Len(todo) = 1
        /\ Has(todo, "done") \/ Has(todo, "finish") \/ tr.reason # "none" => EndIn(frames)
        /\ captured.text > 0 \/ Has(todo, "text_delta") <=> TextIn(frames)
        /\ Shared(captured.calls, Starts(todo), CallsIn(frames))
    BY <2>1 DEF StreamInv, SaidKept
  <2>8. Has(todo, "done") => t = <<>>
    <3>1. PICK n \in Nat : n = Len(todo)
      BY <2>2
    <3>2. t \in Seq(ChatEvents) /\ Len(t) = n - 1
      BY <1>1, <1>2, <2>2, <3>1, HeadTailProperties, EmptySeq
    <3>3. Has(todo, "done") => n = 1
      BY <2>7, <3>1
    <3>4. n = 1 => Len(t) = 0
      BY <3>2
    <3>5. Len(t) = 0 => t = <<>>
      BY <3>2, EmptySeq
    <3> QED BY <3>3, <3>4, <3>5
  <2>9. ~Has(<<>>, "done")
    BY HasNothing
  <2>10. ~Has(t, "done")
    BY <2>4, <2>8, <2>9
  <2>11. u.finished => t = <<>>
    BY <1>5, <2>1, <2>4, <2>8
  <2>12. Has(t, "finish") \/ u.reason # "none" => EndIn(frames)
    BY <1>5, <2>1, <2>5, <2>7
  <2>13. cap2.text > 0 \/ Has(t, "text_delta") <=> captured.text > 0 \/ Has(todo, "text_delta")
    <3>1. IsText(e) <=> e.type = "text_delta"
      BY <2>3, ChatEventKinds
    <3> QED BY <1>5, <2>6, <3>1 DEF Collects
  <2>14. Shared(cap2.calls, Starts(t), CallsIn(frames))
    <3>1. captured \in Accumulators
      BY DEF StreamInv, TypeInv
    <3> QED BY <1>1, <1>2, <1>5, <2>2, <2>7, <3>1, SharedTaken
  <2> QED BY <1>2, <2>7, <2>10, <2>11, <2>12, <2>13, <2>14 DEF SaidKept
<1>13. Placed'
  <2>1. PICK events : events = Implied(e)
    OBVIOUS
  <2> QED BY <1>2, <1>6, <2>1, ArrivesInv
<1> QED BY <1>9, <1>10, <1>11, <1>12, <1>13 DEF StreamInv

LEMMA CloseOffInv == StreamInv /\ CloseOff => StreamInv'
<1> SUFFICES ASSUME StreamInv, CloseOff PROVE StreamInv'
  OBVIOUS
<1>1. PICK u, events : u = Ended /\ events = Ending
  OBVIOUS
<1>2. /\ pc = "running" /\ ~tr.finished /\ eof /\ pending = <<>> /\ todo = <<>>
      /\ pending' = events /\ tr' = u
      /\ UNCHANGED <<surface, pc, enc, captured, todo, eof, connected, completions, outcome, frames, view>>
  BY <1>1 DEF CloseOff
<1>3. outcome = "none" /\ completions = <<>>
  BY <1>2, Ongoing
<1>4. PICK a : /\ Between(a, a) /\ Fits(surface, a, captured, Allowed(surface, frames))
               /\ Agrees(surface, tr, a)
               /\ surface \in Translated => Matches(surface, a, captured)
  BY <1>2, Caughtup
<1>5. PICK allowed : allowed = Allowed(surface, frames)
  OBVIOUS
<1>6. surface \in AllSurfaces
  BY DEF StreamInv, TypeInv
<1>7. surface \in Translated =>
        /\ u.finished /\ u.usage = tr.usage
        /\ Arrives(surface, a, events, u, captured, allowed)
  <2>1. CASE surface = "messages"
    <3>1. MessagesAgrees(tr, a)
      BY <1>4, <2>1 DEF Agrees
    <3>2. Fits("messages", a, captured, allowed) /\ Matches("messages", a, captured)
      BY <1>4, <1>5, <2>1, SurfaceKinds
    <3>3. u = Messages!Ended(tr) /\ events = Messages!Ending(tr)
      BY <1>1, <2>1, SurfaceEnds
    <3>4. /\ u.finished /\ u.usage = tr.usage
          /\ Arrives("messages", a, Messages!Ending(tr), u, captured, allowed)
      BY <1>2, <3>1, <3>2, <3>3, MessagesEnds
    <3> QED BY <2>1, <3>3, <3>4
  <2>2. CASE surface = "responses"
    <3>1. ResponsesAgrees(tr, a)
      BY <1>4, <2>2 DEF Agrees
    <3>2. Fits("responses", a, captured, allowed) /\ Matches("responses", a, captured)
      BY <1>4, <1>5, <2>2, SurfaceKinds
    <3>3. u = Responses!Ended(tr) /\ events = Responses!Ending(tr)
      BY <1>1, <2>2, SurfaceEnds
    <3>5. tr.reason # "none" => EndIn(frames)
      BY <2>2 DEF StreamInv, SaidKept, Nested
    <3>6. "incomplete" \in allowed /\ (tr.reason # "none" => "completed" \in allowed)
      BY <1>5, <2>2, <3>5, StatusAllowed
    <3>4. /\ u.finished /\ u.usage = tr.usage
          /\ Arrives("responses", a, Responses!Ending(tr), u, captured, allowed)
      BY <1>2, <3>1, <3>2, <3>3, <3>6, ResponsesEnds
    <3> QED BY <2>2, <3>3, <3>4
  <2>3. CASE surface = "chat"
    <3>1. ChatAgrees(tr, a)
      BY <1>4, <2>3 DEF Agrees
    <3>2. Fits("chat", a, captured, allowed) /\ Matches("chat", a, captured)
      BY <1>4, <1>5, <2>3, SurfaceKinds
    <3>3. u = Chat!Ended(tr) /\ events = Chat!Ending(tr)
      BY <1>1, <2>3, SurfaceEnds
    <3>4. /\ u.finished /\ u.usage = tr.usage
          /\ Arrives("chat", a, Chat!Ending(tr), u, captured, allowed)
      BY <1>2, <3>1, <3>2, <3>3, ChatEnds
    <3> QED BY <2>3, <3>3, <3>4
  <2> QED BY <2>1, <2>2, <2>3, SurfaceKinds
<1>8. Verbatim(surface) => u \in Observers /\ u.finished /\ u.usage = tr.usage /\ events = <<>>
  <2>1. SUFFICES ASSUME Verbatim(surface)
                 PROVE  u \in Observers /\ u.finished /\ u.usage = tr.usage /\ events = <<>>
    OBVIOUS
  <2>2. tr \in Observers
    BY <1>4, <2>1 DEF Agrees
  <2>3. u = [tr EXCEPT !.finished = TRUE]
    BY <1>1, <2>1, SurfaceEnds
  <2>4. events = <<>>
    BY <1>1, <2>1, SurfaceEnds
  <2> QED BY <2>2, <2>3, <2>4 DEF Observers
<1>9. u.finished /\ u.usage = tr.usage
  BY <1>6, <1>7, <1>8, SurfaceProtocols
<1>10. TypeInv'
  BY <1>2 DEF StreamInv, TypeInv
<1>11. Control'
  BY <1>2, <1>3 DEF StreamInv, Control
<1>12. UsageKept'
  BY <1>2, <1>9 DEF StreamInv, UsageKept
<1>13. SaidKept'
  <2>1. SUFFICES ASSUME surface \in Nested PROVE SaidKept'
    BY <1>2 DEF SaidKept
  <2>2. u.reason = tr.reason
    <3>1. CASE surface = "messages"
      <4>1. u = Messages!Ended(tr) /\ tr \in MessagesTranslators
        BY <1>1, <1>4, <3>1, SurfaceEnds DEF Agrees, MessagesAgrees
      <4> QED BY <1>2, <4>1 DEF Messages!Ended, Messages!Finished, MessagesTranslators
    <3>2. CASE surface = "responses"
      <4>1. u = Responses!Ended(tr) /\ tr \in ResponsesTranslators
        BY <1>1, <1>4, <3>2, SurfaceEnds DEF Agrees, ResponsesAgrees
      <4> QED BY <1>2, <4>1 DEF Responses!Ended, Responses!Finished, ResponsesTranslators
    <3> QED BY <2>1, <3>1, <3>2 DEF Nested
  <2> QED BY <1>2, <2>1, <2>2 DEF StreamInv, SaidKept
<1>14. Placed'
  <2>1. CASE surface \in Translated
    <3>1. Arrives(surface, a, events, u, captured, Allowed(surface, frames))
      BY <1>5, <1>7, <2>1
    <3>2. PICK cap : cap = captured
      OBVIOUS
    <3> QED BY <1>2, <1>4, <3>1, <3>2, ArrivesInv
  <2>2. CASE surface \notin Translated
    <3>1. Verbatim(surface)
      BY <2>2 DEF Verbatim
    <3>2. Agrees(surface, u, a)
      BY <1>4, <1>8, <2>2, <3>1 DEF Agrees, Translated
    <3>3. pending' = <<>> /\ pending = <<>>
      BY <1>2, <1>8, <3>1
    <3>4. Between(a, a)'
      BY <1>2, <1>4, <2>2, <3>2, <3>3 DEF Between
    <3>5. At(a)'
      BY <1>2, <1>4 DEF At, Between
    <3> QED BY <3>4, <3>5 DEF Placed
  <2> QED BY <2>1, <2>2
<1> QED BY <1>10, <1>11, <1>12, <1>13, <1>14 DEF StreamInv

-----------------------------------------------------------------------------
(* A frame is read                                                         *)

(* A translated stream: nothing moves but what is left to translate.       *)
LEMMA ReadTranslated ==
  ASSUME StreamInv, pc = "reading", NEW f \in Frames[Protocol(surface)], surface \in Translated,
         NEW x, x = Decode(surface, f),
         frames' = Append(frames, f), todo' = x, pc' = "running", eof' \in BOOLEAN,
         UNCHANGED <<surface, tr, enc, captured, pending, connected, completions, outcome, view>>
  PROVE  StreamInv'
<1>1. surface \in AllSurfaces /\ frames \in Seq(Frames[Protocol(surface)])
  BY DEF StreamInv, TypeInv
<1>2. outcome = "none" /\ completions = <<>> /\ pending = <<>> /\ todo = <<>> /\ ~tr.finished /\ ~eof
  BY Ongoing DEF StreamInv, Control
<1>3. /\ x \in Seq(AllEvents)
      /\ surface \in Nested => f \in Upstream!ChatFrames /\ SaysChat(x, f)
      /\ surface = "chat" => x \in Seq(KnownFrames)
  BY <1>1, DecodedFrame
<1>4. frames' \in Seq(Frames[Protocol(surface)])
  BY <1>1, AppendIn
<1>5. TypeInv'
  <2>1. surface \in Nested => x \in Seq(ChatEvents)
    BY <1>3 DEF SaysChat
  <2>2. ~Verbatim(surface)
    BY SurfaceKinds
  <2> QED BY <1>3, <1>4, <2>1, <2>2 DEF StreamInv, TypeInv
<1>6. Control'
  BY <1>2 DEF StreamInv, Control
<1>9. UsageKept'
  <2>1. tr.usage = Stated(surface, frames, Len(frames))
    BY <1>2, UsageNothing DEF StreamInv, UsageKept
  <2>2. Stated(surface, frames', Len(frames')) = Joined(Stated(surface, frames, Len(frames)), UsageOf(x))
    BY <1>1, StatedNext
  <2>3. Stated(surface, frames', Len(frames') - 1) = Stated(surface, frames, Len(frames))
    BY <1>1, StatedBefore
  <2> QED BY <2>1, <2>2, <2>3 DEF UsageKept, Joined
<1>10. SaidKept'
  <2>1. SUFFICES ASSUME surface \in Nested PROVE SaidKept'
    BY DEF SaidKept
  <2>2. f \in Upstream!ChatFrames /\ SaysChat(x, f)
    BY <1>3, <2>1
  <2>3. frames \in Seq(Upstream!ChatFrames)
    <3>1. Frames[Protocol(surface)] \subseteq Upstream!ChatFrames
      BY <1>1, <2>1, SurfaceProtocols, ProtocolFrames
    <3> QED BY <1>1, <3>1
  <2>4. /\ EndIn(frames') <=> EndIn(frames) \/ f.done \/ f.finish # "none"
        /\ TextIn(frames') <=> TextIn(frames) \/ f.text
    BY <2>2, <2>3, SaidAppend
  <2>5. /\ CallsIn(frames) \in Seq(Fragments) /\ Keep(f.calls, Named) \in Seq(Fragments)
        /\ CallsIn(frames') = CallsIn(frames) \o Keep(f.calls, Named)
    BY <2>2, <2>3, CallsInAppend
  <2>6. /\ tr.reason # "none" => EndIn(frames)
        /\ captured.text > 0 <=> TextIn(frames)
        /\ Shared(captured.calls, <<>>, CallsIn(frames))
    <3>1. ~Has(todo, "text_delta")
      BY <1>2, HasNothing
    <3>2. Starts(todo) = <<>>
      BY <1>2, KeepEmpty DEF Starts
    <3> QED BY <2>1, <3>1, <3>2 DEF StreamInv, SaidKept
  <2>7. captured.calls \in Seq(Part)
    BY AccumulatorFields DEF StreamInv, TypeInv
  <2>8. x \in Seq(ChatEvents) /\ SameIndex(Starts(x), Keep(f.calls, Named))
        /\ (Has(x, "done") => f.done) /\ (Has(x, "finish") => f.finish # "none")
        /\ (Has(x, "text_delta") <=> f.text)
        /\ \A k \in DOMAIN x : x[k].type = "done" => Len(x) = 1
    BY <2>2 DEF SaysChat
  <2>9. Starts(x) \in Seq(ChatEvents)
    BY <2>8, StartsConcat
  <2>10. Shared(captured.calls, Starts(x), CallsIn(frames'))
    BY <2>5, <2>6, <2>7, <2>8, <2>9, SharedRead
  <2>11. Has(x, "done") => Len(x) = 1
    BY <2>8 DEF Has
  <2>12. captured.text > 0 \/ Has(x, "text_delta") <=> TextIn(frames')
    BY <2>4, <2>6, <2>8
  <2>13. Has(x, "done") \/ Has(x, "finish") \/ tr.reason # "none" => EndIn(frames')
    BY <2>4, <2>6, <2>8
  <2> QED BY <1>2, <2>10, <2>11, <2>12, <2>13 DEF SaidKept
<1>11. Placed'
  <2>1. PICK a : /\ Between(a, a) /\ Fits(surface, a, captured, Allowed(surface, frames))
                 /\ Agrees(surface, tr, a) /\ Matches(surface, a, captured)
    BY <1>2, Caughtup
  <2>2. PICK allowed : allowed = Allowed(surface, frames)
    OBVIOUS
  <2>3. PICK more : more = Allowed(surface, frames')
    OBVIOUS
  <2>4. allowed \subseteq more
    BY <1>1, <2>2, <2>3, AllowedGrows
  <2>5. Fits(surface, a, captured, more)
    BY <2>1, <2>2, <2>4, FitsAllowed
  <2>6. Leads(surface, a, <<>>, a, captured, more)
    BY <2>5, LeadsNothing
  <2>7. Leads(surface', a, pending', a, captured', Allowed(surface', frames'))
    BY <1>2, <2>3, <2>6
  <2>8. Between(a, a)'
    BY <2>1, <2>7 DEF Between
  <2>9. At(a)'
    BY <2>1, <2>3, <2>5 DEF At, Between
  <2> QED BY <2>8, <2>9 DEF Placed
<1> QED BY <1>5, <1>6, <1>9, <1>10, <1>11 DEF StreamInv

(* A verbatim stream: the chunk adds to the view what was captured of it.  *)
LEMMA CallsJoin ==
  ASSUME NEW p \in Seq(Part), NEW n \in Accumulators
  PROVE  /\ p \o n.calls \in Seq(Part)
         /\ CallsOf(p \o n.calls) = CallsOf(p) \o n.calls
<1>1. n.calls \in Seq(Caught) /\ n.calls \in Seq(Part)
  BY AccumulatorFields
<1>2. Caught \subseteq CallParts
  BY DEF Caught, CallParts
<1>3. Keep(n.calls, CallParts) = n.calls
  BY <1>1, <1>2, KeepAll
<1>4. Keep(p \o n.calls, CallParts) = Keep(p, CallParts) \o Keep(n.calls, CallParts)
  BY <1>1, KeepConcat
<1>5. p \o n.calls \in Seq(Part)
  BY <1>1, ConcatProperties
<1> QED BY <1>3, <1>4, <1>5 DEF CallsOf

LEMMA FitsObserved ==
  ASSUME NEW s, Verbatim(s), NEW a, NEW cap \in Accumulators, NEW allowed, Fits(s, a, cap, allowed),
         NEW x \in Seq(AllEvents), NEW cap2, cap2 = AccumulatedAll(cap, x),
         NEW n, n = AccumulatedAll(NewAccumulator, x)
  PROVE  /\ cap2 \in Accumulators /\ n \in Accumulators
         /\ Fits(s, a, cap2, allowed)
         /\ Matches(s, a, cap) =>
              LET b == Place(a.stage, a.open, a.parts \o n.calls, a.text \/ n.text > 0, a.status) IN
              /\ a.open = "none" => Fits(s, b, cap2, allowed)
              /\ Len(CallsOf(a.parts \o n.calls)) = Len(cap2.calls)
<1>1. PICK calls \in Seq(Part) : calls = CallsOf(a.parts)
  BY FitsPlace
<1>2. Told(calls, cap.calls) /\ (a.text => cap.text > 0) /\ Sound(s, a) /\ a.status \in allowed
  BY <1>1 DEF Fits
<1>3. PICK whole \in BOOLEAN : whole <=> Len(calls) = Len(cap.calls)
  OBVIOUS
<1>4. /\ cap2 \in Accumulators /\ n \in Accumulators
      /\ cap.text > 0 => cap2.text > 0
      /\ Paired(calls, whole, cap2, n)
  BY <1>2, <1>3, Observed
<1>5. s # "messages"
  BY DEF Verbatim, Translated
<1>6. Fits(s, a, cap2, allowed)
  BY <1>1, <1>2, <1>4, <1>5 DEF Fits, Paired
<1>7. ASSUME Matches(s, a, cap)
      PROVE  /\ Told(calls \o n.calls, cap2.calls) /\ Len(calls \o n.calls) = Len(cap2.calls)
             /\ n.text > 0 => cap2.text > 0
  <2>1. whole
    BY <1>1, <1>3, <1>7 DEF Matches
  <2> QED BY <1>4, <2>1 DEF Paired
<1>8. a.parts \in Seq(Part) /\ a.stage \in Stages /\ a.text \in BOOLEAN /\ a.status \in Statuses /\ a \in Places
  BY FitsPlace
<1>9. a.parts \o n.calls \in Seq(Part) /\ CallsOf(a.parts \o n.calls) = calls \o n.calls
  BY <1>1, <1>4, <1>8, CallsJoin
<1>10. ASSUME Matches(s, a, cap), a.open = "none", NEW text \in BOOLEAN, text <=> a.text \/ n.text > 0,
              NEW parts, parts = a.parts \o n.calls,
              NEW b, b = Place(a.stage, a.open, parts, text, a.status)
       PROVE  Fits(s, b, cap2, allowed)
  <2>1. b.parts = parts /\ b.text = text /\ b.status = a.status /\ b.open = "none" /\ b \in Places
    BY <1>8, <1>9, <1>10 DEF Place, Places
  <2>2. Sound(s, b)
    BY <2>1 DEF Sound
  <2>3. Told(CallsOf(b.parts), cap2.calls)
    BY <1>7, <1>9, <1>10, <2>1
  <2>4. b.text => cap2.text > 0
    BY <1>2, <1>4, <1>7, <1>10, <2>1
  <2> QED BY <1>2, <1>5, <2>1, <2>2, <2>3, <2>4 DEF Fits
<1>11. PICK text \in BOOLEAN : text <=> a.text \/ n.text > 0
  OBVIOUS
<1> QED BY <1>4, <1>6, <1>7, <1>9, <1>10, <1>11

LEMMA ReadVerbatim ==
  ASSUME StreamInv, pc = "reading", NEW f \in Frames[Protocol(surface)], Verbatim(surface),
         NEW x, x = Decode(surface, f), NEW n, n = AccumulatedAll(NewAccumulator, x),
         frames' = Append(frames, f), captured' = AccumulatedAll(captured, x),
         tr' = [tr EXCEPT !.usage = @ \cup UsageOf(x)], pc' = "running",
         \/ pending' = <<n>> /\ eof' = eof
         \/ pending' = <<>> /\ eof',
         eof' \in BOOLEAN,
         UNCHANGED <<surface, enc, todo, connected, completions, outcome, view>>
  PROVE  StreamInv'
<1>1. surface \in AllSurfaces /\ frames \in Seq(Frames[Protocol(surface)]) /\ captured \in Accumulators
  BY DEF StreamInv, TypeInv
<1>2. outcome = "none" /\ completions = <<>> /\ pending = <<>> /\ todo = <<>> /\ ~tr.finished /\ ~eof
  BY Ongoing DEF StreamInv, Control
<1>3. x \in Seq(AllEvents)
  BY <1>1, DecodedFrame
<1>4. PICK cap2 : cap2 = captured'
  OBVIOUS
<1>5. surface \notin Translated /\ surface \notin Nested /\ surface # "chat" /\ surface # "responses"
  BY SurfaceProtocols DEF Verbatim, Translated
<1>6. PICK a : /\ Between(a, a) /\ Fits(surface, a, captured, Allowed(surface, frames))
               /\ Agrees(surface, tr, a) /\ Matches(surface, a, captured)
  BY <1>2, Caughtup
<1>7. tr \in Observers /\ a.open = "none"
  BY <1>6 DEF Agrees
<1>8. UsageOf(x) \subseteq UsageFields
  BY <1>3, UsageOfFields
<1>9. tr' \in Observers /\ tr'.usage = tr.usage \cup UsageOf(x) /\ tr'.finished = tr.finished
  BY <1>7, <1>8 DEF Observers, UsageFields
<1>10. PICK allowed : allowed = Allowed(surface, frames) /\ allowed = Allowed(surface, frames')
  BY <1>5 DEF Allowed
<1>11. PICK text \in BOOLEAN : text <=> a.text \/ n.text > 0
  OBVIOUS
<1>12. PICK parts : parts = a.parts \o n.calls
  OBVIOUS
<1>13. PICK b : b = Place(a.stage, a.open, parts, text, a.status)
  OBVIOUS
<1>14. /\ cap2 \in Accumulators /\ n \in Accumulators
       /\ Fits(surface, a, cap2, allowed)
       /\ Fits(surface, b, cap2, allowed)
       /\ Len(CallsOf(parts)) = Len(cap2.calls)
  <2>1. Fits(surface, a, captured, allowed)
    BY <1>6, <1>10
  <2>2. cap2 = AccumulatedAll(captured, x)
    BY <1>4
  <2>3. /\ cap2 \in Accumulators /\ n \in Accumulators
        /\ Fits(surface, a, cap2, allowed)
        /\ LET c == Place(a.stage, a.open, a.parts \o n.calls, a.text \/ n.text > 0, a.status) IN
           /\ Fits(surface, c, cap2, allowed)
           /\ Len(CallsOf(a.parts \o n.calls)) = Len(cap2.calls)
    BY <1>1, <1>3, <1>6, <1>7, <2>1, <2>2, FitsObserved
  <2>4. b = Place(a.stage, a.open, a.parts \o n.calls, a.text \/ n.text > 0, a.status)
    BY <1>11, <1>12, <1>13 DEF Place
  <2> QED BY <1>12, <2>3, <2>4
<1>15. frames' \in Seq(Frames[Protocol(surface)])
  BY <1>1, AppendIn
<1>16. TypeInv'
  BY <1>1, <1>4, <1>14, <1>15 DEF StreamInv, TypeInv
<1>17. Control'
  BY <1>2 DEF StreamInv, Control
<1>18. UsageKept'
  <2>1. tr.usage = Stated(surface, frames, Len(frames)) /\ UsageOf(todo) = {}
    BY <1>2, UsageNothing DEF StreamInv, UsageKept
  <2>2. Stated(surface, frames', Len(frames')) = Joined(Stated(surface, frames, Len(frames)), UsageOf(x))
    BY <1>1, StatedNext
  <2>3. Stated(surface, frames', Len(frames') - 1) = Stated(surface, frames, Len(frames))
    BY <1>1, StatedBefore
  <2> QED BY <1>9, <2>1, <2>2, <2>3 DEF UsageKept, Joined
<1>19. SaidKept'
  BY <1>5 DEF SaidKept
<1>20. Placed'
  <2>1. view' = ViewAt(a) /\ EncoderAt(surface', enc', a)
    BY <1>6 DEF Between
  <2>2. At(a)'
    BY <1>4, <1>10, <1>14, <2>1 DEF At
  <2>3. CASE pending' = <<n>> /\ eof' = eof
    <3>1. Follows(surface, a, n, b)
      <4>1. b = Place(a.stage, a.open, a.parts \o n.calls, a.text \/ n.text > 0, a.status)
        BY <1>11, <1>12, <1>13 DEF Place
      <4>2. VerbatimMoves(a, n, b)
        BY <4>1 DEF VerbatimMoves
      <4>3. Moves(surface, a, n, b)
        BY <1>5, <4>2 DEF Moves, Nested
      <4> QED BY <1>14, <4>3 DEF Follows
    <3>2. Leads(surface, a, <<n>>, b, cap2, allowed)
      BY <1>14, <3>1, LeadsOne
    <3>3. Agrees(surface, tr', b)
      BY <1>5, <1>7, <1>9, <1>13 DEF Agrees, Place, Nested
    <3>4. Matches(surface, b, cap2)
      BY <1>5, <1>13, <1>14 DEF Matches, Place
    <3>5. Leads(surface', a, pending', b, captured', Allowed(surface', frames'))
      BY <1>4, <1>10, <2>3, <3>2
    <3>6. Between(a, b)'
      BY <1>4, <2>1, <3>3, <3>4, <3>5 DEF Between
    <3> QED BY <2>2, <3>6 DEF Placed
  <2>4. CASE pending' = <<>> /\ eof'
    <3>1. Leads(surface, a, <<>>, a, cap2, allowed)
      BY <1>14, LeadsNothing
    <3>2. Agrees(surface, tr', a)
      BY <1>5, <1>7, <1>9 DEF Agrees, Nested
    <3>3. Leads(surface', a, pending', a, captured', Allowed(surface', frames'))
      BY <1>4, <1>10, <2>4, <3>1
    <3>4. Between(a, a)'
      BY <1>5, <2>1, <2>4, <3>2, <3>3 DEF Between
    <3> QED BY <2>2, <3>4 DEF Placed
  <2> QED BY <2>3, <2>4
<1> QED BY <1>16, <1>17, <1>18, <1>19, <1>20 DEF StreamInv

LEMMA ReadInv ==
  ASSUME StreamInv, NEW f \in Frames[Protocol(surface)], Read(f)
  PROVE  StreamInv'
<1>1. PICK x : x = Decode(surface, f)
  OBVIOUS
<1>2. PICK n : n = AccumulatedAll(NewAccumulator, x)
  OBVIOUS
<1>3. /\ pc = "reading" /\ frames' = Append(frames, f) /\ pc' = "running"
      /\ UNCHANGED <<surface, enc, eof, connected, completions, outcome, view>>
      /\ Verbatim(surface) => /\ captured' = AccumulatedAll(captured, x)
                              /\ tr' = [tr EXCEPT !.usage = @ \cup UsageOf(x)]
                              /\ pending' = <<n>> /\ UNCHANGED todo
      /\ ~Verbatim(surface) => todo' = x /\ UNCHANGED <<captured, tr, pending>>
  BY <1>1, <1>2 DEF Read, Receive
<1>4. eof' \in BOOLEAN
  BY <1>3 DEF StreamInv, TypeInv
<1>5. CASE Verbatim(surface)
  BY <1>1, <1>2, <1>3, <1>4, <1>5, ReadVerbatim
<1>6. CASE ~Verbatim(surface)
  <2>1. surface \in Translated
    BY <1>6 DEF Verbatim
  <2> QED BY <1>1, <1>3, <1>4, <1>6, <2>1, ReadTranslated
<1> QED BY <1>5, <1>6

LEMMA ReadEndsInv == StreamInv /\ ReadEnds => StreamInv'
<1> SUFFICES ASSUME StreamInv, ReadEnds PROVE StreamInv'
  OBVIOUS
<1>1. /\ pc = "reading" /\ pc' = "running" /\ eof' \in BOOLEAN /\ eof'
      /\ UNCHANGED <<surface, enc, connected, completions, outcome, view>>
  BY DEF ReadEnds
<1>2. CASE UNCHANGED <<frames, captured, tr, pending, todo>>
  <2>1. outcome = "none" /\ completions = <<>>
    BY <1>1, Ongoing
  <2>2. TypeInv' /\ UsageKept' /\ SaidKept'
    BY <1>1, <1>2 DEF StreamInv, TypeInv, UsageKept, SaidKept
  <2>3. Control'
    BY <1>1, <1>2, <2>1 DEF StreamInv, Control
  <2>4. PICK a, b : Between(a, b) /\ At(a)
    BY <2>1, AtBetween DEF StreamInv, Placed
  <2>5. Between(a, b)' /\ At(a)'
    <3>1. ~eof
      BY <1>1 DEF StreamInv, Control
    <3> QED BY <1>1, <1>2, <2>4, <3>1 DEF Between, At
  <2>6. Placed'
    BY <2>5 DEF Placed
  <2> QED BY <2>2, <2>3, <2>6 DEF StreamInv
<1>3. CASE \E f \in Frames[Protocol(surface)] : Receive(f, FALSE)
  <2>1. PICK f \in Frames[Protocol(surface)] : Receive(f, FALSE)
    BY <1>3
  <2>2. PICK x : x = Decode(surface, f)
    OBVIOUS
  <2>3. PICK n : n = AccumulatedAll(NewAccumulator, x)
    OBVIOUS
  <2>4. /\ frames' = Append(frames, f)
        /\ Verbatim(surface) => /\ captured' = AccumulatedAll(captured, x)
                                /\ tr' = [tr EXCEPT !.usage = @ \cup UsageOf(x)]
                                /\ pending' = <<>> /\ UNCHANGED todo
        /\ ~Verbatim(surface) => todo' = x /\ UNCHANGED <<captured, tr, pending>>
    BY <2>1, <2>2 DEF Receive
  <2>5. CASE Verbatim(surface)
    BY <1>1, <2>2, <2>3, <2>4, <2>5, ReadVerbatim
  <2>6. CASE ~Verbatim(surface)
    <3>1. surface \in Translated
      BY <2>6 DEF Verbatim
    <3> QED BY <1>1, <2>2, <2>4, <2>6, <3>1, ReadTranslated
  <2> QED BY <2>5, <2>6
<1>4. (\E f \in Frames[Protocol(surface)] : Receive(f, FALSE)) \/ UNCHANGED <<frames, captured, tr, pending, todo>>
  BY DEF ReadEnds
<1> QED BY <1>2, <1>3, <1>4

-----------------------------------------------------------------------------
(* The theorems                                                            *)

LEMMA NextInv == StreamInv /\ [Next]_vars => StreamInv'
<1> SUFFICES ASSUME StreamInv, [Next]_vars PROVE StreamInv'
  OBVIOUS
<1>1. CASE \E f \in Frames[Protocol(surface)] : Read(f)
  BY <1>1, ReadInv
<1>2. CASE ReadEnds
  BY <1>2, ReadEndsInv
<1>3. CASE ReadFails
  BY <1>3, ReadFailsInv
<1>4. CASE Translate
  BY <1>4, TranslateInv
<1>5. CASE AskUpstream
  BY <1>5, AskUpstreamInv
<1>6. CASE CloseOff
  BY <1>6, CloseOffInv
<1>7. CASE Return
  BY <1>7, ReturnInv
<1>8. CASE Write
  BY <1>8, WriteInv
<1>9. CASE Leave
  BY <1>9, LeaveInv
<1>10. CASE Drained
  BY <1>10, DrainedInv
<1>11. CASE Disconnect
  BY <1>11, DisconnectInv
<1>12. CASE UNCHANGED vars
  <2>1. TypeInv' /\ Control' /\ UsageKept' /\ SaidKept'
    BY <1>12 DEF StreamInv, TypeInv, Control, UsageKept, SaidKept, Completion, Reported, vars
  <2>2. PICK a : At(a)
    BY DEF StreamInv, Placed
  <2>3. At(a)'
    BY <1>12, <2>2 DEF At, vars
  <2>4. ASSUME outcome # "left" PROVE \E c, d : Between(c, d)'
    <3>1. PICK c, d : Between(c, d)
      BY <2>4 DEF StreamInv, Placed
    <3>2. Between(c, d)'
      BY <1>12, <3>1 DEF Between, vars
    <3> QED BY <3>2
  <2>5. Placed'
    BY <1>12, <2>3, <2>4 DEF Placed, vars
  <2> QED BY <2>1, <2>5 DEF StreamInv
<1> QED
  BY <1>1, <1>2, <1>3, <1>4, <1>5, <1>6, <1>7, <1>8, <1>9, <1>10, <1>11, <1>12
  DEF Next, UpstreamActs, Runs

(* runStreamPipeline: the client and the encoder are at one place, and the *)
(* queued events lead from it to the place of the translator; usage and    *)
(* content are collected as the frames state them.                         *)
THEOREM StreamInvariant == Spec => []StreamInv
<1>1. Init => StreamInv
  BY InitInv
<1>2. StreamInv /\ [Next]_vars => StreamInv'
  BY NextInv
<1> QED BY <1>1, <1>2, PTL DEF Spec

(* What a client at a place makes of the calls of its view.                *)
LEMMA ViewIs ==
  ASSUME NEW a \in Places, view = ViewAt(a)
  PROVE  /\ view.parts = a.parts /\ view.stage = a.stage /\ view.text = a.text /\ view.status = a.status
         /\ view.ok
         /\ Client!ToolCalls(view) = CallsOf(a.parts)
<1>1. /\ view.parts = a.parts /\ view.stage = a.stage /\ view.text = a.text /\ view.status = a.status
      /\ view.ok
  BY DEF ViewAt, Sheet
<1>2. PICK s \in Seq(Part) : s = a.parts
  BY PlaceFields
<1>3. \A i \in DOMAIN s : s[i] \in Part /\ s[i] \in ToSet(s)
  BY DEF ToSet
<1>4. PICK S : S = {p \in ToSet(s) : p.kind \in {"tool_use", "function_call"}}
  OBVIOUS
<1>5. \A i \in DOMAIN s : s[i] \in S <=> s[i] \in CallParts
  BY <1>3, <1>4 DEF CallParts
<1>6. Keep(s, S) = Keep(s, CallParts)
  BY <1>5, KeepSame
<1>7. \A x, y : Client!Keep(x, y) = Keep(x, y)
  BY DEF Client!Keep, Keep
<1>8. Client!ToolCalls(view) = Keep(s, S)
  BY <1>1, <1>2, <1>4, <1>7 DEF Client!ToolCalls, Client!ToSet, ToSet
<1> QED BY <1>1, <1>2, <1>6, <1>8 DEF CallsOf

LEMMA EndedShows ==
  ASSUME StreamInv, surface \in Translated, outcome = "ended"
  PROVE  view.stage = "done" /\ (Protocol(surface) = "openai_chat" => AnswerShown)
<1>1. PICK a, b : Between(a, b)
  BY DEF StreamInv, Placed
<1>2. pending = <<>> /\ tr.finished
  BY DEF StreamInv, Control
<1>3. PICK allowed : allowed = Allowed(surface, frames)
  OBVIOUS
<1>4. Leads(surface, a, pending, b, captured, allowed)
  BY <1>1, <1>3 DEF Between
<1>5. a = b /\ Fits(surface, a, captured, allowed)
  BY <1>2, <1>4, LeadsEnds
<1>6. view = ViewAt(a) /\ Agrees(surface, tr, a) /\ Matches(surface, a, captured)
  BY <1>1, <1>5 DEF Between
<1>7. InStep(tr, a)
  BY <1>6, SurfaceKinds DEF Agrees, MessagesAgrees, ResponsesAgrees, ChatAgrees
<1>8. a \in Places
  BY <1>5, FitsPlace
<1>9. view.stage = "done"
  BY <1>2, <1>6, <1>7, <1>8, ViewIs DEF InStep
<1>10. ASSUME Protocol(surface) = "openai_chat" PROVE AnswerShown
  <2>1. surface \in Nested
    BY <1>10, SurfaceProtocols
  <2>2. surface \in AllSurfaces /\ frames \in Seq(Frames[Protocol(surface)]) /\ captured \in Accumulators
    BY DEF StreamInv, TypeInv
  <2>3. frames \in Seq(Upstream!ChatFrames)
    <3>1. Frames[Protocol(surface)] \subseteq Upstream!ChatFrames
      BY <1>10, <2>2, ProtocolFrames
    <3> QED BY <2>2, <3>1
  <2>4. (SaidText <=> TextIn(frames)) /\ CallsSaid = CallsIn(frames)
    BY <2>3, SaidBy
  <2>5. todo = <<>>
    BY <1>2, <2>1 DEF StreamInv, SaidKept
  <2>6. ~Has(todo, "text_delta") /\ Starts(todo) = <<>>
    BY <2>5, HasNothing, KeepEmpty DEF Starts
  <2>7. (captured.text > 0 <=> TextIn(frames)) /\ Shared(captured.calls, <<>>, CallsIn(frames))
    BY <2>1, <2>6 DEF StreamInv, SaidKept
  <2>8. a.text <=> captured.text > 0
    BY <1>5, <1>6, <2>1 DEF Fits, Matches
  <2>9. view.text <=> SaidText
    BY <1>6, <1>8, <2>4, <2>7, <2>8, ViewIs
  <2>10. view.text \in BOOLEAN /\ SaidText \in BOOLEAN
    <3>1. view.text = a.text /\ a.text \in BOOLEAN
      BY <1>6, <1>8, ViewIs, PlaceFields
    <3> QED BY <3>1 DEF SaidText
  <2>11. PICK calls \in Seq(Part) : calls = CallsOf(a.parts)
    BY <1>5, FitsPlace
  <2>12. PICK n \in Nat : n = Len(calls)
    OBVIOUS
  <2>13. PICK said \in Seq(Fragments) : said = CallsSaid
    <3>1. CallsIn(frames) \in Seq(Fragments)
      BY <2>3, CallsInFragments
    <3> QED BY <2>4, <3>1
  <2>14. /\ Len(captured.calls) = n
         /\ \A c \in 1..n : captured.calls[c].call = calls[c].call
    BY <1>5, <1>6, <2>11, <2>12 DEF Fits, Matches, Told, SameCall
  <2>15. Len(said) = n /\ \A c \in 1..n : captured.calls[c].call = said[c].index
    <3>1. PICK e : e = <<>>
      OBVIOUS
    <3>2. Len(e) = 0
      BY <3>1
    <3>3. Shared(captured.calls, e, said)
      BY <2>4, <2>7, <2>13, <3>1
    <3> QED BY <2>14, <3>2, <3>3 DEF Shared
  <2>16. DOMAIN calls = 1..n /\ DOMAIN said = 1..n
    BY <2>12, <2>15
  <2>17. [k \in DOMAIN calls |-> calls[k].call] = [k \in DOMAIN said |-> said[k].index]
    BY <2>14, <2>15, <2>16
  <2>18. Client!ToolCalls(view) = calls
    BY <1>6, <1>8, <2>11, ViewIs
  <2>19. view.text = SaidText
    BY <2>9, <2>10
  <2> QED BY <2>13, <2>17, <2>18, <2>19 DEF AnswerShown
<1> QED BY <1>9, <1>10

LEMMA InvTranscript == StreamInv => TranscriptWellFormed
<1> SUFFICES ASSUME StreamInv, surface \in Translated
             PROVE  /\ outcome # "threw" /\ view.ok
                    /\ outcome = "ended" =>
                         view.stage = "done" /\ (Protocol(surface) = "openai_chat" => AnswerShown)
                    /\ surface = "messages" => Client!Filed(view)
                    /\ view.status = "completed" => SaidEnd
  BY DEF TranscriptWellFormed
<1>1. outcome # "threw"
  BY DEF StreamInv, Control
<1>2. PICK a : view = ViewAt(a) /\ Fits(surface, a, captured, Allowed(surface, frames))
  BY DEF StreamInv, Placed, At
<1>3. PICK allowed : allowed = Allowed(surface, frames)
  OBVIOUS
<1>4. Fits(surface, a, captured, allowed)
  BY <1>2, <1>3
<1>5. a \in Places /\ a.status \in allowed
  BY <1>4, FitsPlace
<1>6. view.parts = a.parts /\ view.status = a.status /\ view.ok
  BY <1>2, <1>5, ViewIs
<1>7. surface = "messages" => Client!Filed(view)
  <2>1. Client!NoIndex = NoCall
    BY DEF Client!NoIndex, NoCall
  <2> QED BY <1>4, <1>6, <2>1 DEF Fits, FiledParts, Client!Filed
<1>8. view.status = "completed" => SaidEnd
  <2>1. SUFFICES ASSUME view.status = "completed" PROVE SaidEnd
    OBVIOUS
  <2>2. surface = "responses" /\ EndIn(frames)
    BY <1>3, <1>5, <1>6, <2>1 DEF Allowed
  <2>3. frames \in Seq(Upstream!ChatFrames)
    <3>1. surface \in AllSurfaces /\ Protocol(surface) = "openai_chat"
          /\ frames \in Seq(Frames[Protocol(surface)])
      BY <2>2, SurfaceProtocols DEF Nested, StreamInv, TypeInv
    <3>2. Frames[Protocol(surface)] \subseteq Upstream!ChatFrames
      BY <3>1, ProtocolFrames
    <3> QED BY <3>1, <3>2
  <2> QED BY <2>2, <2>3, SaidBy
<1> QED BY <1>1, <1>6, <1>7, <1>8, EndedShows

(* Whatever an upstream sends, a translated stream never makes the encoder *)
(* throw and its client can read every record; a stream that ends is       *)
(* closed off and has shown all text and every tool call, arguments go to  *)
(* the block of their own call, and only a stream whose end was stated is  *)
(* "completed".                                                            *)
THEOREM StreamTranscript == Spec => []TranscriptWellFormed
<1>1. StreamInv => TranscriptWellFormed
  BY InvTranscript
<1> QED BY <1>1, StreamInvariant, PTL

LEMMA InvCompleted == StreamInv => CompletedOnce
<1> SUFFICES ASSUME StreamInv PROVE CompletedOnce
  OBVIOUS
<1>1. completions = IF pc = "over" THEN <<Completion>> ELSE <<>>
  BY DEF StreamInv, Control
<1>2. PICK a : view = ViewAt(a) /\ Fits(surface, a, captured, Allowed(surface, frames))
  BY DEF StreamInv, Placed, At
<1>3. PICK allowed : allowed = Allowed(surface, frames)
  OBVIOUS
<1>4. Fits(surface, a, captured, allowed)
  BY <1>2, <1>3
<1>5. view.text = a.text /\ Client!ToolCalls(view) = CallsOf(a.parts)
  BY <1>2, <1>4, FitsPlace, ViewIs
<1>6. PICK calls \in Seq(Part) : calls = CallsOf(a.parts)
  BY <1>4, FitsPlace
<1>7. PICK done : done = Completion
  OBVIOUS
<1>8. done.usage = tr.usage /\ done.content = captured
  BY <1>7 DEF Completion
<1>9. \A n : StatedBy(n) = Stated(surface, frames, n)
  BY DEF StatedBy, Stated
<1>10. StatedBy(Len(frames) - 1) \subseteq done.usage /\ done.usage \subseteq StatedBy(Len(frames))
  BY <1>8, <1>9 DEF StreamInv, UsageKept
<1>11. view.text => done.content.text > 0
  BY <1>4, <1>5, <1>8 DEF Fits
<1>12. Told(calls, captured.calls)
  BY <1>4, <1>6 DEF Fits
<1>13. /\ Len(calls) <= Len(done.content.calls)
       /\ \A c \in DOMAIN calls :
            /\ done.content.calls[c].call = calls[c].call
            /\ \/ Len(done.content.calls[c].got) = MaxCaptured
               \/ Len(calls[c].got) <= Len(done.content.calls[c].got)
  <2>1. DOMAIN calls = 1..Len(calls)
    OBVIOUS
  <2> QED BY <1>8, <1>12, <2>1 DEF Told, SameCall
<1>14. Client!ToolCalls(view) = calls
  BY <1>5, <1>6
<1>15. CASE pc = "over"
  <2>1. completions = <<done>>
    BY <1>1, <1>7, <1>15
  <2>2. Len(completions) = 1 /\ \A k \in DOMAIN completions : completions[k] = done
    BY <2>1
  <2> QED BY <1>10, <1>11, <1>13, <1>14, <1>15, <2>2 DEF CompletedOnce
<1>16. CASE pc # "over"
  <2>1. Len(completions) = 0 /\ DOMAIN completions = {}
    BY <1>1, <1>16
  <2> QED BY <1>16, <2>1 DEF CompletedOnce
<1> QED BY <1>15, <1>16

(* onComplete is called exactly once when a stream is over, and never      *)
(* before: with the usage stated in all frames that were worked off and    *)
(* none that was not, and with all text and tool calls the client was      *)
(* shown, up to the cap.                                                   *)
THEOREM StreamCompletes == Spec => []CompletedOnce
<1>1. StreamInv => CompletedOnce
  BY InvCompleted
<1> QED BY <1>1, StreamInvariant, PTL
=============================================================================
