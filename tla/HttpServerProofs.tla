-------------------------- MODULE HttpServerProofs --------------------------
(***************************************************************************)
(* Proofs about HttpServer, for streams of any length and files of any     *)
(* size.                                                                   *)
(*                                                                         *)
(* The handler only sees its buffer; the property speaks of the stream.    *)
(* The invariant ties them together: there is a place c in the stream, the *)
(* end of a request, such that exactly the requests up to c are answered   *)
(* (AnsweredTo) and the lines behind c are the buffer followed by what     *)
(* recv has not taken (StreamFrom).  Where requests end is defined by      *)
(* recursion over the stream, so its properties are shown by induction     *)
(* (EndExists, EndLocal).                                                  *)
(***************************************************************************)
EXTENDS HttpServer, FiniteSetTheorems, InductionLemmas, TLAPS

\* The requests of s that end within its first c lines.
Upto(s, c) == {d \in RequestEnds(s) : d <= c}

\* The first c lines sent are behind the server: exactly the requests that end
\* there are answered, as they deserve, and only the last may have closed.
AnsweredTo(c) ==
    /\ c \in 0 .. Len(sent)
    /\ IsEnd(sent)[c]
    /\ Len(out) = Cardinality(Upto(sent, c))
    /\ \A e \in Upto(sent, c) :
          LET k == Cardinality(Upto(sent, e))
              deserved == Deserved(sent, StartOf(sent, e), e)
          IN  /\ k \in 1 .. Len(out)
              /\ out[k] = deserved
              /\ deserved.close => e = c /\ pc = "deleted"

\* The other lines are in the buffer or not read.
StreamFrom(c) ==
    pc # "deleted" =>
        /\ Len(sent) = c + Len(buf) + Len(rx)
        /\ \A i \in 1 .. Len(buf) : buf[i] = sent[c + i]
        /\ \A i \in 1 .. Len(rx) : rx[i] = sent[c + Len(buf) + i]

\* The handler returns to the loop only when the buffer holds no request, and
\* gives up the connection only for a reason.
PcInv ==
    /\ pc = "poll" => Ends(buf) = {}
    /\ pc = "deleted" => fin \/ (out # <<>> /\ out[Len(out)].close)

IInv ==
    /\ TypeOK
    /\ PcInv
    /\ \E c \in 0 .. Len(sent) : AnsweredTo(c) /\ StreamFrom(c)
----------------------------------------------------------------------------
USE HttpAssumption

(***************************************************************************)
(* IsEnd is defined by recursion over the lines.  That there is such a     *)
(* function is shown by induction: a function for the first n lines is     *)
(* extended to one for n + 1.                                              *)
(***************************************************************************)
EndEquation(s, n, f) ==
    f = [i \in 0 .. n |-> IF i = 0 THEN TRUE ELSE s[i] = "blank" /\ ~f[i - 1]]

\* There is a solution for every number of lines.
LEMMA EndExists ==
    ASSUME NEW s, NEW n \in Nat
    PROVE  \E f : EndEquation(s, n, f)
<1> DEFINE S == {m \in Nat : \E f : EndEquation(s, m, f)}
<1>1. 0 \in S
  <2>1. EndEquation(s, 0, [i \in 0 .. 0 |-> TRUE])
    BY DEF EndEquation
  <2>. QED  BY <2>1
<1>2. ASSUME NEW m \in Nat, m \in S  PROVE m + 1 \in S
  <2>1. PICK f : EndEquation(s, m, f)
    BY <1>2
  <2> DEFINE g == [i \in 0 .. m + 1 |->
                      IF i = m + 1 THEN s[i] = "blank" /\ ~f[m] ELSE f[i]]
  <2>2. \A i \in 0 .. m :
           f[i] = (IF i = 0 THEN TRUE ELSE s[i] = "blank" /\ ~f[i - 1])
    BY <2>1 DEF EndEquation
  <2>0. f[0] = TRUE
    <3>1. 0 \in 0 .. m
      OBVIOUS
    <3>. QED  BY <2>1, <3>1 DEF EndEquation
  <2>3. \A i \in 0 .. m : g[i] = f[i]
    OBVIOUS
  <2>4. g[m + 1] = (s[m + 1] = "blank" /\ ~f[m])
    OBVIOUS
  <2>5. ASSUME NEW i \in 0 .. m + 1
        PROVE  g[i] = (IF i = 0 THEN TRUE ELSE s[i] = "blank" /\ ~g[i - 1])
    <3>1. CASE i = 0
      <4>1. g[0] = f[0]
        BY <2>3
      <4>. HIDE DEF g
      <4>. QED  BY <3>1, <4>1, <2>0
    <3>2. CASE i \in 1 .. m
      <4>1. i - 1 \in 0 .. m /\ i \in 0 .. m /\ i # 0
        BY <3>2
      <4>. HIDE DEF g
      <4>. QED  BY <4>1, <2>2, <2>3
    <3>3. CASE i = m + 1
      <4>1. i - 1 = m /\ m \in 0 .. m /\ i # 0
        BY <3>3
      <4>. HIDE DEF g
      <4>. QED  BY <3>3, <4>1, <2>3, <2>4
    <3>4. i = 0 \/ i \in 1 .. m \/ i = m + 1
      OBVIOUS
    <3>. HIDE DEF g
    <3>. QED  BY <3>1, <3>2, <3>3, <3>4, Zenon
  <2>6. EndEquation(s, m + 1, g)
    <3>1. g = [i \in 0 .. m + 1 |-> g[i]]
      OBVIOUS
    <3>. HIDE DEF g
    <3>. QED  BY <3>1, <2>5 DEF EndEquation
  <2>. HIDE DEF g
  <2>. QED  BY <2>6
<1>. HIDE DEF S
<1>3. n \in S
  BY <1>1, <1>2, InductiveSet
<1>. QED  BY <1>3 DEF S

\* The beginning of the stream counts as an end; a line ends a request if it is
\* empty and the line before it does not.
LEMMA EndUnfold ==
    ASSUME NEW s, Len(s) \in Nat
    PROVE  /\ IsEnd(s)[0]
           /\ \A i \in 1 .. Len(s) : IsEnd(s)[i] <=> s[i] = "blank" /\ ~IsEnd(s)[i - 1]
<1>1. \E f : EndEquation(s, Len(s), f)
  BY EndExists
<1>2. EndEquation(s, Len(s), IsEnd(s))
  BY <1>1 DEF IsEnd, EndEquation
<1> DEFINE f == IsEnd(s)
<1>. HIDE DEF f
<1>3. \A i \in 0 .. Len(s) : f[i] = (IF i = 0 THEN TRUE ELSE s[i] = "blank" /\ ~f[i - 1])
  BY <1>2 DEF EndEquation, f
<1>4. f[0] = TRUE
  <2>1. 0 \in 0 .. Len(s)
    OBVIOUS
  <2>. QED  BY <2>1, <1>2 DEF EndEquation, f
<1>5. ASSUME NEW i \in 1 .. Len(s)
      PROVE  f[i] <=> s[i] = "blank" /\ ~f[i - 1]
  <2>1. i \in 0 .. Len(s) /\ i # 0
    OBVIOUS
  <2>. QED  BY <2>1, <1>3
<1>. QED  BY <1>4, <1>5 DEF f
----------------------------------------------------------------------------
(***************************************************************************)
(* What the answers depend on: nothing beyond the lines that have arrived. *)
(***************************************************************************)
Begins(t, s) ==
    /\ Len(s) \in Nat /\ Len(t) \in 0 .. Len(s)
    /\ \A i \in 1 .. Len(t) : s[i] = t[i]

\* Requests end at the same places, however the stream goes on.
LEMMA EndLocal ==
    ASSUME NEW s, NEW t, Begins(t, s)
    PROVE  \A i \in 0 .. Len(t) : IsEnd(s)[i] <=> IsEnd(t)[i]
<1> DEFINE S == {i \in Nat : i <= Len(t) => (IsEnd(s)[i] <=> IsEnd(t)[i])}
<1>1. Len(s) \in Nat /\ Len(t) \in Nat /\ Len(t) <= Len(s)
  BY DEF Begins
<1>2. 0 \in S
  BY <1>1, EndUnfold
<1>3. ASSUME NEW n \in Nat, n \in S  PROVE n + 1 \in S
  <2> SUFFICES ASSUME n + 1 <= Len(t)
               PROVE  IsEnd(s)[n + 1] <=> IsEnd(t)[n + 1]
    OBVIOUS
  <2>1. IsEnd(s)[n] <=> IsEnd(t)[n]
    BY <1>1, <1>3
  <2>2. n + 1 \in 1 .. Len(t) /\ n + 1 \in 1 .. Len(s) /\ (n + 1) - 1 = n
    BY <1>1
  <2>3. s[n + 1] = t[n + 1]
    BY <2>2 DEF Begins
  <2>4. IsEnd(s)[n + 1] <=> s[n + 1] = "blank" /\ ~IsEnd(s)[n]
    BY <1>1, <2>2, EndUnfold
  <2>5. IsEnd(t)[n + 1] <=> t[n + 1] = "blank" /\ ~IsEnd(t)[n]
    BY <1>1, <2>2, EndUnfold
  <2>. QED  BY <2>1, <2>3, <2>4, <2>5
<1>. HIDE DEF S
<1>4. \A i \in Nat : i \in S
  BY <1>2, <1>3, InductiveSet
<1>5. \A i \in 0 .. Len(t) : i \in Nat /\ i <= Len(t)
  BY <1>1
<1>. QED  BY <1>4, <1>5 DEF S

\* A request starts behind the end of the one before.
LEMMA StartRange ==
    ASSUME NEW s, Len(s) \in Nat, NEW e \in 1 .. Len(s)
    PROVE  StartOf(s, e) \in 1 .. e
<1> DEFINE S == {i \in 0 .. e - 1 : IsEnd(s)[i]}
<1>1. 0 \in S
  BY EndUnfold
<1>2. e - 1 \in Nat /\ S \in SUBSET (0 .. e - 1) /\ S # {}
  BY <1>1
<1>3. Max(S) \in S
  BY <1>2, MaxOfBounded
<1>4. Max(S) \in 0 .. e - 1
  BY <1>3
<1>. HIDE DEF S
<1>5. Max(S) + 1 \in 1 .. e
  BY <1>4
<1>. QED  BY <1>5 DEF StartOf, S

\* Where the request that ends at e starts depends on the lines before e only.
LEMMA StartLocal ==
    ASSUME NEW s, NEW t, Begins(t, s), NEW e \in 1 .. Len(t)
    PROVE  StartOf(s, e) = StartOf(t, e)
<1>1. \A i \in 0 .. e - 1 : IsEnd(s)[i] <=> IsEnd(t)[i]
  <2>1. \A i \in 0 .. e - 1 : i \in 0 .. Len(t)
    BY DEF Begins
  <2>. QED  BY <2>1, EndLocal
<1>2. {i \in 0 .. e - 1 : IsEnd(s)[i]} = {i \in 0 .. e - 1 : IsEnd(t)[i]}
  BY <1>1
<1>. QED  BY <1>2 DEF StartOf

\* The verdict on a request looks at its own lines only.
LEMMA DeservedLocal ==
    ASSUME NEW s, NEW t, Begins(t, s), NEW e \in 1 .. Len(t), NEW b \in 1 .. e
    PROVE  Deserved(s, b, e) = Deserved(t, b, e)
<1>1. \A i \in b .. e : s[i] = t[i]
  BY DEF Begins
<1>2. s[b] = t[b]
  BY <1>1
<1>3. HeadersOf(s, b, e) = HeadersOf(t, b, e)
  <2>1. \A i \in b + 1 .. e - 1 : i \in b .. e
    OBVIOUS
  <2>. QED  BY <1>1, <2>1 DEF HeadersOf
<1>4. SizeOf(s, b) = SizeOf(t, b)
  BY <1>2 DEF SizeOf
<1>. QED  BY <1>2, <1>3, <1>4 DEF Deserved

\* The requests of a stream's beginning are those that end there.
LEMMA UptoLocal ==
    ASSUME NEW s, NEW t, Begins(t, s), NEW c \in 0 .. Len(t)
    PROVE  Upto(s, c) = Upto(t, c)
<1>1. \A e \in 1 .. Len(s) : e <= c => e \in 1 .. Len(t) /\ e \in 0 .. Len(t)
  BY DEF Begins
<1>2. \A e \in 1 .. Len(t) : e \in 1 .. Len(s) /\ e \in 0 .. Len(t)
  BY DEF Begins
<1>. QED  BY <1>1, <1>2, EndLocal DEF Upto, RequestEnds

\* There are finitely many.
LEMMA UptoFinite ==
    ASSUME NEW s, Len(s) \in Nat, NEW c
    PROVE  IsFiniteSet(Upto(s, c)) /\ Cardinality(Upto(s, c)) \in Nat
<1>1. IsFiniteSet(1 .. Len(s))
  BY FS_Interval
<1>2. Upto(s, c) \subseteq 1 .. Len(s)
  BY DEF Upto, RequestEnds
<1>. QED  BY <1>1, <1>2, FS_Subset, FS_CardinalityType

\* Behind the end of a request, the next one cannot end with its first line nor
\* with a line that is not empty.
LEMMA NoEnd ==
    ASSUME NEW s, Len(s) \in Nat, NEW c \in Nat, NEW n \in Nat, c + n <= Len(s), IsEnd(s)[c],
           \A i \in 2 .. n : s[c + i] # "blank"
    PROVE  /\ \A j \in c + 1 .. c + n : ~IsEnd(s)[j]
           /\ Upto(s, c + n) = Upto(s, c)
<1>1. ASSUME NEW j \in c + 1 .. c + n  PROVE ~IsEnd(s)[j]
  <2>1. j \in 1 .. Len(s)
    OBVIOUS
  <2>2. CASE j = c + 1
    <3>1. j - 1 = c
      BY <2>2
    <3>. QED  BY <2>1, <3>1, EndUnfold
  <2>3. CASE j # c + 1
    <3>1. j - c \in 2 .. n /\ c + (j - c) = j
      BY <2>3
    <3>2. s[j] # "blank"
      BY <3>1
    <3>. QED  BY <2>1, <3>2, EndUnfold
  <2>. QED  BY <2>2, <2>3
<1>2. Upto(s, c + n) = Upto(s, c)
  <2>1. \A e \in 1 .. Len(s) : e <= c + n => e <= c \/ e \in c + 1 .. c + n
    OBVIOUS
  <2>2. \A e \in 1 .. Len(s) : e <= c => e <= c + n
    OBVIOUS
  <2>. QED  BY <1>1, <2>1, <2>2 DEF Upto, RequestEnds
<1>. QED  BY <1>1, <1>2

\* The first empty line from the second on ends the next request.
LEMMA NextEnd ==
    ASSUME NEW s, Len(s) \in Nat, NEW c \in Nat, NEW m \in Nat, 2 <= m, c + m <= Len(s),
           IsEnd(s)[c], s[c + m] = "blank",
           \A i \in 2 .. m - 1 : s[c + i] # "blank"
    PROVE  /\ IsEnd(s)[c + m]
           /\ StartOf(s, c + m) = c + 1
           /\ \A e : e \in Upto(s, c + m) <=> e \in Upto(s, c) \/ e = c + m
<1>1. m - 1 \in Nat /\ c + (m - 1) <= Len(s) /\ c + (m - 1) = c + m - 1
  OBVIOUS
<1>2. /\ \A j \in c + 1 .. c + m - 1 : ~IsEnd(s)[j]
      /\ Upto(s, c + m - 1) = Upto(s, c)
  <2> DEFINE n == m - 1
  <2>1. n \in Nat /\ c + n <= Len(s) /\ \A i \in 2 .. n : s[c + i] # "blank"
    BY <1>1
  <2>. HIDE DEF n
  <2>2. /\ \A j \in c + 1 .. c + n : ~IsEnd(s)[j]
        /\ Upto(s, c + n) = Upto(s, c)
    BY <2>1, NoEnd
  <2>. QED  BY <1>1, <2>2 DEF n
<1>3. c + m \in 1 .. Len(s) /\ c + m - 1 \in c + 1 .. c + m - 1
  OBVIOUS
<1>4. IsEnd(s)[c + m]
  BY <1>2, <1>3, EndUnfold
<1>5. StartOf(s, c + m) = c + 1
  <2> DEFINE S == {i \in 0 .. c + m - 1 : IsEnd(s)[i]}
  <2>1. c \in S /\ S \in SUBSET Nat
    OBVIOUS
  <2>2. \A i \in 0 .. c + m - 1 : i <= c \/ i \in c + 1 .. c + m - 1
    OBVIOUS
  <2>3. \A i \in S : i <= c
    BY <1>2, <2>2
  <2>. HIDE DEF S
  <2>4. Max(S) = c
    BY <2>1, <2>3, MaxIs
  <2>. QED  BY <2>4 DEF StartOf, S
<1>6. Upto(s, c + m) = Upto(s, c + m - 1) \cup {c + m}
  <2>1. \A e \in 1 .. Len(s) : e <= c + m <=> (e <= c + m - 1 \/ e = c + m)
    OBVIOUS
  <2>. QED  BY <1>3, <1>4, <2>1 DEF Upto, RequestEnds
<1>. QED  BY <1>2, <1>4, <1>5, <1>6
----------------------------------------------------------------------------
(***************************************************************************)
(* The handler                                                             *)
(***************************************************************************)

\* findAndPopTill cuts at the first empty line from the second on.
LEMMA Cut ==
    ASSUME NEW b \in Seq(Lines), Ends(b) # {}
    PROVE  /\ Min(Ends(b)) \in 2 .. Len(b)
           /\ b[Min(Ends(b))] = "blank"
           /\ \A i \in 2 .. Min(Ends(b)) - 1 : b[i] # "blank"
           /\ Len(Popped(b)) = Min(Ends(b))
           /\ \A i \in 1 .. Min(Ends(b)) : Popped(b)[i] = b[i]
           /\ Remaining(b) \in Seq(Lines)
           /\ Len(Remaining(b)) = Len(b) - Min(Ends(b))
           /\ \A i \in 1 .. Len(b) - Min(Ends(b)) : Remaining(b)[i] = b[Min(Ends(b)) + i]
<1> DEFINE m == Min(Ends(b))
<1>1. Ends(b) \in SUBSET Nat /\ Len(b) \in Nat
  BY DEF Ends
<1>2. m \in Ends(b) /\ \A i \in Ends(b) : m <= i
  BY <1>1, MinOfNaturals
<1>3. m \in 2 .. Len(b) /\ b[m] = "blank"
  BY <1>2 DEF Ends
<1>4. \A i \in 2 .. m - 1 : b[i] # "blank"
  <2>1. \A i \in 2 .. m - 1 : i \in 2 .. Len(b) /\ ~(m <= i)
    BY <1>1, <1>3
  <2>. QED  BY <1>2, <2>1 DEF Ends
<1>. HIDE DEF m
<1>5. Len(SubSeq(b, 1, m)) = m /\ \A i \in 1 .. m : SubSeq(b, 1, m)[i] = b[i]
  BY <1>1, <1>3
<1>6. /\ SubSeq(b, m + 1, Len(b)) \in Seq(Lines)
      /\ Len(SubSeq(b, m + 1, Len(b))) = Len(b) - m
      /\ \A i \in 1 .. Len(b) - m : SubSeq(b, m + 1, Len(b))[i] = b[m + i]
  BY <1>1, <1>3
<1>. QED  BY <1>3, <1>4, <1>5, <1>6 DEF m, Popped, Remaining

\* The response of the handler to request r.
Judged(r) ==
    LET status == IF ~ValidRequest(r) THEN 400 ELSE IF r[1] = "gone" THEN 404 ELSE 200
    IN  [status |-> status,
         close |-> status # 200 \/ ShouldClose(r),
         length |-> IF status = 200 THEN SizeOf(r, 1) ELSE 0,
         body |-> IF status = 200 /\ r[1] # "head" THEN SizeOf(r, 1) ELSE 0]

\* The request at the head of the buffer is the next one of the stream, and the
\* handler judges it as it deserves.
LEMMA Verdict ==
    ASSUME TypeOK, HasRequest, NEW c \in 0 .. Len(sent), StreamFrom(c)
    PROVE  LET m == Min(Ends(buf))
               r == Popped(buf)
               deserved == Deserved(sent, c + 1, c + m)
           IN  /\ c + m <= Len(sent)
               /\ sent[c + m] = "blank"
               /\ \A i \in 2 .. m - 1 : sent[c + i] # "blank"
               /\ deserved = Judged(r)
<1> DEFINE m == Min(Ends(buf))
           r == Popped(buf)
<1>1. /\ Len(buf) \in Nat /\ Len(sent) \in Nat /\ Len(rx) \in Nat
      /\ Len(sent) = c + Len(buf) + Len(rx)
      /\ \A i \in 1 .. Len(buf) : buf[i] = sent[c + i]
  BY DEF TypeOK, HasRequest, StreamFrom
<1>2. /\ m \in 2 .. Len(buf)
      /\ buf[m] = "blank"
      /\ \A i \in 2 .. m - 1 : buf[i] # "blank"
      /\ Len(r) = m
      /\ \A i \in 1 .. m : r[i] = buf[i]
  BY Cut DEF TypeOK, HasRequest
<1>. HIDE DEF m, r
<1>3. \A i \in 1 .. m : r[i] = sent[c + i]
  BY <1>1, <1>2
<1>4. c + m <= Len(sent) /\ sent[c + m] = "blank"
  BY <1>1, <1>2
<1>5. \A i \in 2 .. m - 1 : sent[c + i] # "blank"
  <2>1. \A i \in 2 .. m - 1 : i \in 1 .. Len(buf)
    BY <1>1, <1>2
  <2>. QED  BY <1>1, <1>2, <2>1
<1> DEFINE H == HeadersOf(sent, c + 1, c + m)
<1>6. \A x : x \in H <=> \E i \in 2 .. Len(r) - 1 : x = r[i]
  <2>1. \A j \in (c + 1) + 1 .. (c + m) - 1 :
           j - c \in 2 .. m - 1 /\ j - c \in 1 .. m /\ c + (j - c) = j
    BY <1>2
  <2>2. \A i \in 2 .. m - 1 :
           i \in 1 .. m /\ c + i \in (c + 1) + 1 .. (c + m) - 1
    BY <1>2
  <2>3. \A j \in (c + 1) + 1 .. (c + m) - 1 : sent[j] = r[j - c]
    BY <1>3, <2>1
  <2>4. ASSUME NEW x \in H  PROVE \E i \in 2 .. m - 1 : x = r[i]
    BY <2>1, <2>3 DEF HeadersOf
  <2>5. ASSUME NEW i \in 2 .. m - 1  PROVE r[i] \in H
    <3>1. r[i] = sent[c + i] /\ c + i \in (c + 1) + 1 .. (c + m) - 1
      BY <1>3, <2>2
    <3>. QED  BY <3>1 DEF HeadersOf
  <2>. HIDE DEF H
  <2>. QED  BY <1>2, <2>4, <2>5
<1>7. sent[c + 1] = r[1]
  BY <1>2, <1>3
<1>8. ValidRequest(r) <=> r[1] \in RequestLines /\ H \subseteq HeaderLines
  BY <1>6 DEF ValidRequest
<1>9. ShouldClose(r) <=> "keep" \notin H
  BY <1>6 DEF ShouldClose
<1>. HIDE DEF H
<1>10. SizeOf(sent, c + 1) = SizeOf(r, 1)
  BY <1>7 DEF SizeOf
<1> DEFINE status == IF ~ValidRequest(r) THEN 400 ELSE IF r[1] = "gone" THEN 404 ELSE 200
<1>11. Deserved(sent, c + 1, c + m) =
          [status |-> status,
           close |-> status # 200 \/ "keep" \notin H,
           length |-> IF status = 200 THEN SizeOf(r, 1) ELSE 0,
           body |-> IF status = 200 /\ r[1] # "head" THEN SizeOf(r, 1) ELSE 0]
  BY <1>7, <1>8, <1>10 DEF Deserved, H
<1>. HIDE DEF status
<1>12. (status # 200 \/ "keep" \notin H) = (status # 200 \/ ShouldClose(r))
  BY <1>9
<1>13. Deserved(sent, c + 1, c + m) = Judged(r)
  BY <1>11, <1>12 DEF Judged, status
<1>. QED  BY <1>4, <1>5, <1>13 DEF m, r

\* A turn of the loop in processHttpRequest that answers as the request deserves.
LEMMA ReplyStep ==
    ASSUME IInv, HasRequest, NEW response \in Response, response = Judged(Popped(buf)),
           Reply(response)
    PROVE  IInv'
<1>0. PICK m : m = Min(Ends(buf))
  OBVIOUS
<1>1. PICK c \in 0 .. Len(sent) : AnsweredTo(c) /\ StreamFrom(c)
  BY DEF IInv
<1>2. /\ sent \in Seq(Lines) /\ buf \in Seq(Lines) /\ rx \in Seq(Lines)
      /\ out \in Seq(Response) /\ pc = "parse" /\ Ends(buf) # {}
      /\ Len(sent) \in Nat /\ Len(buf) \in Nat /\ Len(rx) \in Nat /\ Len(out) \in Nat
  BY DEF IInv, TypeOK, HasRequest
<1>3. /\ out' = Append(out, response)
      /\ buf' = Remaining(buf)
      /\ pc' = IF response.close THEN "deleted" ELSE "parse"
      /\ sent' = sent /\ rx' = rx /\ fin' = fin
  BY DEF Reply
<1>4. /\ m \in 2 .. Len(buf)
      /\ Remaining(buf) \in Seq(Lines)
      /\ Len(Remaining(buf)) = Len(buf) - m
      /\ \A i \in 1 .. Len(buf) - m : Remaining(buf)[i] = buf[m + i]
  BY <1>0, <1>2, Cut
<1>5. /\ Len(out') = Len(out) + 1 /\ out' \in Seq(Response)
      /\ \A i \in 1 .. Len(out) : out'[i] = out[i]
      /\ out'[Len(out) + 1] = response
  BY <1>2, <1>3
<1> DEFINE deserved == Deserved(sent, c + 1, c + m)
<1>6. /\ c + m <= Len(sent)
      /\ sent[c + m] = "blank"
      /\ \A i \in 2 .. m - 1 : sent[c + i] # "blank"
      /\ deserved = response
  BY <1>0, <1>1, Verdict DEF IInv
<1>. HIDE DEF deserved
<1>15. PICK e2 : e2 = c + m
  OBVIOUS
<1>7. /\ IsEnd(sent)[e2]
      /\ StartOf(sent, e2) = c + 1
      /\ Upto(sent, e2) = Upto(sent, c) \cup {e2}
  <2>1. IsEnd(sent)[c] /\ c \in Nat /\ m \in Nat /\ 2 <= m
    BY <1>1, <1>2, <1>4 DEF AnsweredTo
  <2>2. /\ IsEnd(sent)[c + m]
        /\ StartOf(sent, c + m) = c + 1
        /\ \A e : e \in Upto(sent, c + m) <=> e \in Upto(sent, c) \/ e = c + m
    BY <1>2, <1>6, <2>1, NextEnd
  <2>. QED  BY <1>15, <2>2
<1>8. Cardinality(Upto(sent, e2)) = Len(out) + 1
  <2>1. e2 \notin Upto(sent, c)
    BY <1>1, <1>4, <1>15 DEF Upto
  <2>2. Cardinality(Upto(sent, c)) = Len(out) /\ IsFiniteSet(Upto(sent, c))
    BY <1>1, <1>2, UptoFinite DEF AnsweredTo
  <2>3. Cardinality(Upto(sent, c) \cup {e2}) = Cardinality(Upto(sent, c)) + 1
    BY <2>1, <2>2, FS_AddElement
  <2>. QED  BY <1>7, <2>2, <2>3
<1>9. AnsweredTo(e2)'
  <2>1. e2 \in 0 .. Len(sent')
    BY <1>1, <1>2, <1>3, <1>4, <1>6, <1>15
  <2>2. ASSUME NEW e \in Upto(sent, e2)
        PROVE  LET k == Cardinality(Upto(sent, e))
                   d == Deserved(sent, StartOf(sent, e), e)
               IN  /\ k \in 1 .. Len(out')
                   /\ out'[k] = d
                   /\ d.close => e = e2 /\ pc' = "deleted"
    <3>1. CASE e \in Upto(sent, c)
      <4> DEFINE k == Cardinality(Upto(sent, e))
                 d == Deserved(sent, StartOf(sent, e), e)
      <4>1. k \in 1 .. Len(out) /\ out[k] = d /\ ~d.close
        BY <1>1, <1>2, <3>1 DEF AnsweredTo
      <4>. HIDE DEF k, d
      <4>2. k \in 1 .. Len(out') /\ out'[k] = out[k]
        BY <1>2, <1>5, <4>1
      <4>3. k \in 1 .. Len(out') /\ out'[k] = d /\ ~d.close
        BY <4>1, <4>2
      <4>. QED  BY <4>3 DEF k, d
    <3>2. CASE e = e2
      <4>1. Cardinality(Upto(sent, e)) = Len(out) + 1
        BY <1>8, <3>2
      <4>2. Len(out) + 1 \in 1 .. Len(out') /\ out'[Len(out) + 1] = response
        BY <1>2, <1>5
      <4>3. Deserved(sent, StartOf(sent, e), e) = deserved
        BY <1>7, <1>15, <3>2 DEF deserved
      <4>4. response.close => pc' = "deleted"
        BY <1>3
      <4>5. /\ Cardinality(Upto(sent, e)) \in 1 .. Len(out')
            /\ out'[Cardinality(Upto(sent, e))] = response
        BY <4>1, <4>2
      <4>. QED  BY <3>2, <4>3, <4>4, <4>5, <1>6
    <3>. QED  BY <3>1, <3>2, <1>7
  <2>3. Len(out') = Cardinality(Upto(sent', e2))
    BY <1>3, <1>5, <1>8
  <2>. QED  BY <1>3, <1>7, <2>1, <2>2, <2>3 DEF AnsweredTo
<1>10. StreamFrom(e2)'
  <2> SUFFICES /\ Len(sent) = e2 + Len(buf') + Len(rx)
               /\ \A i \in 1 .. Len(buf') : buf'[i] = sent[e2 + i]
               /\ \A i \in 1 .. Len(rx) : rx[i] = sent[e2 + Len(buf') + i]
    BY <1>3 DEF StreamFrom
  <2>1. /\ Len(sent) = c + Len(buf) + Len(rx)
        /\ \A i \in 1 .. Len(buf) : buf[i] = sent[c + i]
        /\ \A i \in 1 .. Len(rx) : rx[i] = sent[c + Len(buf) + i]
    BY <1>1, <1>2 DEF StreamFrom
  <2>2. Len(buf') = Len(buf) - m
    BY <1>3, <1>4
  <2>3. e2 + Len(buf') = c + Len(buf)
    BY <1>1, <1>2, <1>4, <1>15, <2>2
  <2>4. ASSUME NEW i \in 1 .. Len(buf')  PROVE buf'[i] = sent[e2 + i]
    <3>1. i \in 1 .. Len(buf) - m
      BY <2>2
    <3>2. m \in Nat /\ c \in Nat /\ e2 = c + m
      BY <1>2, <1>4, <1>15
    <3>3. m + i \in 1 .. Len(buf) /\ c + (m + i) = e2 + i
      BY <1>2, <3>1, <3>2
    <3>. QED  BY <1>3, <1>4, <2>1, <3>1, <3>3
  <2>. QED  BY <2>1, <2>3, <2>4
<1>11. PcInv'
  <2>1. pc' # "poll" /\ (pc' = "deleted" => response.close)
    BY <1>3
  <2>2. out' # <<>> /\ out'[Len(out')] = response
    <3>1. Len(out') # 0 /\ Len(out') = Len(out) + 1
      BY <1>2, <1>5
    <3>. QED  BY <1>5, <3>1
  <2>. QED  BY <2>1, <2>2 DEF PcInv
<1>12. TypeOK'
  BY <1>2, <1>3, <1>4, <1>5 DEF IInv, TypeOK
<1>13. e2 \in 0 .. Len(sent')
  BY <1>1, <1>2, <1>3, <1>4, <1>6, <1>15
<1>. QED  BY <1>9, <1>10, <1>11, <1>12, <1>13 DEF IInv

\* The four kinds of answer.
LEMMA AnswerStep ==
    ASSUME IInv, BadRequest \/ NotFound \/ RunCgi \/ ServeFile
    PROVE  IInv'
<1> DEFINE r == Popped(buf)
<1>1. HasRequest
  BY DEF BadRequest, NotFound, RunCgi, ServeFile
<1>2. ShouldClose(r) \in BOOLEAN
  BY DEF ShouldClose
<1>. HIDE DEF r
<1>3. CASE BadRequest
  <2> DEFINE a == [status |-> 400, close |-> TRUE, length |-> 0, body |-> 0]
  <2>1. ~ValidRequest(r) /\ Reply(a)
    BY <1>3 DEF BadRequest, ErrorResponse, r
  <2>2. Judged(r) = [status |-> 400, close |-> 400 # 200 \/ ShouldClose(r),
                     length |-> 0, body |-> 0]
    BY <2>1 DEF Judged
  <2>3. (400 # 200 \/ ShouldClose(r)) = TRUE
    <3>1. 400 # 200
      OBVIOUS
    <3>. QED  BY <3>1, Zenon
  <2>4. a \in Response
    BY DEF Response
  <2>. HIDE DEF a
  <2>5. a = Judged(r)
    BY <2>2, <2>3 DEF a
  <2>. QED  BY <1>1, <2>1, <2>4, <2>5, ReplyStep DEF r
<1>4. CASE NotFound
  <2> DEFINE a == [status |-> 404, close |-> TRUE, length |-> 0, body |-> 0]
  <2>1. ValidRequest(r) /\ r[1] = "gone" /\ Reply(a)
    BY <1>4 DEF NotFound, ErrorResponse, r
  <2>2. Judged(r) = [status |-> 404, close |-> 404 # 200 \/ ShouldClose(r),
                     length |-> 0, body |-> 0]
    BY <2>1 DEF Judged
  <2>3. (404 # 200 \/ ShouldClose(r)) = TRUE
    <3>1. 404 # 200
      OBVIOUS
    <3>. QED  BY <3>1, Zenon
  <2>4. a \in Response
    BY DEF Response
  <2>. HIDE DEF a
  <2>5. a = Judged(r)
    BY <2>2, <2>3 DEF a
  <2>. QED  BY <1>1, <2>1, <2>4, <2>5, ReplyStep DEF r
<1>5. CASE RunCgi
  <2> DEFINE a == [status |-> 200, close |-> ShouldClose(r), length |-> CgiSize,
                   body |-> CgiSize]
  <2>1. ValidRequest(r) /\ r[1] \in {"cgi", "cgihead"} /\ Reply(a)
    BY <1>5 DEF RunCgi, r
  <2>2. a \in Response /\ a = Judged(r)
    BY <1>2, <2>1 DEF Response, Judged, SizeOf
  <2>. QED  BY <1>1, <2>1, <2>2, ReplyStep DEF r
<1>6. CASE ServeFile
  <2> DEFINE a == [status |-> 200, close |-> ShouldClose(r), length |-> FileSize,
                   body |-> IF r[1] = "get" THEN FileSize ELSE 0]
  <2>1. ValidRequest(r) /\ r[1] \in {"get", "head"} /\ Reply(a)
    BY <1>6 DEF ServeFile, r
  <2>2. a \in Response /\ a = Judged(r)
    BY <1>2, <2>1 DEF Response, Judged, SizeOf
  <2>. QED  BY <1>1, <2>1, <2>2, ReplyStep DEF r
<1>. QED  BY <1>3, <1>4, <1>5, <1>6

\* What has been answered stays answered as the stream goes on.
LEMMA AnsweredFrame ==
    ASSUME NEW c, AnsweredTo(c), Begins(sent, sent'), out' = out,
           pc = "deleted" => pc' = "deleted"
    PROVE  AnsweredTo(c)'
<1>1. c \in 0 .. Len(sent) /\ c \in 0 .. Len(sent') /\ Len(sent) \in Nat
  BY DEF AnsweredTo, Begins
<1>2. IsEnd(sent')[c]
  BY <1>1, EndLocal DEF AnsweredTo
<1>3. Upto(sent', c) = Upto(sent, c)
  BY <1>1, UptoLocal
<1>4. ASSUME NEW e \in Upto(sent, c)
      PROVE  /\ Upto(sent', e) = Upto(sent, e)
             /\ Deserved(sent', StartOf(sent', e), e) = Deserved(sent, StartOf(sent, e), e)
  <2>1. e \in 1 .. Len(sent) /\ e \in 0 .. Len(sent)
    BY <1>1 DEF Upto, RequestEnds
  <2>2. StartOf(sent', e) = StartOf(sent, e) /\ StartOf(sent, e) \in 1 .. e
    BY <1>1, <2>1, StartLocal, StartRange
  <2>3. Upto(sent', e) = Upto(sent, e)
    BY <2>1, UptoLocal
  <2>4. Deserved(sent', StartOf(sent, e), e) = Deserved(sent, StartOf(sent, e), e)
    BY <2>1, <2>2, DeservedLocal
  <2>. QED  BY <2>2, <2>3, <2>4
<1>5. \A e \in Upto(sent, c) :
         LET k == Cardinality(Upto(sent, e))
             deserved == Deserved(sent, StartOf(sent, e), e)
         IN  /\ k \in 1 .. Len(out)
             /\ out[k] = deserved
             /\ deserved.close => e = c /\ pc' = "deleted"
  BY DEF AnsweredTo
<1>6. \A e \in Upto(sent', c) :
         LET k == Cardinality(Upto(sent', e))
             deserved == Deserved(sent', StartOf(sent', e), e)
         IN  /\ k \in 1 .. Len(out')
             /\ out'[k] = deserved
             /\ deserved.close => e = c /\ pc' = "deleted"
  BY <1>3, <1>4, <1>5
<1>. QED  BY <1>1, <1>2, <1>3, <1>6 DEF AnsweredTo

\* recv, with or without a complete request behind it.
LEMMA RecvStep ==
    ASSUME IInv, RecvExit \/ Recv \/ NoRequest
    PROVE  IInv'
<1>1. PICK c \in 0 .. Len(sent) : AnsweredTo(c) /\ StreamFrom(c)
  BY DEF IInv
<1>2. sent' = sent /\ out' = out /\ fin' = fin /\ pc # "deleted"
  BY DEF RecvExit, Recv, NoRequest
<1>3. /\ Len(sent) \in Nat /\ Len(buf) \in Nat /\ Len(rx) \in Nat
      /\ buf \in Seq(Lines) /\ rx \in Seq(Lines)
  BY DEF IInv, TypeOK
<1>4. AnsweredTo(c)'
  <2>1. Begins(sent, sent')
    BY <1>2, <1>3 DEF Begins
  <2>. QED  BY <1>1, <1>2, <2>1, AnsweredFrame
<1>5. CASE RecvExit
  <2>1. TypeOK' /\ PcInv' /\ StreamFrom(c)'
    BY <1>5 DEF IInv, TypeOK, PcInv, StreamFrom, RecvExit
  <2>. QED  BY <1>2, <1>4, <2>1 DEF IInv
<1>6. CASE Recv
  <2>1. /\ buf' = buf \o rx /\ rx' = <<>> /\ pc' = "parse"
    BY <1>6 DEF Recv
  <2>2. /\ buf' \in Seq(Lines) /\ Len(buf') = Len(buf) + Len(rx) /\ Len(rx') = 0
        /\ \A i \in 1 .. Len(buf) : buf'[i] = buf[i]
        /\ \A i \in 1 .. Len(rx) : buf'[Len(buf) + i] = rx[i]
    BY <1>3, <2>1
  <2>3. TypeOK' /\ PcInv'
    BY <1>2, <2>1, <2>2 DEF IInv, TypeOK, PcInv
  <2>4. StreamFrom(c)'
    <3>1. /\ Len(sent) = c + Len(buf) + Len(rx)
          /\ \A i \in 1 .. Len(buf) : buf[i] = sent[c + i]
          /\ \A i \in 1 .. Len(rx) : rx[i] = sent[c + Len(buf) + i]
      BY <1>1, <1>2 DEF StreamFrom
    <3>2. ASSUME NEW i \in 1 .. Len(buf')  PROVE buf'[i] = sent[c + i]
      <4>1. CASE i <= Len(buf)
        BY <1>3, <2>2, <3>1, <4>1
      <4>2. CASE ~(i <= Len(buf))
        <5>1. PICK j \in 1 .. Len(rx) : i = Len(buf) + j
          <6>1. i - Len(buf) \in 1 .. Len(rx) /\ Len(buf) + (i - Len(buf)) = i
            BY <1>3, <2>2, <4>2
          <6>. QED  BY <6>1
        <5>2. c + i = c + Len(buf) + j
          BY <1>3, <5>1
        <5>3. buf'[Len(buf) + j] = rx[j] /\ rx[j] = sent[c + Len(buf) + j]
          BY <2>2, <3>1
        <5>. QED  BY <5>1, <5>2, <5>3
      <4>. QED  BY <4>1, <4>2
    <3>3. Len(sent') = c + Len(buf') + Len(rx')
      BY <1>2, <1>3, <2>2, <3>1
    <3>4. \A i \in 1 .. Len(rx') : FALSE
      BY <2>2
    <3>. QED  BY <1>2, <3>2, <3>3, <3>4 DEF StreamFrom
  <2>. QED  BY <1>2, <1>4, <2>3, <2>4 DEF IInv
<1>7. CASE NoRequest
  <2>1. TypeOK' /\ PcInv' /\ StreamFrom(c)'
    BY <1>1, <1>7 DEF IInv, TypeOK, PcInv, StreamFrom, NoRequest
  <2>. QED  BY <1>2, <1>4, <2>1 DEF IInv
<1>. QED  BY <1>5, <1>6, <1>7

\* The client adds a line to the stream, or closes its side.
LEMMA ClientStep ==
    ASSUME IInv, ClientSend \/ ClientClose
    PROVE  IInv'
<1>1. PICK c \in 0 .. Len(sent) : AnsweredTo(c) /\ StreamFrom(c)
  BY DEF IInv
<1>2. out' = out /\ buf' = buf /\ pc' = pc /\ pc # "deleted"
  BY DEF ClientSend, ClientClose
<1>3. /\ Len(sent) \in Nat /\ Len(buf) \in Nat /\ Len(rx) \in Nat
      /\ sent \in Seq(Lines) /\ rx \in Seq(Lines)
  BY DEF IInv, TypeOK
<1>4. /\ Len(sent) = c + Len(buf) + Len(rx)
      /\ \A i \in 1 .. Len(buf) : buf[i] = sent[c + i]
      /\ \A i \in 1 .. Len(rx) : rx[i] = sent[c + Len(buf) + i]
  BY <1>1, <1>2 DEF StreamFrom
<1>5. PcInv'
  BY <1>2 DEF IInv, PcInv
<1>6. CASE ClientClose
  <2>1. sent' = sent /\ rx' = rx /\ TypeOK'
    BY <1>6 DEF IInv, TypeOK, ClientClose
  <2>2. Begins(sent, sent') /\ StreamFrom(c)'
    BY <1>1, <1>2, <1>3, <2>1 DEF Begins, StreamFrom
  <2>. QED  BY <1>1, <1>2, <1>5, <2>1, <2>2, AnsweredFrame DEF IInv
<1>7. CASE ClientSend
  <2>1. PICK l \in Lines : sent' = Append(sent, l) /\ rx' = Append(rx, l)
    BY <1>7 DEF ClientSend
  <2>2. /\ Len(sent') = Len(sent) + 1 /\ sent' \in Seq(Lines) /\ sent'[Len(sent) + 1] = l
        /\ \A i \in 1 .. Len(sent) : sent'[i] = sent[i]
    BY <1>3, <2>1
  <2>3. /\ Len(rx') = Len(rx) + 1 /\ rx' \in Seq(Lines) /\ rx'[Len(rx) + 1] = l
        /\ \A i \in 1 .. Len(rx) : rx'[i] = rx[i]
    BY <1>3, <2>1
  <2>4. Begins(sent, sent')
    BY <1>3, <2>2 DEF Begins
  <2>5. TypeOK'
    BY <1>7, <2>2, <2>3 DEF IInv, TypeOK, ClientSend
  <2>6. \A i \in 1 .. Len(buf) : buf[i] = sent'[c + i]
    <3>1. \A i \in 1 .. Len(buf) : c + i \in 1 .. Len(sent)
      BY <1>3, <1>4
    <3>. QED  BY <1>4, <2>2, <3>1
  <2>7. ASSUME NEW i \in 1 .. Len(rx')  PROVE rx'[i] = sent'[c + Len(buf) + i]
    <3>1. CASE i = Len(rx) + 1
      <4>1. c + Len(buf) + i = Len(sent) + 1
        BY <1>3, <1>4, <3>1
      <4>. QED  BY <2>2, <2>3, <3>1, <4>1
    <3>2. CASE i # Len(rx) + 1
      <4>1. i \in 1 .. Len(rx) /\ c + Len(buf) + i \in 1 .. Len(sent)
        BY <1>3, <1>4, <2>3, <3>2
      <4>. QED  BY <1>4, <2>2, <2>3, <4>1
    <3>. QED  BY <3>1, <3>2
  <2>8. Len(sent') = c + Len(buf) + Len(rx')
    BY <1>3, <1>4, <2>2, <2>3
  <2>9. StreamFrom(c)'
    BY <1>2, <2>6, <2>7, <2>8 DEF StreamFrom
  <2>10. c \in 0 .. Len(sent')
    BY <1>3, <2>2
  <2>11. AnsweredTo(c)'
    BY <1>1, <1>2, <2>4, AnsweredFrame
  <2>. QED  BY <1>5, <2>5, <2>9, <2>10, <2>11 DEF IInv
<1>. QED  BY <1>6, <1>7

\* The empty stream.
LEMMA InitIInv == Init => IInv
<1> SUFFICES ASSUME Init  PROVE IInv
  OBVIOUS
<1>1. Len(sent) = 0 /\ Len(out) = 0 /\ Len(buf) = 0 /\ Len(rx) = 0
  BY DEF Init
<1>2. Upto(sent, 0) = {}
  BY <1>1 DEF Upto, RequestEnds
<1>3. IsEnd(sent)[0]
  BY <1>1, EndUnfold
<1>4. AnsweredTo(0)
  BY <1>1, <1>2, <1>3, FS_EmptySet DEF AnsweredTo
<1>5. StreamFrom(0)
  BY <1>1 DEF StreamFrom
<1>6. TypeOK
  <2>1. <<>> \in Seq(Lines) /\ <<>> \in Seq(Response)
    OBVIOUS
  <2>. QED  BY <2>1 DEF Init, TypeOK
<1>7. PcInv
  <2>1. Ends(buf) = {}
    BY <1>1 DEF Ends
  <2>. QED  BY <2>1 DEF Init, PcInv
<1>. QED  BY <1>1, <1>4, <1>5, <1>6, <1>7 DEF IInv

\* Every step of the handler and of the client keeps the invariant.
LEMMA NextIInv == IInv /\ [Next]_vars => IInv'
<1> SUFFICES ASSUME IInv, [Next]_vars  PROVE IInv'
  OBVIOUS
<1>1. CASE Handler
  BY <1>1, RecvStep, AnswerStep DEF Handler
<1>2. CASE ClientSend \/ ClientClose
  BY <1>2, ClientStep
<1>3. CASE UNCHANGED vars
  <2>1. PICK c \in 0 .. Len(sent) : AnsweredTo(c) /\ StreamFrom(c)
    BY DEF IInv
  <2>2. Begins(sent, sent')
    BY <1>3 DEF IInv, TypeOK, Begins, vars
  <2>3. AnsweredTo(c)'
    BY <1>3, <2>1, <2>2, AnsweredFrame DEF vars
  <2>4. StreamFrom(c)' /\ sent' = sent
    BY <1>3, <2>1 DEF vars, StreamFrom
  <2>5. TypeOK' /\ PcInv'
    BY <1>3 DEF IInv, TypeOK, PcInv, vars
  <2>. QED  BY <2>3, <2>4, <2>5 DEF IInv
<1>. QED  BY <1>1, <1>2, <1>3 DEF Next

\* The inductive invariant holds in every reachable state.
THEOREM Invariance == Spec => []IInv
BY InitIInv, NextIInv, PTL DEF Spec

\* Buffers hold lines, and responses have the three statuses the handler knows.
THEOREM TypeCorrect == Spec => []TypeOK
<1>1. IInv => TypeOK
  BY DEF IInv
<1>. QED  BY <1>1, Invariance, PTL

\* The requests answered so far are the first ones the stream deserves.
LEMMA AnsweredFirst ==
    ASSUME Len(sent) \in Nat, NEW c, AnsweredTo(c)
    PROVE  /\ Upto(sent, c) \subseteq AnsweredEnds(sent)
           /\ \A e \in Upto(sent, c) : {d \in AnsweredEnds(sent) : d <= e} = Upto(sent, e)
<1>1. c \in Nat
  BY DEF AnsweredTo
<1>2. ASSUME NEW e \in Upto(sent, c)  PROVE e \in AnsweredEnds(sent)
  <2>1. e \in RequestEnds(sent) /\ e \in 1 .. Len(sent) /\ e <= c
    BY DEF Upto, RequestEnds
  <2>2. ASSUME NEW d \in RequestEnds(sent), d < e
        PROVE  ~Deserved(sent, StartOf(sent, d), d).close
    <3>1. d \in 1 .. Len(sent)
      BY DEF RequestEnds
    <3>2. d \in Upto(sent, c) /\ d # c
      BY <1>1, <2>1, <2>2, <3>1 DEF Upto
    <3>. QED  BY <3>2 DEF AnsweredTo
  <2>. QED  BY <2>1, <2>2 DEF AnsweredEnds
<1>3. ASSUME NEW e \in Upto(sent, c)
      PROVE  {d \in AnsweredEnds(sent) : d <= e} = Upto(sent, e)
  <2>1. e \in 1 .. Len(sent) /\ e <= c
    BY DEF Upto, RequestEnds
  <2>2. ASSUME NEW d \in RequestEnds(sent), d <= e  PROVE d \in Upto(sent, c)
    <3>1. d \in 1 .. Len(sent)
      BY DEF RequestEnds
    <3>. QED  BY <1>1, <2>1, <2>2, <3>1 DEF Upto
  <2>3. AnsweredEnds(sent) \subseteq RequestEnds(sent)
    BY DEF AnsweredEnds
  <2>. QED  BY <1>2, <2>2, <2>3 DEF Upto
<1>. QED  BY <1>2, <1>3

\* A closing response is the last: none is followed by a return to the loop.
LEMMA ClosedIsDeleted ==
    ASSUME Len(sent) \in Nat, NEW c, AnsweredTo(c), Len(out) \in Nat \ {0},
           out[Len(out)].close
    PROVE  pc = "deleted"
<1>1. c \in 0 .. Len(sent) /\ IsEnd(sent)[c] /\ Len(out) = Cardinality(Upto(sent, c))
  BY DEF AnsweredTo
<1>2. c # 0
  <2>1. Upto(sent, 0) = {}
    BY DEF Upto, RequestEnds
  <2>. QED  BY <1>1, <2>1, FS_EmptySet
<1>3. c \in Upto(sent, c)
  BY <1>1, <1>2 DEF Upto, RequestEnds
<1>. QED  BY <1>1, <1>3 DEF AnsweredTo

\* However a client cuts its stream into packets, pipelines requests or sends
\* junk: every complete request is answered once, in order, with the status, the
\* Content-Length and the body its lines call for, up to the first that closes
\* (http_server.cpp:41-121, buffer.cpp:30-40, request.cpp:20-102).
THEOREM AnswersInOrder == Spec => []AnswersFollowTheStream
<1>1. IInv => AnswersFollowTheStream
  <2> SUFFICES ASSUME IInv  PROVE AnswersFollowTheStream
    OBVIOUS
  <2>1. PICK c \in 0 .. Len(sent) : AnsweredTo(c) /\ StreamFrom(c)
    BY DEF IInv
  <2>2. /\ Len(sent) \in Nat /\ Len(buf) \in Nat /\ Len(rx) \in Nat /\ Len(out) \in Nat
        /\ sent \in Seq(Lines) /\ out \in Seq(Response)
    BY DEF IInv, TypeOK
  <2>3. /\ Upto(sent, c) \subseteq AnsweredEnds(sent)
        /\ \A e \in Upto(sent, c) : {d \in AnsweredEnds(sent) : d <= e} = Upto(sent, e)
        /\ Len(out) = Cardinality(Upto(sent, c))
        /\ IsFiniteSet(Upto(sent, c))
    BY <2>1, <2>2, AnsweredFirst, UptoFinite DEF AnsweredTo
  <2>4. IsFiniteSet(AnsweredEnds(sent)) /\ AnsweredEnds(sent) \subseteq 1 .. Len(sent)
    <3>1. IsFiniteSet(1 .. Len(sent))
      BY <2>2, FS_Interval
    <3>2. AnsweredEnds(sent) \subseteq 1 .. Len(sent)
      BY DEF AnsweredEnds, RequestEnds
    <3>. QED  BY <3>1, <3>2, FS_Subset
  <2>5. Answers(sent)
    <3> SUFFICES ASSUME NEW e \in AnsweredEnds(sent), NEW k,
                        k = Cardinality({d \in AnsweredEnds(sent) : d <= e}),
                        k <= Len(out)
                 PROVE  out[k] = Deserved(sent, StartOf(sent, e), e)
      BY DEF Answers
    <3>1. e \in RequestEnds(sent) /\ e \in 1 .. Len(sent)
      BY DEF AnsweredEnds, RequestEnds
    <3>2. e \in Upto(sent, c)
      <4> SUFFICES ASSUME ~(e <= c)  PROVE FALSE
        BY <3>1 DEF Upto
      <4> DEFINE T == {d \in AnsweredEnds(sent) : d <= e}
      <4>1. e \notin Upto(sent, c)
        BY DEF Upto
      <4>2. \A d \in Upto(sent, c) : d <= e
        BY <2>1, <3>1 DEF Upto, RequestEnds
      <4>3. Upto(sent, c) \cup {e} \subseteq T
        BY <2>3, <3>1, <4>2
      <4>4. IsFiniteSet(T)
        BY <2>4, FS_Subset
      <4>. HIDE DEF T
      <4>5. Cardinality(Upto(sent, c) \cup {e}) = Len(out) + 1
        BY <2>3, <4>1, FS_AddElement
      <4>6. Cardinality(Upto(sent, c) \cup {e}) <= Cardinality(T)
        BY <4>3, <4>4, FS_Subset
      <4>7. k = Cardinality(T) /\ Cardinality(T) \in Nat
        BY <4>4, FS_CardinalityType DEF T
      <4>. QED  BY <2>2, <4>5, <4>6, <4>7
    <3>3. k = Cardinality(Upto(sent, e))
      BY <2>3, <3>2
    <3>. QED
      BY <2>1, <3>2, <3>3 DEF AnsweredTo
  <2>6. Len(out) <= Cardinality(AnsweredEnds(sent))
    BY <2>3, <2>4, FS_Subset
  <2>7. out # <<>> /\ out[Len(out)].close => pc = "deleted"
    BY <2>1, <2>2, ClosedIsDeleted
  <2>8. ASSUME pc = "poll"
        PROVE  Len(out) = Cardinality(AnsweredEnds(SubSeq(sent, 1, Len(sent) - Len(rx))))
    <3>1. /\ Len(sent) = c + Len(buf) + Len(rx)
          /\ \A i \in 1 .. Len(buf) : buf[i] = sent[c + i]
          /\ Ends(buf) = {}
          /\ IsEnd(sent)[c]
      BY <2>1, <2>8 DEF StreamFrom, IInv, PcInv, AnsweredTo
    <3> DEFINE n == c + Len(buf)
               read == SubSeq(sent, 1, n)
    <3>2. Len(sent) - Len(rx) = n /\ n \in Nat /\ n <= Len(sent) /\ c \in Nat
      BY <2>2, <3>1
    <3>3. Len(read) = n /\ Begins(read, sent)
      BY <2>2, <3>2 DEF Begins
    <3>. HIDE DEF read
    <3>4. Upto(sent, n) = Upto(sent, c)
      <4>1. \A i \in 2 .. Len(buf) : sent[c + i] # "blank"
        BY <2>2, <3>1 DEF Ends
      <4>. QED  BY <2>2, <3>1, <3>2, <4>1, NoEnd
    <3>5. Upto(read, n) = Upto(sent, c)
      BY <3>2, <3>3, <3>4, UptoLocal
    <3>6. RequestEnds(read) = Upto(sent, c)
      <4>1. RequestEnds(read) = Upto(read, n)
        BY <3>2, <3>3 DEF Upto, RequestEnds
      <4>. QED  BY <3>5, <4>1
    <3>7. ASSUME NEW d \in RequestEnds(read)
          PROVE  ~Deserved(read, StartOf(read, d), d).close
      <4>1. d \in 1 .. Len(read) /\ d \in Upto(sent, c)
        BY <3>6 DEF RequestEnds
      <4>2. StartOf(sent, d) = StartOf(read, d) /\ StartOf(read, d) \in 1 .. d
        BY <3>2, <3>3, <4>1, StartLocal, StartRange
      <4>3. Deserved(sent, StartOf(read, d), d) = Deserved(read, StartOf(read, d), d)
        BY <3>3, <4>1, <4>2, DeservedLocal
      <4>4. ~Deserved(sent, StartOf(sent, d), d).close
        BY <2>1, <2>8, <4>1 DEF AnsweredTo
      <4>. QED  BY <4>2, <4>3, <4>4
    <3>8. AnsweredEnds(read) = Upto(sent, c)
      BY <3>6, <3>7 DEF AnsweredEnds
    <3>. QED  BY <2>3, <3>2, <3>8 DEF read
  <2>9. pc = "deleted" => fin \/ (out # <<>> /\ out[Len(out)].close)
    BY DEF IInv, PcInv
  <2>. QED  BY <2>5, <2>6, <2>7, <2>8, <2>9 DEF AnswersFollowTheStream
<1>. QED  BY <1>1, Invariance, PTL
=============================================================================
