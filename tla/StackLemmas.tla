----------------------------- MODULE StackLemmas -----------------------------
(***************************************************************************)
(* A call stack is a sequence, the innermost call last.  What its          *)
(* operations, as LogRouting and ApiWrap write them, do to its elements.   *)
(***************************************************************************)
EXTENDS Integers, Sequences, SequencesExt, SequenceTheorems, TLAPS

\* The innermost call of a stack.
LEMMA TopElement ==
    ASSUME NEW S, NEW s \in Seq(S), s # <<>>
    PROVE  Last(s) \in S /\ Last(s) = s[Len(s)] /\ Len(s) \in Nat \ {0}
  BY DEF Last

\* A stack without its innermost call.
LEMMA BelowTop ==
    ASSUME NEW S, NEW s \in Seq(S), s # <<>>
    PROVE  /\ Front(s) \in Seq(S) /\ Len(Front(s)) = Len(s) - 1
           /\ \A i \in 1 .. Len(s) - 1 : Front(s)[i] = s[i]
<1>. DEFINE n == Len(s) - 1
<1>1. n \in Nat /\ \A i \in 1 .. n : s[i] \in S
  BY TopElement
<1>. HIDE DEF n
<1>2. /\ SubSeq(s, 1, n) \in Seq(S)
      /\ Len(SubSeq(s, 1, n)) = IF 1 <= n THEN n - 1 + 1 ELSE 0
      /\ \A i \in 1 .. n - 1 + 1 : SubSeq(s, 1, n)[i] = s[1 + i - 1]
  BY <1>1, SubSeqProperties
<1>3. Len(SubSeq(s, 1, n)) = n /\ \A i \in 1 .. n : SubSeq(s, 1, n)[i] = s[i]
  BY <1>1, <1>2
<1>. QED
  BY <1>2, <1>3 DEF Front, n

\* One more call.
LEMMA PushOn ==
    ASSUME NEW S, NEW s \in Seq(S), NEW f \in S
    PROVE  /\ Append(s, f) \in Seq(S) /\ Append(s, f) # <<>>
           /\ Len(Append(s, f)) = Len(s) + 1
           /\ Last(Append(s, f)) = f /\ Append(s, f)[Len(s) + 1] = f
           /\ \A i \in 1 .. Len(s) : Append(s, f)[i] = s[i]
  BY DEF Last

\* The innermost call has changed.
LEMMA ReplaceTop ==
    ASSUME NEW S, NEW s \in Seq(S), s # <<>>, NEW f \in S
    PROVE  /\ Append(Front(s), f) \in Seq(S) /\ Append(Front(s), f) # <<>>
           /\ Len(Append(Front(s), f)) = Len(s)
           /\ Last(Append(Front(s), f)) = f /\ Append(Front(s), f)[Len(s)] = f
           /\ \A i \in 1 .. Len(s) - 1 : Append(Front(s), f)[i] = s[i]
<1>. DEFINE r == Front(s)
<1>1. /\ r \in Seq(S) /\ Len(r) = Len(s) - 1 /\ Len(s) \in Nat \ {0}
      /\ \A i \in 1 .. Len(s) - 1 : r[i] = s[i]
  BY BelowTop, TopElement
<1>. HIDE DEF r
<1>2. /\ Append(r, f) \in Seq(S) /\ Append(r, f) # <<>>
      /\ Len(Append(r, f)) = Len(r) + 1
      /\ Last(Append(r, f)) = f /\ Append(r, f)[Len(r) + 1] = f
      /\ \A i \in 1 .. Len(r) : Append(r, f)[i] = r[i]
  BY <1>1, PushOn
<1>3. /\ Append(r, f) \in Seq(S) /\ Append(r, f) # <<>>
      /\ Len(Append(r, f)) = Len(s)
      /\ Last(Append(r, f)) = f /\ Append(r, f)[Len(s)] = f
      /\ \A i \in 1 .. Len(s) - 1 : Append(r, f)[i] = s[i]
  BY <1>1, <1>2
<1>. QED
  BY <1>3 DEF r

\* The innermost call has returned to a caller that has changed.
LEMMA PopTop ==
    ASSUME NEW S, NEW s \in Seq(S), s # <<>>, Len(s) # 1, NEW f \in S
    PROVE  LET t == Append(Front(Front(s)), f) IN
           /\ t \in Seq(S) /\ t # <<>> /\ Len(t) = Len(s) - 1
           /\ Last(t) = f /\ t[Len(s) - 1] = f
           /\ \A i \in 1 .. Len(s) - 2 : t[i] = s[i]
<1>. DEFINE r == Front(s)
<1>1. /\ r \in Seq(S) /\ Len(r) = Len(s) - 1 /\ Len(s) \in Nat \ {0}
      /\ \A i \in 1 .. Len(s) - 1 : r[i] = s[i]
  BY BelowTop, TopElement
<1>. HIDE DEF r
<1>2. r # <<>>
  BY <1>1
<1>. DEFINE q == Front(r)
<1>3. q \in Seq(S) /\ Len(q) = Len(r) - 1 /\ \A i \in 1 .. Len(r) - 1 : q[i] = r[i]
  BY <1>1, <1>2, BelowTop
<1>. HIDE DEF q
<1>4. /\ Append(q, f) \in Seq(S) /\ Append(q, f) # <<>>
      /\ Len(Append(q, f)) = Len(q) + 1
      /\ Last(Append(q, f)) = f /\ Append(q, f)[Len(q) + 1] = f
      /\ \A i \in 1 .. Len(q) : Append(q, f)[i] = q[i]
  BY <1>3, PushOn
<1>5. /\ Append(q, f) \in Seq(S) /\ Append(q, f) # <<>>
      /\ Len(Append(q, f)) = Len(s) - 1
      /\ Last(Append(q, f)) = f /\ Append(q, f)[Len(s) - 1] = f
      /\ \A i \in 1 .. Len(s) - 2 : Append(q, f)[i] = s[i]
  BY <1>1, <1>3, <1>4
<1>. QED
  BY <1>5 DEF q, r

\* The innermost call has changed and calls.
LEMMA ReplaceAndPush ==
    ASSUME NEW S, NEW s \in Seq(S), s # <<>>, NEW f \in S, NEW g \in S
    PROVE  LET t == Append(Front(s), f) \o <<g>> IN
           /\ t \in Seq(S) /\ t # <<>> /\ Len(t) = Len(s) + 1
           /\ Last(t) = g /\ t[Len(s) + 1] = g /\ t[Len(s)] = f
           /\ \A i \in 1 .. Len(s) - 1 : t[i] = s[i]
<1>. DEFINE r == Append(Front(s), f)
<1>1. /\ r \in Seq(S) /\ Len(r) = Len(s) /\ r[Len(s)] = f
      /\ \A i \in 1 .. Len(s) - 1 : r[i] = s[i]
  BY ReplaceTop
<1>2. Len(s) \in Nat \ {0}
  BY TopElement
<1>. HIDE DEF r
<1>. DEFINE q == r \o <<g>>
<1>3. q = Append(r, g)
  BY <1>1
<1>. HIDE DEF q
<1>4. /\ Append(r, g) \in Seq(S) /\ Append(r, g) # <<>>
      /\ Len(Append(r, g)) = Len(r) + 1
      /\ Last(Append(r, g)) = g /\ Append(r, g)[Len(r) + 1] = g
      /\ \A i \in 1 .. Len(r) : Append(r, g)[i] = r[i]
  BY <1>1, PushOn
<1>5. /\ q \in Seq(S) /\ q # <<>> /\ Len(q) = Len(r) + 1
      /\ Last(q) = g /\ q[Len(r) + 1] = g
      /\ \A i \in 1 .. Len(r) : q[i] = r[i]
  BY <1>3, <1>4, Zenon
<1>6. /\ q \in Seq(S) /\ q # <<>> /\ Len(q) = Len(s) + 1
      /\ Last(q) = g /\ q[Len(s) + 1] = g /\ q[Len(s)] = f
      /\ \A i \in 1 .. Len(s) - 1 : q[i] = s[i]
  BY <1>1, <1>2, <1>5
<1>. QED
  BY <1>6 DEF q, r
=============================================================================
