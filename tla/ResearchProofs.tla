--------------------------- MODULE ResearchProofs ---------------------------
(***************************************************************************)
(* Proofs about the evidence ledger and the daily workflow on top of it.   *)
(*                                                                         *)
(* EvidenceLedger: the ledger file and the journal of an append in flight  *)
(* are sound through every crash and power loss, and implement the         *)
(* abstract log of AppendLog, for every set of events and batches and any  *)
(* number of faults.  The invariant says which log B the two files hold    *)
(* and which additions A are pending in the journal (none when A is        *)
(* empty).                                                                 *)
(*                                                                         *)
(* DailyResearch: sessions are published once, with all of their evidence, *)
(* and only events recorded without the workflow lock can block a retry,   *)
(* for any number of processes, sessions, deaths and failed calls.  The    *)
(* invariant ties what a worker has recorded to where it is, what a        *)
(* published session has, and what follows the last published session in   *)
(* the ledger.                                                             *)
(***************************************************************************)
EXTENDS EvidenceLedger, DailyResearch, SequenceTheorems, FiniteSetTheorems, WellFoundedInduction, TLAPS

-----------------------------------------------------------------------------
(* The evidence ledger.                                                    *)


Base == IF journal = NoJournal THEN Records(file) ELSE Records(Upto(file, journal.start))
Rest == IF journal = NoJournal THEN << >> ELSE Records(journal.bytes)

\* The journal that announces the additions A to the log B.
JournalOf(B, A) == [start |-> 2 * Len(B), bytes |-> Halves(A)]

\* The cached files hold all of B and part of the pending A; what is durable
\* is never more than that, and not all of it unless the file has it too.
Holds(B, A) ==
    /\ journal = IF A = << >> THEN NoJournal ELSE JournalOf(B, A)
    /\ StartsWith(file, Halves(B))
    /\ StartsWith(Halves(B \o A), file)
    /\ StartsWith(Halves(B \o A), disk)
    /\ Len(disk) = 2 * Len(B \o A) => file = Halves(B \o A)

\* The additions are those of some batch that does not conflict with the log.
Announces(B, A) ==
    \E b \in Batches : ~Log!Conflicts(B, b) /\ A = Log!Additions(B, b)

\* A durable journal that is not the cached one is left over from an append
\* to the first k events: it was undone, or it is all in the log.
LeftOver(B) ==
    \E k \in 0..Len(B) :
      LET old == SubSeq(B, 1, k)
          added == Records(journalDisk.bytes)
      IN /\ journalDisk = JournalOf(old, added) /\ added \in Seq(Events) \ {<< >>}
         /\ Announces(old, added)
         /\ B = old \/ B = old \o added

Durable(B, A) ==
    journalDisk # journal =>
      /\ file = Halves(B) /\ StartsWith(file, disk)
      /\ journalDisk = NoJournal \/ LeftOver(B)

\* What the holder of the lock has reached.
Reached(B, A) ==
    /\ op \in Batches \cup {Read}
    /\ step \in {"recovered", "decoding", "prepared", "cleaned"} => A = << >>
    /\ step \in {"truncated", "resolved", "linked", "writing", "synced"} => A # << >>
    /\ step = "truncated" => file = Halves(B)
    /\ step = "resolved" => file = Halves(B \o A) \/ (file = Halves(B) /\ disk = file)
    /\ step = "prepared" =>
         /\ op \in Batches /\ ~Log!Conflicts(B, op)
         /\ additions = Log!Additions(B, op) /\ additions # << >>
    /\ step \in {"linked", "writing", "synced"} =>
         op \in Batches /\ ~Log!Conflicts(B, op) /\ A = Log!Additions(B, op)
    /\ step = "linked" => file = Halves(B) /\ StartsWith(file, disk)
    /\ step \in {"writing", "synced"} => journalDisk = journal
    /\ step = "synced" => file = Halves(B \o A) /\ disk = file
    /\ step = "cleaned" => op \in Batches /\ InRecords(op) \subseteq InRecords(B)

Core(B, A) ==
    /\ IdsOnce(B)
    /\ A # << >> => Announces(B, A)
    /\ Holds(B, A) /\ Durable(B, A) /\ Reached(B, A)

\* The log of the files as a reader will find it.
LogOf(B, A) == IF Len(disk) = 2 * Len(B \o A) THEN B \o A ELSE B

Kept(C) == acked \subseteq InRecords(C) /\ StartsWith(C, observed) /\ ~broken

IInv ==
    /\ TypeOK
    /\ Base \in Seq(Events) /\ Rest \in Seq(Events)
    /\ Core(Base, Rest) /\ Kept(Committed)
    /\ Committed = LogOf(Base, Rest)

-----------------------------------------------------------------------------
(* Sequences, their prefixes, and the halves of lines.                     *)

\* Prefixes as the recovery compares them (StartsWith), element by element.
LEMMA PrefixElements ==
    ASSUME NEW S, NEW s \in Seq(S), NEW t \in Seq(S)
    PROVE  StartsWith(s, t) <=>
             Len(t) <= Len(s) /\ \A k \in 1..Len(t) : s[k] = t[k]
<1>1. ASSUME Len(t) <= Len(s)
      PROVE  /\ Upto(s, Len(t)) \in Seq(S) /\ Len(Upto(s, Len(t))) = Len(t)
             /\ \A k \in 1..Len(t) : Upto(s, Len(t))[k] = s[k]
  <2>1. Len(t) \in Nat /\ \A i \in 1..Len(t) : s[i] \in S
    BY <1>1, ElementOfSeq, LenProperties
  <2> QED BY <2>1, SubSeqProperties, Z3 DEF Upto
<1>2. ASSUME Len(t) <= Len(s), \A k \in 1..Len(t) : s[k] = t[k]
      PROVE  Upto(s, Len(t)) = t
  BY <1>1, <1>2, SeqEqual
<1> QED BY <1>1, <1>2 DEF StartsWith

\* The first n bytes of a file, as truncate and a torn write leave them (Upto).
LEMMA UptoProperties ==
    ASSUME NEW S, NEW s \in Seq(S), NEW n \in 0..Len(s)
    PROVE  /\ Upto(s, n) \in Seq(S) /\ Len(Upto(s, n)) = n
           /\ \A k \in 1..n : Upto(s, n)[k] = s[k]
<1>1. Len(s) \in Nat /\ \A i \in 1..n : s[i] \in S
  BY ElementOfSeq, LenProperties
<1> QED BY <1>1, SubSeqProperties, Z3 DEF Upto

\* The bytes behind an offset, as the recovery reads them (After).
LEMMA AfterProperties ==
    ASSUME NEW S, NEW s \in Seq(S), NEW n \in 0..Len(s)
    PROVE  /\ After(s, n) \in Seq(S) /\ Len(After(s, n)) = Len(s) - n
           /\ \A k \in 1..(Len(s) - n) : After(s, n)[k] = s[n + k]
<1>1. Len(s) \in Nat /\ \A i \in (n + 1)..Len(s) : s[i] \in S
  BY ElementOfSeq, LenProperties
<1>3. /\ After(s, n) \in Seq(S)
      /\ Len(After(s, n)) = IF n + 1 <= Len(s) THEN Len(s) - (n + 1) + 1 ELSE 0
      /\ \A k \in 1..(Len(s) - (n + 1) + 1) : After(s, n)[k] = s[(n + 1) + k - 1]
  BY <1>1, SubSeqProperties DEF After
<1> QED BY <1>1, <1>3

\* The lines a batch is written as, and the events read back from them.
LEMMA HalvesProperties ==
    ASSUME NEW s \in Seq(Events)
    PROVE  /\ Halves(s) \in Seq(Half) /\ Len(Halves(s)) = 2 * Len(s)
           /\ \A k \in 1..(2 * Len(s)) :
                Halves(s)[k] = <<s[(k + 1) \div 2], IF k % 2 = 1 THEN "head" ELSE "tail">>
           /\ Records(Halves(s)) = s
<1>1. Len(s) \in Nat /\ \A k \in 1..Len(s) : s[k] \in Events
  BY ElementOfSeq, LenProperties
<1>2. \A k \in 1..(2 * Len(s)) : (k + 1) \div 2 \in 1..Len(s)
  BY <1>1
<1>3. Halves(s) \in Seq(Half) /\ Len(Halves(s)) = 2 * Len(s)
  BY <1>1, <1>2 DEF Halves, Half
<1>4. \A k \in 1..(2 * Len(s)) :
         Halves(s)[k] = <<s[(k + 1) \div 2], IF k % 2 = 1 THEN "head" ELSE "tail">>
  BY DEF Halves
<1>5. (2 * Len(s)) \div 2 = Len(s) /\ \A k \in 1..Len(s) :
        2 * k \in 1..(2 * Len(s)) /\ (2 * k + 1) \div 2 = k
  BY <1>1
<1>6. Records(Halves(s)) = [k \in 1..Len(s) |-> s[k]]
  <2> DEFINE h == Halves(s)
  <2>1. Len(h) \div 2 = Len(s) /\ \A k \in 1..Len(s) : h[2 * k][1] = s[k]
    BY <1>3, <1>4, <1>5
  <2> HIDE DEF h
  <2>2. Records(h) = [k \in 1..Len(s) |-> s[k]]
    BY <2>1 DEF Records
  <2> QED BY <2>2 DEF h
<1>7. s = [k \in 1..Len(s) |-> s[k]]
  BY LenProperties
<1> QED BY <1>3, <1>4, <1>6, <1>7

\* The lines of two batches are written one behind the other.
LEMMA HalvesOfConcat ==
    ASSUME NEW s \in Seq(Events), NEW t \in Seq(Events)
    PROVE  Halves(s \o t) = Halves(s) \o Halves(t)
<1>1. Len(s) \in Nat /\ Len(t) \in Nat
  BY LenProperties
<1>2. /\ s \o t \in Seq(Events) /\ Len(s \o t) = Len(s) + Len(t)
      /\ \A i \in 1..(Len(s) + Len(t)) :
           (s \o t)[i] = IF i <= Len(s) THEN s[i] ELSE t[i - Len(s)]
  BY ConcatProperties
<1> DEFINE m == 2 * Len(s)
           n == 2 * Len(t)
           hs == Halves(s)
           ht == Halves(t)
           hst == Halves(s \o t)
<1>a. m \in Nat /\ n \in Nat /\ 2 * Len(s \o t) = m + n
  BY <1>1, <1>2
<1>b. /\ hst \in Seq(Half) /\ Len(hst) = 2 * Len(s \o t)
      /\ \A k \in 1..(2 * Len(s \o t)) : hst[k] =
           <<(s \o t)[(k + 1) \div 2], IF k % 2 = 1 THEN "head" ELSE "tail">>
  BY <1>2, HalvesProperties
<1>3. /\ hs \in Seq(Half) /\ Len(hs) = m /\ ht \in Seq(Half) /\ Len(ht) = n
      /\ hst \in Seq(Half) /\ Len(hst) = m + n /\ m \in Nat /\ n \in Nat
  BY <1>a, <1>b, HalvesProperties
<1>4. /\ hs \o ht \in Seq(Half) /\ Len(hs \o ht) = m + n
      /\ \A i \in 1..(m + n) : (hs \o ht)[i] = IF i <= m THEN hs[i] ELSE ht[i - m]
  <2> HIDE DEF m, n, hs, ht
  <2> QED BY <1>3, ConcatProperties
<1>5. ASSUME NEW k \in 1..(m + n) PROVE hst[k] = (hs \o ht)[k]
  <2>1. hst[k] = <<(s \o t)[(k + 1) \div 2], IF k % 2 = 1 THEN "head" ELSE "tail">>
    BY <1>a, <1>b
  <2>2. (k + 1) \div 2 \in 1..(Len(s) + Len(t))
    BY <1>1
  <2>3. CASE k <= m
    <3>1. k \in 1..m /\ (k + 1) \div 2 <= Len(s)
      BY <1>1, <2>3
    <3>2. hs[k] = <<s[(k + 1) \div 2], IF k % 2 = 1 THEN "head" ELSE "tail">>
      BY <3>1, HalvesProperties
    <3>3. (hs \o ht)[k] = hs[k]
      BY <1>4, <2>3
    <3> QED BY <1>2, <2>1, <2>2, <3>1, <3>2, <3>3
  <2>4. CASE k > m
    <3>1. /\ k - m \in 1..n /\ ~((k + 1) \div 2 <= Len(s)) /\ (k - m) % 2 = k % 2
          /\ (k - m + 1) \div 2 = (k + 1) \div 2 - Len(s)
      BY <1>1, <2>4
    <3>2. ht[k - m] = <<t[(k - m + 1) \div 2], IF (k - m) % 2 = 1 THEN "head" ELSE "tail">>
      BY <3>1, HalvesProperties
    <3>3. (hs \o ht)[k] = ht[k - m]
      BY <1>3, <1>4, <2>4
    <3>4. (s \o t)[(k + 1) \div 2] = t[(k - m + 1) \div 2]
      BY <1>2, <2>2, <3>1
    <3> QED BY <2>1, <3>1, <3>2, <3>3, <3>4
  <2> QED BY <1>3, <2>3, <2>4
<1> HIDE DEF m, n, hs, ht, hst
<1>6. hst = hs \o ht
  BY <1>3, <1>4, <1>5, SeqEqual
<1> QED BY <1>6 DEF hs, ht, hst

\* A prefix of a prefix is a prefix.
LEMMA PrefixTransitive ==
    ASSUME NEW S, NEW s \in Seq(S), NEW t \in Seq(S), NEW u \in Seq(S),
           StartsWith(s, t), StartsWith(t, u)
    PROVE  StartsWith(s, u)
<1>1. /\ Len(t) <= Len(s) /\ \A k \in 1..Len(t) : s[k] = t[k]
      /\ Len(u) <= Len(t) /\ \A k \in 1..Len(u) : t[k] = u[k]
      /\ Len(s) \in Nat /\ Len(t) \in Nat /\ Len(u) \in Nat
  BY PrefixElements, LenProperties
<1>2. Len(u) <= Len(s) /\ \A k \in 1..Len(u) : s[k] = u[k]
  BY <1>1
<1> QED BY <1>2, PrefixElements

\* The shorter of two prefixes of one sequence is a prefix of the longer.
LEMMA PrefixesCompare ==
    ASSUME NEW S, NEW w \in Seq(S), NEW s \in Seq(S), NEW t \in Seq(S),
           StartsWith(w, s), StartsWith(w, t), Len(t) <= Len(s)
    PROVE  StartsWith(s, t)
<1>1. /\ Len(t) <= Len(w) /\ \A k \in 1..Len(t) : w[k] = t[k]
      /\ Len(s) <= Len(w) /\ \A k \in 1..Len(s) : w[k] = s[k]
      /\ Len(s) \in Nat /\ Len(t) \in Nat /\ Len(w) \in Nat
  BY PrefixElements, LenProperties
<1>2. \A k \in 1..Len(t) : s[k] = t[k]
  BY <1>1
<1> QED BY <1>2, PrefixElements

\* A prefix as long as the whole is the whole.
LEMMA WholePrefix ==
    ASSUME NEW S, NEW s \in Seq(S), NEW t \in Seq(S), StartsWith(s, t), Len(t) >= Len(s)
    PROVE  t = s
<1>1. /\ Len(t) <= Len(s) /\ \A k \in 1..Len(t) : s[k] = t[k]
      /\ Len(s) \in Nat /\ Len(t) \in Nat
  BY PrefixElements, LenProperties
<1>2. Len(s) = Len(t) /\ \A k \in 1..Len(s) : t[k] = s[k]
  BY <1>1
<1> QED BY <1>2, SeqEqual

\* Truncating at n leaves a prefix, and the prefix of length n.
LEMMA UptoIsPrefix ==
    ASSUME NEW S, NEW s \in Seq(S), NEW n \in 0..Len(s)
    PROVE  /\ StartsWith(s, Upto(s, n))
           /\ \A t \in Seq(S) : StartsWith(s, t) /\ Len(t) = n => Upto(s, n) = t
<1>1. /\ Upto(s, n) \in Seq(S) /\ Len(Upto(s, n)) = n
      /\ \A k \in 1..n : Upto(s, n)[k] = s[k]
  BY UptoProperties
<1>2. n <= Len(s) /\ Len(s) \in Nat
  BY LenProperties
<1>3. StartsWith(s, Upto(s, n))
  BY <1>1, <1>2, PrefixElements
<1>4. ASSUME NEW t \in Seq(S), StartsWith(s, t), Len(t) = n PROVE Upto(s, n) = t
  <2>1. \A k \in 1..n : s[k] = t[k]
    BY <1>4, PrefixElements
  <2> QED BY <1>1, <1>4, <2>1, SeqEqual
<1> QED BY <1>3, <1>4

\* A sequence is a prefix of itself, and of itself with more behind it.
LEMMA PrefixOfConcat ==
    ASSUME NEW S, NEW s \in Seq(S), NEW t \in Seq(S)
    PROVE  StartsWith(s, s) /\ StartsWith(s \o t, s) /\ StartsWith(s, << >>)
<1>1. Len(s) \in Nat /\ Len(t) \in Nat
  BY LenProperties
<1>2. /\ s \o t \in Seq(S) /\ Len(s \o t) = Len(s) + Len(t)
      /\ \A i \in 1..(Len(s) + Len(t)) :
           (s \o t)[i] = IF i <= Len(s) THEN s[i] ELSE t[i - Len(s)]
  BY ConcatProperties
<1>3. StartsWith(s \o t, s)
  <2>1. Len(s) <= Len(s \o t) /\ \A k \in 1..Len(s) : (s \o t)[k] = s[k]
    BY <1>1, <1>2
  <2> QED BY <1>2, <2>1, PrefixElements
<1>4. StartsWith(s, s)
  BY <1>1, PrefixElements
<1>5. << >> \in Seq(S) /\ Len(<< >>) = 0
  BY EmptySeq
<1>6. StartsWith(s, << >>)
  <2>1. Len(<< >>) <= Len(s) /\ \A k \in 1..Len(<< >>) : s[k] = << >>[k]
    BY <1>1, <1>5
  <2> QED BY <1>5, <2>1, PrefixElements
<1> QED BY <1>3, <1>4, <1>6

\* A file between the log s and the log with a pending append s \o t: what is
\* behind the log is a prefix of the append, all of it exactly when the file
\* is complete, and the next byte of the append may be written.
LEMMA PartOfAppend ==
    ASSUME NEW S, NEW s \in Seq(S), NEW t \in Seq(S), NEW f \in Seq(S),
           StartsWith(s \o t, f), StartsWith(f, s)
    PROVE  LET p == After(f, Len(s))
           IN /\ p \in Seq(S) /\ Len(p) = Len(f) - Len(s)
              /\ StartsWith(t, p)
              /\ p = t <=> f = s \o t
              /\ p # t => /\ Len(p) + 1 \in 1..Len(t)
                          /\ Append(f, t[Len(p) + 1]) \in Seq(S)
                          /\ StartsWith(s \o t, Append(f, t[Len(p) + 1]))
<1> DEFINE p == After(f, Len(s))
<1>1. Len(s) \in Nat /\ Len(t) \in Nat /\ Len(f) \in Nat
  BY LenProperties
<1>2. /\ s \o t \in Seq(S) /\ Len(s \o t) = Len(s) + Len(t)
      /\ \A i \in 1..(Len(s) + Len(t)) :
           (s \o t)[i] = IF i <= Len(s) THEN s[i] ELSE t[i - Len(s)]
  BY ConcatProperties
<1>3. /\ Len(f) <= Len(s) + Len(t) /\ \A k \in 1..Len(f) : (s \o t)[k] = f[k]
      /\ Len(s) <= Len(f) /\ \A k \in 1..Len(s) : f[k] = s[k]
  BY <1>2, PrefixElements
<1>4. /\ p \in Seq(S) /\ Len(p) = Len(f) - Len(s)
      /\ \A k \in 1..(Len(f) - Len(s)) : p[k] = f[Len(s) + k]
  BY <1>1, <1>3, AfterProperties
<1> HIDE DEF p
<1>5. ASSUME NEW k \in 1..Len(p) PROVE t[k] = p[k]
  <2>1. Len(s) + k \in 1..Len(f) /\ ~(Len(s) + k <= Len(s)) /\ Len(s) + k - Len(s) = k
    BY <1>1, <1>3, <1>4
  <2>2. p[k] = f[Len(s) + k] /\ f[Len(s) + k] = (s \o t)[Len(s) + k]
    BY <1>3, <1>4, <2>1
  <2>3. Len(s) + k \in 1..(Len(s) + Len(t))
    BY <1>1, <1>3, <2>1
  <2> QED BY <1>2, <2>1, <2>2, <2>3
<1>6. StartsWith(t, p)
  BY <1>1, <1>3, <1>4, <1>5, PrefixElements
<1>7. ASSUME p = t PROVE f = s \o t
  <2>1. Len(f) >= Len(s \o t)
    BY <1>1, <1>2, <1>4, <1>7
  <2> QED BY <1>2, <2>1, WholePrefix
<1>8. ASSUME f = s \o t PROVE p = t
  BY <1>1, <1>2, <1>4, <1>6, <1>8, WholePrefix
<1>9. ASSUME p # t
      PROVE  /\ Len(p) + 1 \in 1..Len(t)
             /\ Append(f, t[Len(p) + 1]) \in Seq(S)
             /\ StartsWith(s \o t, Append(f, t[Len(p) + 1]))
  <2>1. Len(p) < Len(t) /\ Len(p) \in Nat
    BY <1>1, <1>3, <1>4, <1>6, <1>9, WholePrefix
  <2>2. Len(p) + 1 \in 1..Len(t) /\ t[Len(p) + 1] \in S
    BY <1>1, <2>1, ElementOfSeq
  <2> DEFINE e == t[Len(p) + 1]
             g == Append(f, e)
  <2>3. /\ g \in Seq(S) /\ Len(g) = Len(f) + 1 /\ g[Len(f) + 1] = e
        /\ \A i \in 1..Len(f) : g[i] = f[i]
    BY <2>2, AppendProperties
  <2>4. (s \o t)[Len(f) + 1] = e
    <3>1. /\ Len(f) + 1 \in 1..(Len(s) + Len(t)) /\ ~(Len(f) + 1 <= Len(s))
          /\ Len(f) + 1 - Len(s) = Len(p) + 1
      BY <1>1, <1>3, <1>4, <2>1
    <3> QED BY <1>2, <3>1
  <2> HIDE DEF e, g
  <2>5. Len(g) <= Len(s \o t) /\ \A k \in 1..Len(g) : (s \o t)[k] = g[k]
    BY <1>1, <1>2, <1>3, <1>4, <2>1, <2>3, <2>4
  <2>6. StartsWith(s \o t, g)
    BY <1>2, <2>3, <2>5, PrefixElements
  <2> QED BY <2>2, <2>3, <2>6 DEF e, g
<1> QED BY <1>4, <1>6, <1>7, <1>8, <1>9 DEF p

-----------------------------------------------------------------------------
(* Functions defined by recursion on 0..N.                                 *)

\* A set of numbers with 0 and every successor is Nat: the induction with
\* which the recursion of Additions is followed.
LEMMA NatSetInduction ==
    ASSUME NEW T \in SUBSET Nat, 0 \in T, \A n \in T : n + 1 \in T
    PROVE  T = Nat
<1> DEFINE R == OpToRel(<, Nat)
           U == Nat \ T
<1>1. \A x, y \in Nat : <<x, y>> \in R <=> x < y
  BY DEF OpToRel
<1>2. IsWellFoundedOn(R, Nat)
  BY NatLessThanWellFounded
<1> SUFFICES ASSUME U # {} PROVE FALSE
  OBVIOUS
<1>3. \E x \in U : \A y \in U : ~(<<y, x>> \in R)
  <2> HIDE DEF R, U
  <2>1. U \subseteq Nat
    BY DEF U
  <2> QED BY <1>2, <2>1, WFMin
<1>4. PICK x \in U : \A y \in U : ~(y < x)
  BY <1>1, <1>3
<1>5. x # 0 /\ x - 1 \in Nat /\ x - 1 < x
  BY <1>4
<1>6. x - 1 \in T
  BY <1>4, <1>5
<1> QED BY <1>5, <1>6

\* f takes N steps from s0, each from the value before.
IsRecursion(f, N, s0, next) == f[0] = s0 /\ \A n \in 1..N : f[n] = next[<<n, f[n - 1]>>]

\* A function defined step by step from its value before exists, as the loop
\* of append_many over its batch computes one.
LEMMA BoundedRecursion ==
    ASSUME NEW N \in Nat, NEW S, NEW s0 \in S, NEW next,
           \A n \in 1..N, s \in S : next[<<n, s>>] \in S
    PROVE  \E f \in [0..N -> S] : IsRecursion(f, N, s0, next)
<1> DEFINE Good(m) == \E f \in [0..m -> S] : IsRecursion(f, m, s0, next)
           T == {m \in Nat : m <= N => Good(m)}
<1>1. 0 \in T
  <2>1. [n \in 0..0 |-> s0] \in [0..0 -> S] /\ [n \in 0..0 |-> s0][0] = s0
    OBVIOUS
  <2>2. \A n \in 1..0 : FALSE
    OBVIOUS
  <2>3. Good(0)
    BY <2>1, <2>2 DEF IsRecursion
  <2> QED BY <2>3
<1>2. ASSUME NEW m \in T PROVE m + 1 \in T
  <2> SUFFICES ASSUME m + 1 <= N PROVE Good(m + 1)
    OBVIOUS
  <2>1. PICK f \in [0..m -> S] :
          f[0] = s0 /\ \A n \in 1..m : f[n] = next[<<n, f[n - 1]>>]
    BY <1>2 DEF IsRecursion
  <2> DEFINE g == [n \in 0..(m + 1) |-> IF n = m + 1 THEN next[<<m + 1, f[m]>>] ELSE f[n]]
  <2>2. m \in Nat /\ m \in 0..m /\ m + 1 \in 1..N /\ f[m] \in S
    BY <1>2, <2>1
  <2>3. next[<<m + 1, f[m]>>] \in S
    BY <2>2
  <2>4. g \in [0..(m + 1) -> S]
    BY <2>1, <2>2, <2>3
  <2>5. g[0] = s0
    BY <2>1, <2>2
  <2>6. ASSUME NEW n \in 1..(m + 1) PROVE g[n] = next[<<n, g[n - 1]>>]
    <3>1. n - 1 \in 0..m /\ n \in 0..(m + 1) /\ n - 1 # m + 1 /\ n - 1 \in 0..(m + 1)
      BY <2>2
    <3>2. g[n - 1] = f[n - 1]
      BY <3>1
    <3>3. CASE n = m + 1
      <4>1. g[n] = next[<<m + 1, f[m]>>] /\ n - 1 = m
        BY <3>1, <3>3, <2>2
      <4> QED BY <4>1, <3>2, <3>3
    <3>4. CASE n # m + 1
      <4>1. n \in 1..m /\ g[n] = f[n]
        BY <3>1, <3>4, <2>2
      <4> QED BY <4>1, <3>2, <2>1
    <3> QED BY <3>3, <3>4
  <2> HIDE DEF g
  <2> QED BY <2>4, <2>5, <2>6 DEF IsRecursion
<1>3. T = Nat
  <2> HIDE DEF Good
  <2> QED BY <1>1, <1>2, NatSetInduction
<1>4. N \in T
  BY <1>3
<1> QED BY <1>4

-----------------------------------------------------------------------------
(* The events of a batch that the log does not have yet.                   *)

\* append_many goes through the batch event by event (Additions).
LEMMA AdditionsStepByStep ==
    ASSUME NEW l \in Seq(Events), NEW b \in Seq(Events)
    PROVE  \E f \in [0..Len(b) -> Seq(Events)] :
             /\ f[0] = << >>
             /\ \A n \in 1..Len(b) :
                  f[n] = IF b[n] \in InRecords(l) \cup InRecords(f[n - 1]) THEN f[n - 1]
                         ELSE Append(f[n - 1], b[n])
             /\ f[Len(b)] = Log!Additions(l, b)
<1> DEFINE N == Len(b)
           S == Seq(Events)
           Then(n, s) == IF b[n] \in InRecords(l) \cup InRecords(s) THEN s ELSE Append(s, b[n])
           next == [x \in (1..N) \X S |-> Then(x[1], x[2])]
<1>1. N \in Nat /\ << >> \in S /\ \A n \in 1..N : b[n] \in Events
  BY EmptySeq, ElementOfSeq, LenProperties
<1>2. ASSUME NEW n \in 1..N, NEW s \in S PROVE next[<<n, s>>] \in S
  <2>1. Append(s, b[n]) \in S
    BY <1>1, AppendProperties
  <2> QED BY <2>1
<1> DEFINE s0 == << >>
<1>3. PICK f \in [0..N -> S] :
        f[0] = << >> /\ \A n \in 1..N : f[n] = next[<<n, f[n - 1]>>]
  <2>1. \E f \in [0..N -> S] : IsRecursion(f, N, s0, next)
    <3>1. N \in Nat /\ s0 \in S
      BY <1>1
    <3> HIDE DEF N, S, next, s0
    <3> QED BY <1>2, <3>1, BoundedRecursion
  <2> QED BY <2>1 DEF IsRecursion
<1>4. \A n \in 1..N : f[n] = Then(n, f[n - 1])
  <2> SUFFICES ASSUME NEW n \in 1..N PROVE f[n] = Then(n, f[n - 1])
    OBVIOUS
  <2>1. n - 1 \in 0..N
    BY <1>1
  <2>2. <<n, f[n - 1]>> \in (1..N) \X S
    BY <2>1, <1>3
  <2> QED BY <1>3, <2>2
<1> DEFINE Solves(g) ==
      g = [n \in 0..N |-> IF n = 0 THEN << >>
                          ELSE IF b[n] \in Log!InLog(l) \cup Log!InLog(g[n - 1]) THEN g[n - 1]
                               ELSE Append(g[n - 1], b[n])]
<1>5. \A s : Log!InLog(s) = InRecords(s)
  BY DEF Log!InLog, InRecords
<1>6. Solves(f)
  <2> DEFINE h == [n \in 0..N |-> IF n = 0 THEN << >> ELSE Then(n, f[n - 1])]
  <2>1. \A n \in 0..N : f[n] = h[n]
    <3> SUFFICES ASSUME NEW n \in 0..N, n # 0 PROVE f[n] = Then(n, f[n - 1])
      BY <1>3
    <3>1. n \in 1..N
      BY <1>1
    <3> QED BY <3>1, <1>4
  <2>2. f = h
    BY <2>1, <1>3
  <2> QED BY <2>2, <1>5
<1> DEFINE added == CHOOSE g : Solves(g)
<1>7. Solves(added)
  <2> HIDE DEF Solves
  <2> QED BY <1>6
<1>8. Log!Additions(l, b) = added[N]
  BY DEF Log!Additions
<1>9. added \in [0..N -> S] /\ \A n \in 0..N : added[n] = f[n]
  <2> DEFINE T == {n \in Nat : n <= N => added[n] = f[n]}
  <2>1. 0 \in T
    <3>1. 0 \in 0..N
      BY <1>1
    <3> QED BY <3>1, <1>3, <1>7
  <2>2. ASSUME NEW n \in T PROVE n + 1 \in T
    <3> SUFFICES ASSUME n + 1 <= N PROVE added[n + 1] = f[n + 1]
      OBVIOUS
    <3>1. n + 1 \in 0..N /\ n + 1 \in 1..N /\ n + 1 # 0 /\ (n + 1) - 1 = n /\ added[n] = f[n]
      BY <2>2, <1>1
    <3> HIDE DEF added
    <3>2. added[n + 1] = Then(n + 1, added[n])
      BY <3>1, <1>7, <1>5
    <3> QED BY <3>1, <3>2, <1>4
  <2>3. T = Nat
    <3> HIDE DEF added
    <3> QED BY <2>1, <2>2, NatSetInduction
  <2>4. \A n \in 0..N : added[n] = f[n]
    <3> HIDE DEF added
    <3> TAKE n \in 0..N
    <3>1. n \in T /\ n <= N
      <4>1. n \in Nat /\ n <= N
        BY <1>1
      <4> HIDE DEF T
      <4> QED BY <2>3, <4>1
    <3> QED BY <3>1
  <2>5. DOMAIN added = 0..N /\ added = [n \in 0..N |-> added[n]]
    <3> HIDE DEF added
    <3> QED BY <1>7
  <2> HIDE DEF added
  <2> QED BY <2>4, <2>5, <1>3
<1>10. f[N] = Log!Additions(l, b)
  <2>1. N \in 0..N
    BY <1>1
  <2> HIDE DEF added
  <2> QED BY <2>1, <1>8, <1>9
<1> QED BY <1>3, <1>4, <1>10

\* What append_many adds: the events of the batch that the log lacks, in
\* the log's alphabet and each of them once.
LEMMA AdditionsProperties ==
    ASSUME NEW l \in Seq(Events), NEW b \in Seq(Events)
    PROVE  LET A == Log!Additions(l, b)
           IN /\ A \in Seq(Events)
              /\ InRecords(A) = InRecords(b) \ InRecords(l)
              /\ \A j, k \in DOMAIN A : A[j] = A[k] => j = k
<1> DEFINE N == Len(b)
<1>1. PICK f \in [0..N -> Seq(Events)] :
        /\ f[0] = << >>
        /\ \A n \in 1..N :
             f[n] = IF b[n] \in InRecords(l) \cup InRecords(f[n - 1]) THEN f[n - 1]
                    ELSE Append(f[n - 1], b[n])
        /\ f[N] = Log!Additions(l, b)
  BY AdditionsStepByStep
<1>2. N \in Nat /\ DOMAIN b = 1..N /\ \A n \in 1..N : b[n] \in Events
  BY ElementOfSeq, LenProperties
<1> DEFINE Once(s) == \A j, k \in DOMAIN s : s[j] = s[k] => j = k
           First(n) == {b[k] : k \in 1..n}
           Good(n) == InRecords(f[n]) = First(n) \ InRecords(l) /\ Once(f[n])
           T == {n \in Nat : n <= N => Good(n)}
<1>3. 0 \in T
  <2>1. DOMAIN << >> = {} /\ 1..0 = {}
    OBVIOUS
  <2> QED BY <1>1, <2>1 DEF InRecords
<1>4. ASSUME NEW n \in T PROVE n + 1 \in T
  <2>0. n \in Nat /\ (n <= N => Good(n))
    BY <1>4
  <2> SUFFICES ASSUME n + 1 <= N PROVE Good(n + 1)
    <3> HIDE DEF Good
    <3> QED BY <2>0
  <2>1. /\ n \in Nat /\ n \in 0..N /\ n + 1 \in 1..N /\ (n + 1) - 1 = n
        /\ InRecords(f[n]) = First(n) \ InRecords(l) /\ Once(f[n]) /\ f[n] \in Seq(Events)
    <3>1. n \in 0..N /\ n + 1 \in 1..N /\ (n + 1) - 1 = n /\ n <= N
      <4> HIDE DEF Good, N
      <4> QED BY <1>2, <2>0
    <3>2. Good(n)
      BY <2>0, <3>1
    <3>3. f[n] \in Seq(Events)
      BY <1>1, <3>1
    <3> QED BY <2>0, <3>1, <3>2, <3>3
  <2>2. First(n + 1) = First(n) \cup {b[n + 1]}
    <3>1. 1..(n + 1) = (1..n) \cup {n + 1}
      BY <2>1
    <3> QED BY <3>1
  <2> DEFINE s == f[n]
             e == b[n + 1]
             t == Append(s, e)
  <2>3. f[n + 1] = IF e \in InRecords(l) \cup InRecords(s) THEN s ELSE t
    BY <1>1, <2>1
  <2> HIDE DEF First
  <2>4. CASE e \in InRecords(l) \cup InRecords(s)
    BY <2>1, <2>2, <2>3, <2>4
  <2>5. CASE e \notin InRecords(l) \cup InRecords(s)
    <3>1. e \in Events /\ s \in Seq(Events)
      BY <1>2, <2>1
    <3> HIDE DEF e, s
    <3>2. /\ Len(s) \in Nat /\ DOMAIN s = 1..Len(s) /\ DOMAIN t = 1..(Len(s) + 1)
          /\ \A i \in 1..Len(s) : t[i] = s[i]
          /\ t[Len(s) + 1] = e
      BY <3>1, AppendProperties, LenProperties
    <3> HIDE DEF t
    <3>3. 1..(Len(s) + 1) = (1..Len(s)) \cup {Len(s) + 1}
      BY <3>2
    <3>4. InRecords(t) = InRecords(s) \cup {e}
      <4>1. InRecords(t) = {t[k] : k \in (1..Len(s)) \cup {Len(s) + 1}}
        BY <3>2, <3>3 DEF InRecords
      <4>2. InRecords(s) = {s[k] : k \in 1..Len(s)}
        BY <3>2 DEF InRecords
      <4> QED BY <3>2, <4>1, <4>2
    <3>5. \A i \in 1..Len(s) : s[i] # e
      BY <2>5, <3>2 DEF InRecords
    <3>6. Once(t)
      BY <3>2, <3>3, <3>5, <2>1 DEF s
    <3> QED BY <2>1, <2>2, <2>3, <2>5, <3>4, <3>6 DEF e, s, t
  <2> QED BY <2>4, <2>5
<1>5. T = Nat
  <2> HIDE DEF First, Once
  <2> QED BY <1>3, <1>4, NatSetInduction
<1>6. N \in T
  BY <1>2, <1>5
<1>7. First(N) = InRecords(b)
  BY <1>2 DEF InRecords
<1>8. f[N] \in Seq(Events)
  BY <1>1, <1>2
<1> QED BY <1>1, <1>2, <1>6, <1>7, <1>8

\* A batch that does not conflict with the log brings every event of it into
\* the log, and no event id twice (append_many against _decode).
LEMMA AppendedOnce ==
    ASSUME NEW l \in Seq(Events), IdsOnce(l),
           NEW b \in Batches, ~Log!Conflicts(l, b)
    PROVE  LET A == Log!Additions(l, b)
           IN /\ A \in Seq(Events) /\ IdsOnce(l \o A)
              /\ InRecords(b) \subseteq InRecords(l \o A)
              /\ InRecords(l) \subseteq InRecords(l \o A)
<1> DEFINE A == Log!Additions(l, b)
           c == l \o A
<1>1. /\ b \in Seq(Events)
      /\ \A j, k \in DOMAIN b : IdOf[b[j]] = IdOf[b[k]] => b[j] = b[k]
  BY BatchesAssumption
<1>2. /\ A \in Seq(Events) /\ InRecords(A) = InRecords(b) \ InRecords(l)
      /\ \A j, k \in DOMAIN A : A[j] = A[k] => j = k
  BY <1>1, AdditionsProperties
<1>3. \A e \in InRecords(b), f \in InRecords(l) : IdOf[e] = IdOf[f] => e = f
  BY DEF Log!Conflicts, Log!InLog, InRecords
<1>4. \A e, f \in InRecords(b) : IdOf[e] = IdOf[f] => e = f
  BY <1>1 DEF InRecords
<1> HIDE DEF A
<1>5. /\ Len(l) \in Nat /\ Len(A) \in Nat /\ DOMAIN l = 1..Len(l) /\ DOMAIN A = 1..Len(A)
      /\ c \in Seq(Events) /\ Len(c) = Len(l) + Len(A)
      /\ \A i \in 1..(Len(l) + Len(A)) : c[i] = IF i <= Len(l) THEN l[i] ELSE A[i - Len(l)]
  BY <1>2, ConcatProperties, LenProperties
<1> HIDE DEF c
<1>6. DOMAIN c = 1..(Len(l) + Len(A))
  BY <1>5, LenProperties
<1>7. ASSUME NEW j \in 1..Len(l) PROVE j \in DOMAIN c /\ c[j] = l[j] /\ l[j] \in InRecords(l)
  BY <1>5, <1>6 DEF InRecords
<1>8. ASSUME NEW j \in 1..Len(A)
      PROVE  /\ j + Len(l) \in DOMAIN c /\ c[j + Len(l)] = A[j]
             /\ A[j] \in InRecords(b) \ InRecords(l)
  <2>1. /\ j + Len(l) \in 1..(Len(l) + Len(A)) /\ ~(j + Len(l) <= Len(l))
        /\ (j + Len(l)) - Len(l) = j
    BY <1>5
  <2>2. A[j] \in InRecords(A)
    BY <1>5 DEF InRecords
  <2> QED BY <1>2, <1>5, <1>6, <2>1, <2>2
<1>9. \A j \in DOMAIN c : j \in 1..Len(l) \/ \E i \in 1..Len(A) : j = i + Len(l)
  <2> SUFFICES ASSUME NEW j \in 1..(Len(l) + Len(A)), j > Len(l)
               PROVE  \E i \in 1..Len(A) : j = i + Len(l)
    BY <1>5, <1>6
  <2>1. j - Len(l) \in 1..Len(A) /\ j = (j - Len(l)) + Len(l)
    BY <1>5
  <2> QED BY <2>1
<1>10. IdsOnce(c)
  <2> SUFFICES ASSUME NEW j \in DOMAIN c, NEW k \in DOMAIN c, IdOf[c[j]] = IdOf[c[k]]
               PROVE  j = k
    BY DEF IdsOnce
  <2>1. CASE j \in 1..Len(l) /\ k \in 1..Len(l)
    BY <2>1, <1>5, <1>7 DEF IdsOnce
  <2>2. CASE j \in 1..Len(l) /\ \E i \in 1..Len(A) : k = i + Len(l)
    BY <2>2, <1>3, <1>7, <1>8
  <2>3. CASE k \in 1..Len(l) /\ \E i \in 1..Len(A) : j = i + Len(l)
    BY <2>3, <1>3, <1>7, <1>8
  <2>4. ASSUME NEW i \in 1..Len(A), j = i + Len(l), NEW h \in 1..Len(A), k = h + Len(l)
        PROVE  j = k
    <3>1. A[i] = A[h]
      BY <2>4, <1>4, <1>8
    <3> QED BY <2>4, <3>1, <1>2, <1>5
  <2> QED BY <2>1, <2>2, <2>3, <2>4, <1>9
<1>11. InRecords(l) \subseteq InRecords(c) /\ InRecords(A) \subseteq InRecords(c)
  <2>1. InRecords(l) = {l[k] : k \in 1..Len(l)} /\ InRecords(A) = {A[k] : k \in 1..Len(A)}
    BY <1>5 DEF InRecords
  <2>2. \A k \in DOMAIN c : c[k] \in InRecords(c)
    BY DEF InRecords
  <2> QED BY <2>1, <2>2, <1>7, <1>8
<1> QED BY <1>2, <1>10, <1>11 DEF A, c

-----------------------------------------------------------------------------
(* The two files hold the log B and the pending additions A.               *)

\* The journal of an append in flight, and where it starts behind the log
\* (append_many, _recover_pending_locked).
LEMMA JournalFacts ==
    ASSUME NEW B \in Seq(Events), NEW A \in Seq(Events)
    PROVE  /\ 2 * Len(B) = Len(Halves(B)) /\ 2 * Len(B \o A) = Len(Halves(B \o A))
           /\ B \o A \in Seq(Events) /\ Len(B \o A) = Len(B) + Len(A)
           /\ Halves(B \o A) = Halves(B) \o Halves(A)
           /\ Halves(B) \in Seq(Half) /\ Halves(A) \in Seq(Half) /\ Halves(B \o A) \in Seq(Half)
           /\ Len(A) \in Nat /\ Len(B) \in Nat
           /\ Records(Halves(B)) = B /\ Records(Halves(B \o A)) = B \o A
           /\ Records(Halves(A)) = A
           /\ A = << >> => B \o A = B
           /\ A # << >> => /\ Len(A) > 0 /\ JournalOf(B, A) # NoJournal
                           /\ Halves(A) # << >> /\ Halves(B \o A) # Halves(B)
           /\ JournalOf(B, A) \in JournalType
           /\ JournalOf(B, A).start = 2 * Len(B) /\ JournalOf(B, A).bytes = Halves(A)
<1>1. B \o A \in Seq(Events) /\ Len(B \o A) = Len(B) + Len(A)
  BY ConcatProperties
<1>2. /\ Halves(B) \in Seq(Half) /\ Halves(A) \in Seq(Half) /\ Halves(B \o A) \in Seq(Half)
      /\ Len(Halves(B)) = 2 * Len(B) /\ Len(Halves(A)) = 2 * Len(A)
      /\ Len(Halves(B \o A)) = 2 * Len(B \o A)
      /\ Records(Halves(B)) = B /\ Records(Halves(B \o A)) = B \o A /\ Records(Halves(A)) = A
  BY <1>1, HalvesProperties
<1>3. Len(A) \in Nat /\ Len(B) \in Nat
  BY LenProperties
<1>4. A = << >> => B \o A = B
  BY ConcatEmptySeq
<1>5. A # << >> => Len(A) > 0
  BY <1>3, EmptySeq
<1>6. A # << >> => Halves(A) # << >> /\ Halves(B \o A) # Halves(B)
  <2> SUFFICES ASSUME Len(A) > 0 PROVE Halves(A) # << >> /\ Halves(B \o A) # Halves(B)
    BY <1>5
  <2>1. Len(Halves(A)) > 0 /\ Len(Halves(B \o A)) # Len(Halves(B))
    BY <1>1, <1>2, <1>3
  <2>2. Len(<< >>) = 0
    BY EmptySeq
  <2> QED BY <2>1, <2>2
<1>7. JournalOf(B, A).start = 2 * Len(B) /\ JournalOf(B, A).bytes = Halves(A)
  BY DEF JournalOf
<1>8. JournalOf(B, A) \in JournalType /\ (A # << >> => JournalOf(B, A) # NoJournal)
  <2>1. 2 * Len(B) \in Nat
    BY <1>3
  <2>2. JournalOf(B, A) \in JournalType
    BY <2>1, <1>2 DEF JournalOf, JournalType
  <2>3. NoJournal.bytes = << >>
    BY DEF NoJournal
  <2> QED BY <2>2, <2>3, <1>6, <1>7
<1> QED BY <1>1, <1>2, <1>3, <1>4, <1>5, <1>6, <1>7, <1>8, HalvesOfConcat

\* What the files say when nothing is pending.
LEMMA HoldsSettled ==
    ASSUME NEW B \in Seq(Events), file \in Seq(Half), disk \in Seq(Half), Holds(B, << >>)
    PROVE  /\ journal = NoJournal /\ file = Halves(B) /\ Records(file) = B
           /\ StartsWith(file, disk)
<1>1. << >> \in Seq(Events) /\ B \o << >> = B
  BY EmptySeq, ConcatEmptySeq
<1>2. /\ journal = NoJournal /\ StartsWith(file, Halves(B)) /\ StartsWith(Halves(B), file)
      /\ StartsWith(Halves(B), disk)
  BY <1>1 DEF Holds
<1>3. Halves(B) \in Seq(Half) /\ Records(Halves(B)) = B
  BY HalvesProperties
<1>4. Len(file) >= Len(Halves(B))
  BY <1>2 DEF StartsWith
<1>5. file = Halves(B)
  BY <1>2, <1>3, <1>4, WholePrefix
<1> QED BY <1>2, <1>3, <1>5

\* What the files say while additions are pending: how the recovery and the
\* append see the suffix of the file.
LEMMA HoldsPending ==
    ASSUME NEW B \in Seq(Events), NEW A \in Seq(Events), A # << >>,
           file \in Seq(Half), disk \in Seq(Half), Holds(B, A)
    PROVE  /\ journal # NoJournal /\ journal = JournalOf(B, A)
           /\ journal.start = Len(Halves(B)) /\ journal.bytes = Halves(A)
           /\ journal.start <= Len(file) /\ StartsWith(journal.bytes, Suffix)
           /\ Upto(file, journal.start) = Halves(B)
           /\ Suffix = journal.bytes <=> file = Halves(B \o A)
           /\ Suffix # journal.bytes =>
                LET longer == Append(file, journal.bytes[Len(Suffix) + 1])
                IN longer \in Seq(Half) /\ StartsWith(Halves(B \o A), longer)
           /\ Len(file) \in Len(Halves(B))..Len(Halves(B \o A))
           /\ Len(disk) \in 0..Len(Halves(B \o A))
<1>1. /\ journal = JournalOf(B, A) /\ journal # NoJournal
      /\ journal.start = Len(Halves(B)) /\ journal.bytes = Halves(A)
  BY JournalFacts DEF Holds
<1> DEFINE s == Halves(B)
           t == Halves(A)
           w == Halves(B \o A)
<1>2. /\ s \in Seq(Half) /\ t \in Seq(Half) /\ w \in Seq(Half) /\ w = s \o t
      /\ StartsWith(w, file) /\ StartsWith(file, s) /\ StartsWith(w, disk)
  BY JournalFacts DEF Holds
<1>3. /\ Suffix = After(file, Len(s))
  BY <1>1 DEF Suffix
<1> HIDE DEF s, t, w
<1>4. /\ StartsWith(t, Suffix)
      /\ Suffix = t <=> file = w
      /\ Suffix # t => /\ Append(file, t[Len(Suffix) + 1]) \in Seq(Half)
                       /\ StartsWith(w, Append(file, t[Len(Suffix) + 1]))
  BY <1>2, <1>3, PartOfAppend
<1>5. /\ Len(s) \in Nat /\ Len(file) \in Nat /\ Len(w) \in Nat /\ Len(disk) \in Nat
      /\ Len(s) <= Len(file) /\ Len(file) <= Len(w) /\ Len(disk) <= Len(w)
  BY <1>2, LenProperties DEF StartsWith
<1>6. Upto(file, Len(s)) = s
  BY <1>2 DEF StartsWith
<1> QED BY <1>1, <1>4, <1>5, <1>6 DEF s, t, w

\* Which log and which additions the files hold can be read from them, and
\* so can what a reader will find in the end (Committed).
LEMMA HoldsDetermines ==
    ASSUME NEW B \in Seq(Events), NEW A \in Seq(Events),
           file \in Seq(Half), disk \in Seq(Half), Holds(B, A)
    PROVE  Base = B /\ Rest = A /\ Committed = LogOf(B, A)
<1>1. CASE A = << >>
  <2>1. journal = NoJournal /\ Records(file) = B
    BY <1>1, HoldsSettled
  <2>2. B \o A = B
    BY JournalFacts, <1>1
  <2> QED BY <1>1, <2>1, <2>2 DEF Base, Rest, Committed, LogOf
<1>2. CASE A # << >>
  <2>1. /\ journal # NoJournal /\ journal = JournalOf(B, A)
        /\ journal.start = Len(Halves(B)) /\ journal.bytes = Halves(A)
        /\ Upto(file, journal.start) = Halves(B)
        /\ Len(disk) \in 0..Len(Halves(B \o A))
    BY <1>2, HoldsPending
  <2>2. Records(Halves(B)) = B /\ Records(Halves(A)) = A /\ Records(Halves(B \o A)) = B \o A
    BY JournalFacts
  <2>3. Base = B /\ Rest = A
    BY <2>1, <2>2 DEF Base, Rest
  <2>4. /\ Len(Halves(B)) + Len(Halves(A)) = 2 * Len(B \o A)
        /\ Len(Halves(B \o A)) = 2 * Len(B \o A) /\ 2 * Len(B \o A) \in Nat
    <3>1. Len(Halves(A)) = 2 * Len(A)
      BY HalvesProperties
    <3>2. /\ 2 * Len(B) = Len(Halves(B)) /\ 2 * Len(B \o A) = Len(Halves(B \o A))
          /\ Len(B \o A) = Len(B) + Len(A) /\ Len(A) \in Nat /\ Len(B) \in Nat
      BY JournalFacts
    <3> DEFINE a == Len(A)
               b == Len(B)
               c == Len(B \o A)
    <3>3. a \in Nat /\ b \in Nat /\ c = b + a
      BY <3>2
    <3> HIDE DEF a, b, c
    <3>4. 2 * b + 2 * a = 2 * c /\ 2 * c \in Nat
      BY <3>3
    <3> QED BY <3>1, <3>2, <3>4 DEF a, b, c
  <2>5. Len(disk) >= journal.start + Len(journal.bytes) <=> Len(disk) = 2 * Len(B \o A)
    BY <2>1, <2>4
  <2>6. Len(disk) = 2 * Len(B \o A) => file = Halves(B \o A)
    BY DEF Holds
  <2>7. Committed = LogOf(B, A)
    BY <2>1, <2>2, <2>5, <2>6 DEF Committed, LogOf
  <2> QED BY <2>3, <2>7
<1> QED BY <1>1, <1>2

-----------------------------------------------------------------------------
(* Every step leaves files that hold a log and its pending additions, and  *)
(* the log that is committed stays or takes the pending additions.         *)

Commits(B, A, C, D) ==
    \/ LogOf(C, D)' = LogOf(B, A)
    \/ A # << >> /\ LogOf(B, A) = B /\ LogOf(C, D)' = B \o A

Advance(B, A) == \E C, D \in Seq(Events) : Core(C, D)' /\ Commits(B, A, C, D)

\* A step of the holder that touches no file (Lock, Answer, Prepare, a crash)
\* needs only what the holder has reached.
LEMMA SameFiles ==
    ASSUME NEW B \in Seq(Events), NEW A \in Seq(Events), Core(B, A),
           UNCHANGED files, Reached(B, A)'
    PROVE  Advance(B, A)
<1>1. /\ file' = file /\ disk' = disk /\ journal' = journal /\ journalDisk' = journalDisk
  BY DEF files
<1>2. Holds(B, A)'
  BY <1>1 DEF Core, Holds
<1>3. Durable(B, A)'
  BY <1>1 DEF Core, Durable, LeftOver
<1>4. LogOf(B, A)' = LogOf(B, A)
  BY <1>1 DEF LogOf
<1> QED BY <1>2, <1>3, <1>4 DEF Core, Advance, Commits

\* Lock, the recovery without a journal, and a crash of the holder.
LEMMA HolderAdvances ==
    ASSUME NEW B \in Seq(Events), NEW A \in Seq(Events), TypeOK, Core(B, A),
           \/ \E b \in Batches \cup {Read} : Lock(b)
           \/ NothingPending \/ Crash
    PROVE  Advance(B, A)
<1> USE DEF Core
<1>1. ASSUME NEW b \in Batches \cup {Read}, Lock(b) PROVE Reached(B, A)' /\ UNCHANGED files
  BY <1>1 DEF Lock, Reached, files
<1>2. ASSUME NothingPending PROVE Reached(B, A)' /\ UNCHANGED files
  <2>1. A = << >>
    BY <1>2, JournalFacts DEF NothingPending, Holds
  <2> QED BY <1>2, <2>1 DEF NothingPending, Reached, files
<1>3. ASSUME Crash PROVE Reached(B, A)' /\ UNCHANGED files
  BY <1>3 DEF Crash, Reached, files
<1> QED BY <1>1, <1>2, <1>3, SameFiles

\* _recover_pending_locked never raises: the suffix of the file is a prefix
\* of the pending append, which is accepted or truncated.
LEMMA RecoverAdvances ==
    ASSUME NEW B \in Seq(Events), NEW A \in Seq(Events), TypeOK, Core(B, A), Recover
    PROVE  Advance(B, A) /\ broken' = broken
<1>1. file \in Seq(Half) /\ disk \in Seq(Half)
  BY DEF TypeOK
<1>2. A # << >>
  BY DEF Recover, Core, Holds
<1>3. /\ journal.start <= Len(file) /\ StartsWith(journal.bytes, Suffix)
      /\ journal.start = Len(Halves(B)) /\ Upto(file, journal.start) = Halves(B)
      /\ Suffix = journal.bytes <=> file = Halves(B \o A)
      /\ Len(disk) \in 0..Len(Halves(B \o A))
  BY <1>1, <1>2, HoldsPending DEF Core
<1>4. AcceptSuffix \/ RollBack
  BY <1>3 DEF Recover
<1>5. CASE AcceptSuffix
  <2>1. Reached(B, A)' /\ UNCHANGED files
    BY <1>2, <1>3, <1>5 DEF AcceptSuffix, Reached, files, Core
  <2> QED BY <2>1, <1>5, SameFiles DEF AcceptSuffix, history
<1>6. CASE RollBack
  <2>1. /\ file' = Halves(B) /\ disk' = disk /\ journal' = journal /\ journalDisk' = journalDisk
        /\ step' = "truncated" /\ op' = op /\ additions' = additions /\ broken' = broken
    BY <1>3, <1>6 DEF RollBack, history
  <2>2. Len(disk) # 2 * Len(B \o A)
    BY <1>3, <1>6 DEF RollBack, Core, Holds
  <2>3. Holds(B, A)'
    <3>1. StartsWith(Halves(B), Halves(B)) /\ StartsWith(Halves(B \o A), Halves(B))
      <4>1. /\ Halves(B) \in Seq(Half) /\ Halves(A) \in Seq(Half)
            /\ Halves(B \o A) = Halves(B) \o Halves(A)
        BY JournalFacts
      <4> QED BY <4>1, PrefixOfConcat
    <3> QED BY <2>1, <2>2, <3>1 DEF Core, Holds
  <2>4. Durable(B, A)'
    BY <2>1 DEF Core, Durable, LeftOver
  <2>5. Reached(B, A)'
    BY <1>2, <2>1 DEF Core, Reached
  <2>6. LogOf(B, A)' = LogOf(B, A)
    BY <2>1 DEF LogOf
  <2> QED BY <2>1, <2>3, <2>4, <2>5, <2>6 DEF Core, Advance, Commits
<1> QED BY <1>4, <1>5, <1>6

\* What a step adds to what was acknowledged and shown is in the log.
Tells(B) ==
    /\ acked' \subseteq acked \cup InRecords(B)
    /\ observed' \in {observed, B}
    /\ broken' = broken

\* Decoding never raises; a reader is shown the log, and append_many learns
\* which of its events are to be added (Decode, Answer, Prepare).
LEMMA DecodeAdvances ==
    ASSUME NEW B \in Seq(Events), NEW A \in Seq(Events), TypeOK, Core(B, A), Decode
    PROVE  Advance(B, A) /\ Tells(B) /\ additions' \in Seq(Events)
<1>1. file \in Seq(Half) /\ disk \in Seq(Half) /\ additions \in Seq(Events)
  BY DEF TypeOK
<1>2. A = << >> /\ step = "decoding"
  BY DEF Decode, Core, Reached
<1>3. file = Halves(B) /\ Records(file) = B
  BY <1>1, <1>2, HoldsSettled DEF Core
<1>4. Answer \/ Prepare
  BY <1>3 DEF Decode, Decodes, Core
<1>5. CASE Answer
  <2>1. Reached(B, A)' /\ UNCHANGED files
    BY <1>2, <1>5 DEF Answer, Reached, files, Core
  <2>2. Tells(B) /\ additions' = additions
    BY <1>3, <1>5 DEF Answer, Tells
  <2> QED BY <1>1, <2>1, <2>2, SameFiles
<1>6. CASE Prepare
  <2> DEFINE new == Log!Additions(B, op)
             taken == Log!Conflicts(B, op)
  <2>1. PrepareWith(new, taken)
    BY <1>3, <1>6 DEF Prepare
  <2>2. op \in Batches /\ op \in Seq(Events)
    BY <1>6, BatchesAssumption DEF Prepare, PrepareWith, Core, Reached
  <2>3. new \in Seq(Events) /\ InRecords(new) = InRecords(op) \ InRecords(B)
    BY <2>2, AdditionsProperties
  <2>4. new = << >> => InRecords(op) \subseteq InRecords(B)
    <3> SUFFICES ASSUME new = << >> PROVE InRecords(op) \subseteq InRecords(B)
      OBVIOUS
    <3>1. InRecords(<< >>) = {}
      BY DEF InRecords
    <3> HIDE DEF new
    <3> QED BY <2>3, <3>1
  <2> HIDE DEF new, taken
  <2>5. Tells(B) /\ additions' \in Seq(Events) /\ UNCHANGED files
    BY <2>1, <2>3, <2>4, EmptySeq DEF PrepareWith, Tells
  <2>6. Reached(B, A)'
    BY <1>2, <2>1, <2>2 DEF PrepareWith, Reached, new, taken
  <2> QED BY <2>5, <2>6, SameFiles
<1> QED BY <1>4, <1>5, <1>6

\* The truncation is synced: the durable file is the log (SyncRollBack).
LEMMA SyncRollBackAdvances ==
    ASSUME NEW B \in Seq(Events), NEW A \in Seq(Events), TypeOK, Core(B, A), SyncRollBack
    PROVE  Advance(B, A)
<1>1. A # << >> /\ file = Halves(B)
  BY DEF SyncRollBack, Core, Reached
<1>2. /\ file' = file /\ disk' = file /\ journal' = journal /\ journalDisk' = journalDisk
      /\ step' = "resolved" /\ op' = op /\ additions' = additions
  BY DEF SyncRollBack
<1>3. /\ Halves(B) \in Seq(Half) /\ Halves(A) \in Seq(Half) /\ Halves(B \o A) = Halves(B) \o Halves(A)
      /\ Len(Halves(B)) = 2 * Len(B) /\ Len(B \o A) = Len(B) + Len(A)
      /\ Len(A) \in Nat /\ Len(B) \in Nat /\ Len(A) > 0
  BY <1>1, JournalFacts
<1>4. StartsWith(Halves(B \o A), Halves(B)) /\ StartsWith(Halves(B), Halves(B))
  BY <1>3, PrefixOfConcat
<1>5. Len(Halves(B)) # 2 * Len(B \o A)
  BY <1>3
<1>6. Holds(B, A)'
  BY <1>1, <1>2, <1>4, <1>5 DEF Core, Holds
<1>7. Durable(B, A)'
  BY <1>1, <1>2, <1>4 DEF Core, Durable, LeftOver
<1>8. Reached(B, A)'
  BY <1>1, <1>2 DEF Core, Reached
<1>9. LogOf(B, A)' = B
  BY <1>1, <1>2, <1>5 DEF LogOf
<1>10. LogOf(B, A) = B
  <2>1. Len(disk) = 2 * Len(B \o A) => file = Halves(B \o A)
    BY DEF Core, Holds
  <2>2. Halves(B \o A) # Halves(B)
    BY <1>1, JournalFacts
  <2> QED BY <1>1, <2>1, <2>2 DEF LogOf
<1> QED BY <1>6, <1>7, <1>8, <1>9, <1>10 DEF Core, Advance, Commits

\* append_many links its journal: the additions are announced (LinkJournal).
LEMMA LinkJournalAdvances ==
    ASSUME NEW B \in Seq(Events), NEW A \in Seq(Events), TypeOK, Core(B, A), LinkJournal
    PROVE  Advance(B, A)
<1>1. file \in Seq(Half) /\ disk \in Seq(Half) /\ additions \in Seq(Events)
  BY DEF TypeOK
<1> DEFINE D == additions
<1>2. /\ A = << >> /\ D # << >> /\ op \in Batches /\ ~Log!Conflicts(B, op)
      /\ D = Log!Additions(B, op)
  BY DEF LinkJournal, Core, Reached
<1>3. journal = NoJournal /\ file = Halves(B) /\ Records(file) = B /\ StartsWith(file, disk)
  BY <1>1, <1>2, HoldsSettled DEF Core
<1>4. /\ Halves(B) \in Seq(Half) /\ Halves(D) \in Seq(Half) /\ Halves(B \o D) \in Seq(Half)
      /\ Halves(B \o D) = Halves(B) \o Halves(D)
      /\ Len(Halves(B)) = 2 * Len(B) /\ Len(B \o D) = Len(B) + Len(D)
      /\ Len(D) \in Nat /\ Len(B) \in Nat /\ Len(D) > 0 /\ B \o A = B
  <2>1. ASSUME NEW d \in Seq(Events), d # << >>
        PROVE  /\ Halves(d) \in Seq(Half) /\ Halves(B \o d) \in Seq(Half)
               /\ Halves(B \o d) = Halves(B) \o Halves(d)
               /\ Len(B \o d) = Len(B) + Len(d) /\ Len(d) \in Nat
    BY JournalFacts
  <2>2. /\ Halves(B) \in Seq(Half) /\ Len(Halves(B)) = 2 * Len(B)
        /\ Len(B) \in Nat
    BY JournalFacts
  <2>3. Len(D) > 0
    BY <1>1, <1>2, EmptySeq, LenProperties
  <2>4. B \o A = B
    BY <1>2, JournalFacts
  <2> QED BY <1>1, <1>2, <2>1, <2>2, <2>3, <2>4
<1>5. /\ file' = file /\ disk' = disk /\ journal' = JournalOf(B, D) /\ journalDisk' = journalDisk
      /\ step' = "linked" /\ op' = op /\ additions' = additions
  BY <1>3, <1>4 DEF LinkJournal, JournalOf
<1>6. StartsWith(Halves(B \o D), Halves(B)) /\ StartsWith(Halves(B), Halves(B))
  BY <1>4, PrefixOfConcat
<1>7. StartsWith(Halves(B \o D), disk)
  BY <1>1, <1>3, <1>4, <1>6, PrefixTransitive
<1>8. Len(disk) # 2 * Len(B \o D)
  <2>1. Len(disk) <= Len(Halves(B)) /\ Len(disk) \in Nat
    BY <1>1, <1>3, LenProperties DEF StartsWith
  <2> QED BY <1>4, <2>1
<1>9. ASSUME NEW d \in Seq(Events), d = D PROVE Core(B, d)'
  <2>1. Holds(B, d)'
    BY <1>2, <1>3, <1>5, <1>6, <1>7, <1>8, <1>9 DEF Holds
  <2>2. Durable(B, d)'
    BY <1>3, <1>5 DEF Core, Durable, LeftOver
  <2>3. Reached(B, d)'
    BY <1>2, <1>3, <1>5, <1>9 DEF Core, Reached
  <2>4. d # << >> => Announces(B, d)
    BY <1>2, <1>9 DEF Announces
  <2> QED BY <2>1, <2>2, <2>3, <2>4 DEF Core
<1>10. ASSUME NEW d \in Seq(Events), d = D PROVE LogOf(B, d)' = LogOf(B, A)
  BY <1>4, <1>5, <1>8, <1>10 DEF LogOf
<1> QED BY <1>1, <1>9, <1>10 DEF Advance, Commits

\* A journal that is no longer cached may still be the durable one: the entry
\* of an append that is undone or complete (Durable).
LEMMA JournalLeftOver ==
    ASSUME NEW B \in Seq(Events), NEW A \in Seq(Events), A # << >>, Announces(B, A),
           NEW C \in {B, B \o A}, journalDisk = JournalOf(B, A)
    PROVE  LeftOver(C)
<1> DEFINE k == Len(B)
           old == SubSeq(C, 1, k)
           added == Records(journalDisk.bytes)
<1>1. /\ k \in Nat /\ Len(A) \in Nat /\ B \o A \in Seq(Events) /\ Len(B \o A) = k + Len(A)
      /\ journalDisk.bytes = Halves(A) /\ Records(Halves(A)) = A
  BY JournalFacts
<1>2. added = A
  BY <1>1
<1>3. C \in Seq(Events) /\ k \in 0..Len(C) /\ StartsWith(C, B)
  <2>1. StartsWith(B, B) /\ StartsWith(B \o A, B)
    BY PrefixOfConcat
  <2>2. k \in 0..Len(B) /\ k \in 0..Len(B \o A)
    BY <1>1
  <2> QED BY <1>1, <2>1, <2>2
<1>4. old = B
  BY <1>3 DEF StartsWith, Upto
<1> HIDE DEF old, added
<1>5. B = C \/ C = B \o A
  OBVIOUS
<1>6. /\ journalDisk = JournalOf(old, added) /\ added \in Seq(Events) \ {<< >>}
      /\ Announces(old, added)
      /\ C = old \/ C = old \o added
  BY <1>2, <1>4, <1>5
<1> QED BY <1>3, <1>6 DEF LeftOver, old, added

\* The journal is unlinked behind a complete append, after its truncation or
\* at the end of append_many (Unlink).
LEMMA UnlinkAdvances ==
    ASSUME NEW B \in Seq(Events), NEW A \in Seq(Events), TypeOK, Core(B, A), Unlink
    PROVE  Advance(B, A)
<1>1. file \in Seq(Half) /\ disk \in Seq(Half)
  BY DEF TypeOK
<1>2. /\ A # << >> /\ Announces(B, A) /\ IdsOnce(B) /\ journal = JournalOf(B, A)
      /\ StartsWith(Halves(B \o A), disk)
  BY DEF Unlink, Core, Reached, Holds
<1>3. /\ file' = file /\ disk' = disk /\ journal' = NoJournal /\ journalDisk' = journalDisk
      /\ step' = (IF step = "resolved" THEN "recovered" ELSE "cleaned") /\ op' = op
      /\ step \in {"resolved", "synced"}
  BY DEF Unlink
<1>4. /\ B \o A \in Seq(Events) /\ Halves(B \o A) # Halves(B)
      /\ Halves(B \o A) \in Seq(Half) /\ Halves(B) \in Seq(Half)
      /\ (B \o A) \o << >> = B \o A /\ B \o << >> = B
      /\ << >> \in Seq(Events)
      /\ 2 * Len(B \o A) = Len(Halves(B \o A)) /\ 2 * Len(B) = Len(Halves(B))
  <2>1. << >> \in Seq(Events) /\ B \o A \in Seq(Events)
    BY EmptySeq, JournalFacts
  <2> QED BY <1>2, <2>1, JournalFacts, ConcatEmptySeq
<1>5. CASE file = Halves(B \o A)
  <2> DEFINE C == B \o A
  <2>1. journalDisk = journal
    BY <1>4, <1>5 DEF Core, Durable
  <2>2. LeftOver(C)
    BY <1>2, <2>1, JournalLeftOver
  <2>3. IdsOnce(C) /\ (step = "synced" => op \in Batches /\ InRecords(op) \subseteq InRecords(C))
    <3>1. PICK b \in Batches : ~Log!Conflicts(B, b) /\ A = Log!Additions(B, b)
      BY <1>2 DEF Announces
    <3>2. IdsOnce(C)
      BY <1>2, <3>1, AppendedOnce
    <3>3. step = "synced" => op \in Batches /\ ~Log!Conflicts(B, op) /\ A = Log!Additions(B, op)
      BY DEF Core, Reached
    <3> QED BY <1>2, <3>2, <3>3, AppendedOnce
  <2> HIDE DEF C
  <2>4. Holds(C, << >>)'
    <3>1. StartsWith(Halves(C), Halves(C))
      BY <1>4, PrefixOfConcat DEF C
    <3> QED BY <1>2, <1>3, <1>4, <1>5, <3>1 DEF Holds, C
  <2>5. Durable(C, << >>)'
    <3>1. LeftOver(C)'
      BY <2>2, <1>3 DEF LeftOver
    <3> QED BY <1>2, <1>3, <1>5, <3>1 DEF Durable, C
  <2>6. Reached(C, << >>)'
    BY <1>3, <2>3 DEF Core, Reached
  <2>7. LogOf(C, << >>)' = C
    BY <1>4 DEF LogOf, C
  <2>8. LogOf(B, A) = B \/ LogOf(B, A) = C
    BY DEF LogOf, C
  <2>9. C \in Seq(Events) /\ << >> \in Seq(Events)
    BY <1>4 DEF C
  <2>10. Core(C, << >>)'
    BY <2>3, <2>4, <2>5, <2>6 DEF Core
  <2> QED BY <1>2, <2>7, <2>8, <2>9, <2>10 DEF Advance, Commits, C
<1>6. CASE file = Halves(B) /\ disk = file /\ step = "resolved"
  <2>1. StartsWith(Halves(B), Halves(B))
    BY <1>4, PrefixOfConcat
  <2>2. journalDisk # NoJournal => LeftOver(B)
    <3>1. CASE journalDisk = journal
      BY <1>2, <3>1, JournalLeftOver
    <3>2. CASE journalDisk # journal
      BY <3>2 DEF Core, Durable
    <3> QED BY <3>1, <3>2
  <2>3. Holds(B, << >>)'
    BY <1>3, <1>4, <1>6, <2>1 DEF Holds
  <2>4. Durable(B, << >>)'
    <3>1. journalDisk # NoJournal => LeftOver(B)'
      BY <2>2, <1>3 DEF LeftOver
    <3> QED BY <1>3, <1>6, <2>1, <3>1 DEF Durable
  <2>5. Reached(B, << >>)'
    BY <1>3, <1>6 DEF Core, Reached
  <2>6. LogOf(B, << >>)' = B
    BY <1>4 DEF LogOf
  <2>7. LogOf(B, A) = B
    <3>1. Len(disk) = 2 * Len(B \o A) => file = Halves(B \o A)
      BY DEF Core, Holds
    <3> QED BY <1>4, <1>6, <3>1 DEF LogOf
  <2>8. Core(B, << >>)'
    BY <1>2, <2>3, <2>4, <2>5 DEF Core
  <2> QED BY <1>4, <2>6, <2>7, <2>8 DEF Advance, Commits
<1> QED BY <1>3, <1>5, <1>6 DEF Core, Reached

\* The directory is synced: the durable journal is the cached one, and
\* append_many returns behind a complete append (SyncDirectory).
LEMMA SyncDirectoryAdvances ==
    ASSUME NEW B \in Seq(Events), NEW A \in Seq(Events), TypeOK, Core(B, A), SyncDirectory
    PROVE  Advance(B, A) /\ Tells(B)
<1>1. /\ file' = file /\ disk' = disk /\ journal' = journal /\ journalDisk' = journal
      /\ op' = op /\ additions' = additions
      /\ step' = CASE step = "linked" -> "writing"
                   [] step = "recovered" -> "decoding"
                   [] step = "cleaned" -> "free"
      /\ step \in {"linked", "recovered", "cleaned"}
  BY DEF SyncDirectory
<1>2. Holds(B, A)' /\ Durable(B, A)' /\ LogOf(B, A)' = LogOf(B, A)
  BY <1>1 DEF Core, Holds, Durable, LogOf
<1>3. Reached(B, A)'
  BY <1>1 DEF Core, Reached
<1>4. Tells(B)
  BY DEF SyncDirectory, Core, Reached, Tells
<1> QED BY <1>2, <1>3, <1>4 DEF Core, Advance, Commits

\* The next piece of the append reaches the file (WriteHalf).
LEMMA WriteHalfAdvances ==
    ASSUME NEW B \in Seq(Events), NEW A \in Seq(Events), TypeOK, Core(B, A), WriteHalf
    PROVE  Advance(B, A) /\ file' \in Seq(Half)
<1>1. file \in Seq(Half) /\ disk \in Seq(Half)
  BY DEF TypeOK
<1>2. /\ A # << >> /\ Suffix # journal.bytes /\ journalDisk = journal
      /\ file' = Append(file, journal.bytes[Len(Suffix) + 1])
      /\ disk' = disk /\ journal' = journal /\ journalDisk' = journalDisk
      /\ step' = step /\ op' = op /\ additions' = additions /\ step = "writing"
  BY DEF WriteHalf, Core, Reached
<1>3. /\ file' \in Seq(Half) /\ StartsWith(Halves(B \o A), file') /\ file # Halves(B \o A)
  BY <1>1, <1>2, HoldsPending DEF Core
<1>4. Halves(B \o A) \in Seq(Half) /\ Halves(B) \in Seq(Half) /\ Len(Halves(B)) \in Nat
      /\ StartsWith(Halves(B \o A), Halves(B))
  <2>1. /\ Halves(B \o A) = Halves(B) \o Halves(A) /\ Halves(A) \in Seq(Half)
        /\ Halves(B) \in Seq(Half) /\ Halves(B \o A) \in Seq(Half)
    BY JournalFacts
  <2> QED BY <2>1, PrefixOfConcat, LenProperties
<1>5. Len(Halves(B)) <= Len(file')
  <2>1. Len(file') = Len(file) + 1 /\ Len(file) \in Nat
    <3>1. /\ journal.bytes = Halves(A) /\ Len(Suffix) + 1 \in 1..Len(Halves(A))
      <4>1. journal.bytes = Halves(A) /\ StartsWith(Halves(A), Suffix) /\ Suffix # Halves(A)
        BY <1>1, <1>2, HoldsPending DEF Core
      <4>2. Halves(A) \in Seq(Half) /\ Suffix \in Seq(Half)
        <5>1. journal.start \in 0..Len(file)
          BY <1>1, <1>2, <1>4, HoldsPending DEF Core
        <5> QED BY <1>1, <5>1, AfterProperties, JournalFacts DEF Suffix
      <4>3. Len(Suffix) < Len(Halves(A))
        BY <4>1, <4>2, WholePrefix, LenProperties
      <4> QED BY <4>1, <4>2, <4>3, LenProperties
    <3>2. Halves(A)[Len(Suffix) + 1] \in Half
      BY <3>1, HalvesProperties, ElementOfSeq
    <3> QED BY <1>1, <1>2, <3>1, <3>2, AppendProperties, LenProperties
  <2>2. Len(Halves(B)) <= Len(file)
    BY DEF Core, Holds, StartsWith
  <2> QED BY <1>4, <2>1, <2>2
<1>6. StartsWith(file', Halves(B))
  BY <1>3, <1>4, <1>5, PrefixesCompare
<1>7. Holds(B, A)'
  BY <1>2, <1>3, <1>6 DEF Core, Holds
<1>8. Durable(B, A)' /\ Reached(B, A)' /\ LogOf(B, A)' = LogOf(B, A)
  BY <1>2 DEF Core, Durable, Reached, LogOf
<1> QED BY <1>3, <1>7, <1>8 DEF Core, Advance, Commits

\* The append is complete and synced: it is committed (SyncAppend).
LEMMA SyncAppendAdvances ==
    ASSUME NEW B \in Seq(Events), NEW A \in Seq(Events), TypeOK, Core(B, A), SyncAppend
    PROVE  Advance(B, A)
<1>1. file \in Seq(Half) /\ disk \in Seq(Half)
  BY DEF TypeOK
<1>2. /\ A # << >> /\ Suffix = journal.bytes /\ journalDisk = journal
      /\ file' = file /\ disk' = file /\ journal' = journal /\ journalDisk' = journalDisk
      /\ step' = "synced" /\ op' = op /\ additions' = additions /\ step = "writing"
  BY DEF SyncAppend, Core, Reached
<1>3. file = Halves(B \o A)
  BY <1>1, <1>2, HoldsPending DEF Core
<1>4. Holds(B, A)'
  BY <1>2, <1>3 DEF Core, Holds
<1>5. Durable(B, A)' /\ Reached(B, A)'
  BY <1>2, <1>3 DEF Core, Durable, Reached
<1>6. LogOf(B, A)' = B \o A
  BY <1>2, <1>3, JournalFacts DEF LogOf
<1>7. LogOf(B, A) = B \/ LogOf(B, A) = B \o A
  BY DEF LogOf
<1> QED BY <1>2, <1>4, <1>5, <1>6, <1>7 DEF Core, Advance, Commits

\* A power loss takes the cached journal and finds the durable one, which is
\* left over from an append that was undone or is complete (PowerLoss).
LEMMA StaleJournalIsHarmless ==
    ASSUME NEW B \in Seq(Events), IdsOnce(B), op \in Batches \cup {Read},
           journalDisk = NoJournal \/ LeftOver(B),
           file' = Halves(B), disk' = Halves(B),
           journal' = journalDisk, journalDisk' = journalDisk,
           step' = "free", op' = op
    PROVE  \E C, D \in Seq(Events) : Core(C, D)' /\ LogOf(C, D)' = B
<1>1. /\ Halves(B) \in Seq(Half) /\ StartsWith(Halves(B), Halves(B)) /\ << >> \in Seq(Events)
      /\ B \o << >> = B /\ Len(Halves(B)) = 2 * Len(B)
  BY HalvesProperties, PrefixOfConcat, EmptySeq, ConcatEmptySeq
<1>2. ASSUME NEW C, NEW D PROVE Durable(C, D)' /\ Reached(C, D)'
  BY DEF Durable, Reached
<1>3. CASE journalDisk = NoJournal
  <2>1. Holds(B, << >>)'
    BY <1>1, <1>3 DEF Holds
  <2>2. LogOf(B, << >>)' = B
    BY <1>1 DEF LogOf
  <2> QED BY <1>1, <1>2, <2>1, <2>2 DEF Core
<1>4. CASE LeftOver(B)
  <2>1. PICK k \in 0..Len(B) :
          LET old == SubSeq(B, 1, k)
              added == Records(journalDisk.bytes)
          IN /\ journalDisk = JournalOf(old, added) /\ added \in Seq(Events) \ {<< >>}
             /\ Announces(old, added)
             /\ B = old \/ B = old \o added
    BY <1>4 DEF LeftOver
  <2> DEFINE old == SubSeq(B, 1, k)
  <2>0. PICK added \in Seq(Events) : added = Records(journalDisk.bytes)
    BY <2>1
  <2>2. /\ journalDisk = JournalOf(old, added) /\ added \in Seq(Events) /\ added # << >>
        /\ Announces(old, added)
        /\ B = old \/ B = old \o added
    BY <2>0, <2>1
  <2>3. old \in Seq(Events) /\ Len(old) = k /\ \A i \in 1..k : old[i] = B[i]
    <3>1. Upto(B, k) \in Seq(Events) /\ Len(Upto(B, k)) = k
          /\ \A i \in 1..k : Upto(B, k)[i] = B[i]
      BY UptoProperties
    <3> QED BY <3>1 DEF Upto
  <2>4. IdsOnce(old)
    <3>1. DOMAIN old = 1..k /\ DOMAIN B = 1..Len(B) /\ Len(B) \in Nat
      BY <2>3, LenProperties
    <3> HIDE DEF old
    <3> QED BY <2>3, <3>1 DEF IdsOnce
  <2> HIDE DEF old
  <2>5. /\ Halves(old) \in Seq(Half) /\ Halves(added) \in Seq(Half)
        /\ Halves(old \o added) \in Seq(Half)
        /\ Halves(old \o added) = Halves(old) \o Halves(added)
        /\ 2 * Len(old \o added) = Len(Halves(old \o added)) /\ 2 * Len(old) = Len(Halves(old))
        /\ Len(old \o added) = Len(old) + Len(added) /\ Len(added) \in Nat /\ Len(old) \in Nat
        /\ Len(added) > 0
    BY <2>2, <2>3, JournalFacts
  <2>6. /\ StartsWith(Halves(old \o added), Halves(old)) /\ StartsWith(Halves(old), Halves(old))
        /\ StartsWith(Halves(old \o added), Halves(old \o added))
    BY <2>5, PrefixOfConcat
  <2>7. CASE B = old
    <3>1. Len(Halves(B)) # 2 * Len(old \o added)
      BY <2>5, <2>7
    <3>2. Holds(old, added)'
      BY <2>2, <2>6, <2>7, <3>1 DEF Holds
    <3>3. LogOf(old, added)' = B
      BY <2>7, <3>1 DEF LogOf
    <3> QED BY <1>2, <2>2, <2>3, <2>4, <3>2, <3>3 DEF Core
  <2>8. CASE B = old \o added
    <3>1. Holds(old, added)'
      BY <2>2, <2>6, <2>8 DEF Holds
    <3>2. LogOf(old, added)' = B
      BY <1>1, <2>8 DEF LogOf
    <3> QED BY <1>2, <2>2, <2>3, <2>4, <3>1, <3>2 DEF Core
  <2> QED BY <2>2, <2>7, <2>8
<1> QED BY <1>3, <1>4

\* A power loss finds the files anywhere between durable and cached, with
\* either journal (PowerLoss): a log and its pending additions again.
LEMMA PowerLossAdvances ==
    ASSUME NEW B \in Seq(Events), NEW A \in Seq(Events), TypeOK, Core(B, A), PowerLoss,
           ~PowerFailsAnytime
    PROVE  Advance(B, A) /\ file' \in Seq(Half) /\ disk' \in Seq(Half)
<1> DEFINE long == IF Len(file) > Len(disk) THEN file ELSE disk
           short == IF Len(file) > Len(disk) THEN disk ELSE file
           L == Halves(B)
           W == Halves(B \o A)
<1>1. /\ file \in Seq(Half) /\ disk \in Seq(Half) /\ long \in Seq(Half) /\ short \in Seq(Half)
      /\ Len(file) \in Nat /\ Len(disk) \in Nat /\ Len(long) \in Nat /\ Len(short) \in Nat
  BY LenProperties DEF TypeOK
<1>2. PICK n \in Len(short)..Len(long) : file' = Upto(long, n) /\ disk' = Upto(long, n)
  BY DEF PowerLoss
<1>3. PICK j \in {journal, journalDisk} : journal' = j /\ journalDisk' = j
  BY DEF PowerLoss
<1>4. step' = "free" /\ op' = op /\ ~Exposed /\ op \in Batches \cup {Read} /\ IdsOnce(B)
  BY DEF PowerLoss, Core, Reached
<1>5. /\ L \in Seq(Half) /\ W \in Seq(Half) /\ Len(L) \in Nat /\ Len(W) \in Nat
      /\ Len(L) = 2 * Len(B) /\ Len(W) = 2 * Len(B \o A)
      /\ StartsWith(W, L)
  <2>1. /\ W = L \o Halves(A) /\ Halves(A) \in Seq(Half) /\ L \in Seq(Half) /\ W \in Seq(Half)
        /\ Len(L) = 2 * Len(B) /\ Len(W) = 2 * Len(B \o A)
    BY JournalFacts
  <2> QED BY <2>1, PrefixOfConcat, LenProperties
<1>6. n \in 0..Len(long) /\ n >= Len(short) /\ n \in Nat
  BY <1>1
<1>7. Upto(long, n) \in Seq(Half) /\ Len(Upto(long, n)) = n /\ StartsWith(long, Upto(long, n))
  <2> HIDE DEF long
  <2> QED BY <1>1, <1>6, UptoProperties, UptoIsPrefix
<1>8. /\ StartsWith(file, L) /\ StartsWith(W, file) /\ StartsWith(W, disk)
      /\ Len(disk) = Len(W) => file = W
  BY <1>5 DEF Core, Holds
<1>9. Len(disk) >= Len(L)
  <2>1. CASE A = << >>
    <3>1. journal = NoJournal /\ file = L
      BY <1>1, <2>1, HoldsSettled DEF Core
    <3> QED BY <1>1, <1>4, <3>1 DEF Exposed
  <2>2. CASE A # << >>
    <3>1. journal # NoJournal /\ journal.start = Len(L)
      BY <1>1, <2>2, HoldsPending DEF Core
    <3> QED BY <1>1, <1>4, <1>5, <3>1 DEF Exposed
  <2> QED BY <2>1, <2>2
<1>10. Len(file) >= Len(L) /\ n >= Len(L)
  BY <1>1, <1>5, <1>6, <1>8, <1>9 DEF StartsWith
<1>11. ASSUME file = L, disk = L, journalDisk = NoJournal \/ LeftOver(B), j = journalDisk
       PROVE  \E C, D \in Seq(Events) : Core(C, D)' /\ LogOf(C, D)' = B
  <2>1. Upto(long, n) = L
    <3>1. n >= Len(L) /\ long = L /\ Len(Upto(long, n)) >= Len(L)
      BY <1>7, <1>10, <1>11
    <3> HIDE DEF long, L
    <3> QED BY <1>1, <1>5, <1>7, <3>1, WholePrefix
  <2> QED BY <1>2, <1>3, <1>4, <1>11, <2>1, StaleJournalIsHarmless
<1>12. LogOf(B, A) = IF Len(disk) = Len(W) THEN B \o A ELSE B
  BY <1>5 DEF LogOf
<1> HIDE DEF L, W
<1>13. CASE j # journal \/ A = << >>
  <2>1. j = journalDisk \/ j = NoJournal
    BY <1>1, <1>3, <1>13, HoldsSettled DEF Core
  <2>2. file = L /\ StartsWith(file, disk)
    <3>1. CASE A = << >>
      BY <1>1, <3>1, HoldsSettled DEF Core, L
    <3>2. CASE j # journal
      <4>1. journalDisk # journal
        BY <1>3, <3>2
      <4> QED BY <4>1 DEF Core, Durable, L
    <3> QED BY <1>13, <3>1, <3>2
  <2>3. disk = L
    BY <1>1, <1>5, <1>9, <2>2, WholePrefix
  <2>4. LogOf(B, A) = B
    <3>1. A = << >> => B \o A = B
      BY JournalFacts
    <3>2. A # << >> => W # L
      BY JournalFacts DEF W, L
    <3> QED BY <1>8, <1>12, <2>2, <3>1, <3>2
  <2>5. j = journalDisk => journalDisk = NoJournal \/ LeftOver(B)
    <3>1. j # journal => journalDisk # journal
      BY <1>3
    <3>2. A = << >> => journal = NoJournal
      BY <1>1, HoldsSettled DEF Core
    <3> QED BY <1>13, <3>1, <3>2 DEF Core, Durable
  <2>6. CASE j = journalDisk
    BY <1>2, <1>7, <1>11, <2>2, <2>3, <2>4, <2>5, <2>6 DEF Advance, Commits
  <2>7. CASE j = NoJournal
    <3>1. B \in Seq(Events) /\ << >> \in Seq(Events) /\ B \o << >> = B
      BY EmptySeq, ConcatEmptySeq
    <3>2. Upto(long, n) = L
      <4>1. n >= Len(L) /\ long = L /\ Len(Upto(long, n)) >= Len(L)
        BY <1>7, <1>10, <2>2, <2>3
      <4> HIDE DEF long
      <4> QED BY <1>1, <1>5, <1>7, <4>1, WholePrefix
    <3>3. StartsWith(L, L)
      BY <1>5, PrefixOfConcat
    <3>4. Holds(B, << >>)'
      BY <1>2, <1>3, <2>7, <3>1, <3>2, <3>3 DEF Holds, L
    <3>5. Durable(B, << >>)' /\ Reached(B, << >>)'
      BY <1>3, <1>4, <2>7 DEF Durable, Reached
    <3>6. LogOf(B, << >>)' = B
      BY <3>1 DEF LogOf
    <3>7. Core(B, << >>)'
      BY <1>4, <3>4, <3>5 DEF Core
    <3> QED BY <1>2, <1>7, <2>4, <3>1, <3>6, <3>7 DEF Advance, Commits
  <2> QED BY <2>1, <2>6, <2>7
<1>14. CASE j = journal /\ A # << >>
  <2> DEFINE u == Upto(long, n)
  <2>1. StartsWith(W, long) /\ StartsWith(W, u)
    <3>1. StartsWith(W, long)
      BY <1>8
    <3> HIDE DEF long
    <3> QED BY <1>1, <1>5, <1>7, <3>1, PrefixTransitive
  <2>2. u \in Seq(Half) /\ Len(u) = n /\ file' = u /\ disk' = u
    BY <1>2, <1>7
  <2> HIDE DEF u
  <2>3. StartsWith(u, L)
    BY <1>5, <1>10, <2>1, <2>2, PrefixesCompare
  <2>4. Len(u) = Len(W) => u = W
    BY <1>5, <2>1, <2>2, WholePrefix
  <2>5. Holds(B, A)'
    BY <1>3, <1>5, <1>14, <2>1, <2>2, <2>3, <2>4 DEF Core, Holds, L, W
  <2>6. Durable(B, A)' /\ Reached(B, A)'
    BY <1>3, <1>4 DEF Durable, Reached
  <2>7. Core(B, A)'
    BY <2>5, <2>6 DEF Core
  <2>8. LogOf(B, A)' = IF Len(u) = Len(W) THEN B \o A ELSE B
    BY <1>5, <2>2 DEF LogOf
  <2>9. Len(disk) = Len(W) => Len(u) = Len(W)
    <3> SUFFICES ASSUME Len(disk) = Len(W) PROVE Len(u) = Len(W)
      OBVIOUS
    <3>1. file = W /\ Len(short) = Len(W) /\ Len(long) = Len(W)
      BY <1>8
    <3> QED BY <1>5, <1>6, <2>2, <3>1
  <2> QED BY <1>12, <1>14, <2>2, <2>7, <2>8, <2>9 DEF Advance, Commits
<1> QED BY <1>3, <1>13, <1>14

-----------------------------------------------------------------------------
(* The invariant, and the step to the abstract log.                        *)

\* Every step of the holder, every crash and every power loss advances the
\* files from one log with its pending additions to the next.
LEMMA EveryStepAdvances ==
    ASSUME NEW B \in Seq(Events), NEW A \in Seq(Events), ~PowerFailsAnytime,
           TypeOK, Core(B, A), [Next]_vars
    PROVE  TypeOK' /\ Advance(B, A) /\ Tells(B)
<1> DEFINE Goal == TypeOK' /\ Advance(B, A) /\ Tells(B)
<1>1. ASSUME NEW b \in Batches \cup {Read}, Lock(b) PROVE Goal
  <2>1. b \in Seq(Events)
    BY BatchesAssumption, EmptySeq DEF Read
  <2>2. Advance(B, A)
    BY <1>1, HolderAdvances
  <2> QED BY <1>1, <2>1, <2>2 DEF Lock, TypeOK, Tells, Steps, files, history, faults
<1>2. CASE NothingPending
  <2>1. Advance(B, A)
    BY <1>2, HolderAdvances
  <2> QED BY <1>2, <2>1 DEF NothingPending, TypeOK, Tells, Steps, files, history, faults
<1>3. CASE Recover
  <2>1. Advance(B, A) /\ broken' = broken
    BY <1>3, RecoverAdvances
  <2>2. file' \in Seq(Half)
    <3>1. file \in Seq(Half) /\ disk \in Seq(Half) /\ Halves(B) \in Seq(Half)
      BY JournalFacts DEF TypeOK
    <3>2. A # << >>
      BY <1>3 DEF Recover, Core, Holds
    <3>3. Upto(file, journal.start) = Halves(B)
      BY <3>1, <3>2, HoldsPending DEF Core
    <3> QED BY <1>3, <3>1, <3>3 DEF Recover, AcceptSuffix, RollBack, Raise, files
  <2> QED BY <1>3, <2>1, <2>2
         DEF Recover, AcceptSuffix, RollBack, Raise, TypeOK, Tells, Steps, files, history, faults
<1>4. CASE SyncRollBack
  <2>1. Advance(B, A)
    BY <1>4, SyncRollBackAdvances
  <2> QED BY <1>4, <2>1 DEF SyncRollBack, TypeOK, Tells, Steps, history, faults
<1>5. CASE Unlink
  <2>1. Advance(B, A)
    BY <1>5, UnlinkAdvances
  <2>2. NoJournal \in JournalType
    BY EmptySeq DEF NoJournal, JournalType
  <2> QED BY <1>5, <2>1, <2>2 DEF Unlink, TypeOK, Tells, Steps, history, faults
<1>6. CASE SyncDirectory
  <2>1. Advance(B, A) /\ Tells(B)
    BY <1>6, SyncDirectoryAdvances
  <2>2. InRecords(op) \subseteq Events
    BY ElementOfSeq, LenProperties DEF TypeOK, InRecords
  <2> QED BY <1>6, <2>1, <2>2 DEF SyncDirectory, TypeOK, Steps, faults
<1>7. CASE Decode
  <2>1. Advance(B, A) /\ Tells(B) /\ additions' \in Seq(Events)
    BY <1>7, DecodeAdvances
  <2>2. InRecords(B) \subseteq Events
    BY ElementOfSeq, LenProperties DEF InRecords
  <2>3. acked' \subseteq Events /\ observed' \in Seq(Events) /\ broken' \in BOOLEAN
    BY <2>1, <2>2 DEF TypeOK, Tells
  <2> HIDE DEF Goal
  <2>4. step' \in Steps /\ UNCHANGED <<op, files, faults>>
    BY <1>7 DEF Decode, Answer, Prepare, PrepareWith, Raise, Steps
  <2> QED BY <2>1, <2>3, <2>4 DEF TypeOK, files, faults, Goal
<1>8. CASE LinkJournal
  <2>1. Advance(B, A)
    BY <1>8, LinkJournalAdvances
  <2>2. journal' \in JournalType
    BY <1>8, HalvesProperties, LenProperties DEF LinkJournal, TypeOK, JournalType
  <2> QED BY <1>8, <2>1, <2>2 DEF LinkJournal, TypeOK, Tells, Steps, history, faults
<1>9. CASE WriteHalf
  <2>1. Advance(B, A) /\ file' \in Seq(Half)
    BY <1>9, WriteHalfAdvances
  <2> QED BY <1>9, <2>1 DEF WriteHalf, TypeOK, Tells, Steps, history, faults
<1>10. CASE SyncAppend
  <2>1. Advance(B, A)
    BY <1>10, SyncAppendAdvances
  <2> QED BY <1>10, <2>1 DEF SyncAppend, TypeOK, Tells, Steps, history, faults
<1>11. CASE Crash
  <2>1. Advance(B, A)
    BY <1>11, HolderAdvances
  <2> QED BY <1>11, <2>1 DEF Crash, TypeOK, Tells, Steps, files, history
<1>12. CASE PowerLoss
  <2>1. Advance(B, A) /\ file' \in Seq(Half) /\ disk' \in Seq(Half)
    BY <1>12, PowerLossAdvances
  <2>2. journal' \in JournalType /\ journalDisk' \in JournalType
    BY <1>12 DEF PowerLoss, TypeOK
  <2>3. step' = "free" /\ losses' = losses + 1 /\ UNCHANGED <<op, additions, history, crashes>>
    BY <1>12 DEF PowerLoss
  <2> QED BY <2>1, <2>2, <2>3 DEF TypeOK, Tells, Steps, history
<1>13. CASE UNCHANGED vars
  <2>1. Reached(B, A)' /\ UNCHANGED files
    BY <1>13 DEF vars, files, Core, Reached
  <2>2. Advance(B, A)
    BY <2>1, SameFiles
  <2> QED BY <1>13, <2>2 DEF TypeOK, Tells, vars, files, history, faults
<1> QED BY <1>1, <1>2, <1>3, <1>4, <1>5, <1>6, <1>7, <1>8, <1>9, <1>10, <1>11, <1>12, <1>13
        DEF Next

\* What was acknowledged and shown stays in a log that is only appended to.
LEMMA HistoryIsKept ==
    ASSUME NEW B \in Seq(Events), NEW A \in Seq(Events), NEW C, NEW D,
           observed \in Seq(Events), Kept(LogOf(B, A)), Tells(B), Commits(B, A, C, D)
    PROVE  Kept(LogOf(C, D))'
<1> DEFINE X == LogOf(B, A)
           Y == LogOf(C, D)'
<1>1. /\ X \in {B, B \o A} /\ Y \in {X, B \o A} /\ B \o A \in Seq(Events)
      /\ StartsWith(B, B) /\ StartsWith(B \o A, B) /\ StartsWith(B \o A, B \o A)
  <2>1. B \o A \in Seq(Events)
    BY ConcatProperties
  <2> QED BY <2>1, PrefixOfConcat DEF LogOf, Commits
<1>2. \A s, t \in Seq(Events) : StartsWith(s, t) => InRecords(t) \subseteq InRecords(s)
  <2> SUFFICES ASSUME NEW s \in Seq(Events), NEW t \in Seq(Events), StartsWith(s, t)
               PROVE  InRecords(t) \subseteq InRecords(s)
    OBVIOUS
  <2>1. Len(t) <= Len(s) /\ \A k \in 1..Len(t) : s[k] = t[k]
    BY PrefixElements
  <2>2. DOMAIN s = 1..Len(s) /\ DOMAIN t = 1..Len(t) /\ Len(s) \in Nat /\ Len(t) \in Nat
    BY LenProperties
  <2>3. \A k \in DOMAIN t : k \in DOMAIN s /\ t[k] = s[k]
    BY <2>1, <2>2
  <2> QED BY <2>3 DEF InRecords
<1> HIDE DEF X, Y
<1>3. /\ X \in Seq(Events) /\ Y \in Seq(Events) /\ StartsWith(Y, X) /\ StartsWith(Y, B)
  BY <1>1
<1>4. InRecords(X) \subseteq InRecords(Y) /\ InRecords(B) \subseteq InRecords(Y)
  BY <1>2, <1>3
<1>5. acked \subseteq InRecords(X) /\ StartsWith(X, observed) /\ ~broken
  BY DEF Kept, X
<1>6. acked' \subseteq InRecords(Y) /\ ~broken'
  BY <1>4, <1>5 DEF Tells
<1>7. StartsWith(Y, observed')
  BY <1>3, <1>5, PrefixTransitive DEF Tells
<1> QED BY <1>6, <1>7 DEF Kept, Y

\* Some log is in the files, with what was acknowledged and shown.
HoldsSomeLog == \E B, A \in Seq(Events) : Core(B, A) /\ Kept(LogOf(B, A))

\* The invariant says no more and no less than that the files hold some log,
\* before a step and after it.
LEMMA InvariantByLog ==
    /\ TypeOK => (IInv <=> HoldsSomeLog)
    /\ TypeOK' => (IInv' <=> HoldsSomeLog')
<1>1. TypeOK => (IInv <=> HoldsSomeLog)
  <2> SUFFICES ASSUME TypeOK PROVE IInv <=> HoldsSomeLog
    OBVIOUS
  <2>1. ASSUME NEW B \in Seq(Events), NEW A \in Seq(Events), Core(B, A), Kept(LogOf(B, A))
        PROVE  IInv
    <3>1. Base = B /\ Rest = A /\ Committed = LogOf(B, A)
      BY <2>1, HoldsDetermines DEF TypeOK, Core
    <3> QED BY <2>1, <3>1 DEF IInv
  <2>2. ASSUME IInv PROVE HoldsSomeLog
    BY <2>2 DEF IInv, HoldsSomeLog
  <2> QED BY <2>1, <2>2 DEF HoldsSomeLog
<1> QED BY <1>1, PTL

\* The committed log is the one the files hold, before a step and after it.
LEMMA CommittedByLog ==
    ASSUME NEW B \in Seq(Events), NEW A \in Seq(Events)
    PROVE  /\ TypeOK /\ Core(B, A) => Committed = LogOf(B, A)
           /\ TypeOK' /\ Core(B, A)' => Committed' = LogOf(B, A)'
<1>1. TypeOK /\ Core(B, A) => Committed = LogOf(B, A)
  BY HoldsDetermines DEF TypeOK, Core
<1>2. (TypeOK /\ Core(B, A) => Committed = LogOf(B, A))'
  BY <1>1, PTL
<1> QED BY <1>1, <1>2

\* The invariant holds of an empty ledger without a journal (Init).
LEMMA InvInit == Init => IInv
<1> SUFFICES ASSUME Init PROVE IInv
  OBVIOUS
<1> DEFINE e == << >>
<1>1. /\ e \in Seq(Events) /\ e \in Seq(Half) /\ Len(e) = 0 /\ e \o e = e /\ StartsWith(e, e)
      /\ Halves(e) = e /\ IdsOnce(e)
  <2>1. e \in Seq(Events) /\ e \in Seq(Half) /\ Len(e) = 0 /\ DOMAIN e = {}
    BY EmptySeq
  <2>2. e \o e = e /\ StartsWith(e, e)
    BY <2>1, ConcatEmptySeq, PrefixOfConcat
  <2>3. Halves(e) \in Seq(Half) /\ Len(Halves(e)) = 0
    <3> HIDE DEF e
    <3>1. Halves(e) \in Seq(Half) /\ Len(Halves(e)) = 2 * Len(e)
      BY <2>1, HalvesProperties
    <3> QED BY <2>1, <3>1
  <2>4. Halves(e) = e
    BY <2>3, EmptySeq
  <2>5. IdsOnce(e)
    BY <2>1 DEF IdsOnce
  <2> QED BY <2>1, <2>2, <2>4, <2>5
<1>2. TypeOK
  <2>1. NoJournal \in JournalType
    BY EmptySeq DEF NoJournal, JournalType
  <2> QED BY <1>1, <2>1 DEF Init, TypeOK, Read, Steps
<1>3. Core(e, e)
  BY <1>1 DEF Init, Core, Holds, Durable, Reached, Read
<1>4. Kept(LogOf(e, e))
  BY <1>1 DEF Init, Kept, LogOf
<1> HIDE DEF e
<1> QED BY <1>1, <1>2, <1>3, <1>4, InvariantByLog DEF HoldsSomeLog

\* Every step preserves the invariant, and is an append of a whole batch to
\* the committed log or leaves it alone.
LEMMA InvStep ==
    ASSUME ~PowerFailsAnytime, IInv, [Next]_vars
    PROVE  IInv' /\ [CommittedLog!LogNext]_Committed
<1>1. PICK B \in Seq(Events), A \in Seq(Events) :
        Core(B, A) /\ Kept(LogOf(B, A)) /\ Committed = LogOf(B, A)
  BY DEF IInv
<1>2. TypeOK /\ TypeOK' /\ Advance(B, A) /\ Tells(B)
  BY <1>1, EveryStepAdvances DEF IInv
<1>3. PICK C \in Seq(Events), D \in Seq(Events) : Core(C, D)' /\ Commits(B, A, C, D)
  BY <1>2 DEF Advance
<1>4. Kept(LogOf(C, D))'
  BY <1>1, <1>2, <1>3, HistoryIsKept DEF TypeOK
<1>5. HoldsSomeLog'
  BY <1>3, <1>4 DEF HoldsSomeLog
<1>6. IInv'
  BY <1>2, <1>5, InvariantByLog
<1>7. Committed' = LogOf(C, D)'
  BY <1>2, <1>3, CommittedByLog
<1>8. CASE LogOf(C, D)' = LogOf(B, A)
  BY <1>1, <1>6, <1>7, <1>8
<1>9. CASE A # << >> /\ LogOf(B, A) = B /\ LogOf(C, D)' = B \o A
  <2>1. PICK b \in Batches : ~Log!Conflicts(B, b) /\ A = Log!Additions(B, b)
    BY <1>1, <1>9 DEF Core, Announces
  <2>2. ~CommittedLog!Conflicts(B, b) /\ A = CommittedLog!Additions(B, b)
    BY <2>1 DEF Log!Conflicts, CommittedLog!Conflicts, Log!InLog, CommittedLog!InLog,
                Log!Additions, CommittedLog!Additions
  <2>3. Committed = B /\ Committed' = B \o A
    BY <1>1, <1>7, <1>9
  <2>4. CommittedLog!LogNext
    BY <2>2, <2>3 DEF CommittedLog!LogNext, CommittedLog!AppendBatch
  <2> QED BY <1>6, <2>4
<1> QED BY <1>3, <1>8, <1>9 DEF Commits

\* No crash and no power loss inside append_many or a recovery leaves a torn
\* ledger, takes back what append_many acknowledged, or what a read() has
\* shown, as long as power does not fail over an accepted, unsynced append.
THEOREM LedgerStaysSound ==
    ASSUME ~PowerFailsAnytime
    PROVE  Spec => []LedgerIsSound
<1>1. IInv /\ [Next]_vars => IInv'
  BY InvStep
<1>2. IInv => LedgerIsSound
  BY DEF IInv, Kept, LedgerIsSound, LedgerReadable, AcknowledgedIsKept, ObservedIsKept
<1> QED BY <1>1, <1>2, InvInit, PTL DEF Spec

\* append_many, the journal and its recovery implement a log to which whole
\* batches are appended at once, and an event that is there is not appended
\* again.
THEOREM LedgerImplementsAppendLog ==
    ASSUME ~PowerFailsAnytime
    PROVE  Spec => ImplementsAppendLog
<1>1. Init => CommittedLog!LogInit
  <2> SUFFICES ASSUME Init PROVE Committed = << >>
    BY DEF CommittedLog!LogInit
  <2> DEFINE e == << >>
  <2>1. e \in Seq(Events) /\ Len(e) = 0
    BY EmptySeq
  <2>2. Records(e) = e
    <3>1. Halves(e) \in Seq(Half) /\ Len(Halves(e)) = 0 /\ Records(Halves(e)) = e
      <4> HIDE DEF e
      <4>1. /\ Halves(e) \in Seq(Half) /\ Len(Halves(e)) = 2 * Len(e)
            /\ Records(Halves(e)) = e
        BY <2>1, HalvesProperties
      <4> QED BY <2>1, <4>1
    <3>2. Halves(e) = e
      BY <3>1, EmptySeq
    <3> QED BY <3>1, <3>2
  <2> QED BY <2>2 DEF Init, Committed
<1>2. IInv /\ [Next]_vars => IInv'
  BY InvStep
<1>3. IInv /\ [Next]_vars => [CommittedLog!LogNext]_Committed
  BY InvStep
<1> QED BY <1>1, <1>2, <1>3, InvInit, PTL DEF Spec, ImplementsAppendLog, CommittedLog!LogSpec

-----------------------------------------------------------------------------
(* The daily workflow.                                                     *)

Kinds == UnlockedKinds \cup {"report", "snapshot"} \cup DOMAIN NextStep
LogEvents == [kind : Kinds, day : 0..LastDay, content : SUBSET Nat]
States == [tail : Nat \cup {-1}, failures : SUBSET Days]

\* The steps inside the workflow lock, and those past each of the appends.
PastSnapshot == {"tail", "state"}
PastPublication == {"snapshot", "materialized"} \cup PastSnapshot
PastReport == {"publication"} \cup PastPublication
PastFile == {"report event"} \cup PastReport
PastDiagnostics == {"report"} \cup PastFile
PastHistory == {"diagnostics"} \cup PastDiagnostics
PastAnalysis == {"history"} \cup PastHistory
PastExploration == {"analysis"} \cup PastAnalysis
PastEvaluation == {"exploration"} \cup PastExploration
PastArtifacts == {"evaluation"} \cup PastEvaluation
Locked == {"checking", "artifacts"} \cup PastArtifacts

\* The steps that only a session past the warm-ups takes.
Late == (Locked \cup {"waiting", "accounting", "recording"}) \ {"state"}

Evaluates(w) == stage[w] \in Locked /\ day[w] > warmups
Has(kind, d) == InTheLog(Plain(kind, d))

\* Every failure up to session d that F does not count came after d's analysis.
Counts(F, d) ==
    /\ F \subseteq FailuresUpTo(d)
    /\ \A k \in DOMAIN log : log[k].kind = "failed" /\ log[k].day \in (1..d) \ F =>
           \E j \in 1..k - 1 : log[j] = Plain("analysis", d)

\* An event follows the state its session starts from.  What was recorded in
\* the lock is of an evaluated session, and before the tail of its state.
Follows(k) ==
    /\ log[k].kind \notin MiningKinds =>
         /\ log[k].day \in Days /\ Published(log[k].day - 1)
         /\ k > states[log[k].day - 1].tail
    /\ log[k].kind \notin UnlockedKinds =>
         /\ log[k].day > warmups
         /\ Published(log[k].day) => k <= states[log[k].day].tail

\* A session's only snapshot, but for what was recorded beside the lock.
Snapped(k) ==
    /\ \A j \in Snapshots(log[k].day) : j = k
    /\ \E n \in Nat :
         /\ log[k].content = {n} /\ n < k /\ states[log[k].day - 1].tail <= n
         /\ \A j \in n + 1..k - 1 : log[j].kind \in UnlockedKinds

LogOK ==
    /\ log \in Seq(LogEvents)
    /\ \A k \in DOMAIN log :
         /\ Follows(k)
         /\ log[k].kind = "report" => log[k].content = reports[log[k].day]
         /\ log[k].kind = "snapshot" => Snapped(k)

StatesOK ==
    /\ states \in [0..LastDay -> States]
    /\ \A d \in 0..LastDay : states[d].tail <= Len(log) /\ (Published(d) => states[d].tail \in Nat)
    /\ \A c, d \in 0..LastDay : c <= d /\ Published(d) => Published(c) /\ states[c].tail <= states[d].tail
    /\ Published(0)

\* A session that was evaluated and published has all of its evidence.
Complete(d) ==
    /\ \A kind \in DOMAIN NextStep : Has(kind, d)
    /\ InTheLog(Event("report", d, reports[d])) /\ reports[d] # NoReport
    /\ Snapshots(d) # {}

PublishedIsComplete == \A d \in Days : Published(d) /\ d > warmups => Complete(d)

ReportsOK ==
    /\ reports \in [Days -> SUBSET Int]
    /\ \A d \in Days : reports[d] # NoReport => Has("analysis", d) /\ Counts(reports[d], d)

FilesOK == LogOK /\ StatesOK /\ PublishedIsComplete /\ ReportsOK

WorkersTyped ==
    /\ lock \in Workers \cup {Nobody}
    /\ stage \in [Workers -> WorkerSteps] /\ day \in [Workers -> 0..LastDay]
    /\ failuresSeen \in [Workers -> SUBSET Days]
    /\ position \in [Workers -> Nat]
    /\ \A w \in Workers : position[w] <= Len(log)
    /\ miner \in {"idle", "mined", "failed"}
    /\ warmups \in WarmupCounts /\ interruptions \in 0..MaxInterruptions

\* A worker's session follows a published one.
DayFollows(w) ==
    /\ stage[w] # "idle" => day[w] \in Days /\ Published(day[w] - 1)
    /\ stage[w] \in {"warming", "skipping"} => day[w] <= warmups
    /\ stage[w] \in Late => day[w] > warmups

\* A warm-up session's worker that has its event.
WarmupRecorded(w) ==
    stage[w] = "state" /\ day[w] <= warmups =>
        position[w] \in DOMAIN log /\ log[position[w]] = Plain("warmup", day[w])

\* The evidence of session d, of a worker at step s that holds the lock and
\* remembers the failures F and the ledger position p.
Evidenced(d, s, F, p) ==
    /\ s \in PastArtifacts => Has("artifacts", d)
    /\ s \in PastEvaluation => Has("evaluation", d)
    /\ s \in PastExploration => Has("exploration", d)
    /\ s \in PastAnalysis => Has("analysis", d)
    /\ s \in PastHistory => Counts(F, d)
    /\ s \in PastDiagnostics => Has("diagnostics", d)
    /\ s \in PastFile => reports[d] # NoReport /\ reports[d] = F
    /\ s \in PastReport => InTheLog(Event("report", d, F))
    /\ s \in PastPublication => Has("publication", d)
    /\ s \in PastSnapshot => Snapshots(d) # {}
    /\ s = "materialized" =>
         /\ Snapshots(d) = {} /\ states[d - 1].tail <= p
         /\ \A k \in DOMAIN log : k > p => log[k].kind \in UnlockedKinds
    /\ s = "state" => \A k \in DOMAIN log : log[k].kind \notin UnlockedKinds => k <= p

WorkerOK(w) ==
    /\ DayFollows(w)
    /\ lock = w <=> Evaluates(w)
    /\ WarmupRecorded(w)
    /\ Evaluates(w) => Evidenced(day[w], stage[w], failuresSeen[w], position[w])

ResearchInv == WorkersTyped /\ FilesOK /\ \A w \in Workers : WorkerOK(w)

-----------------------------------------------------------------------------
(* The log.                                                                *)

\* What an append of one event makes of the log.
LEMMA WithIs ==
  ASSUME log \in Seq(LogEvents), NEW e \in LogEvents
  PROVE  With(e) = IF InTheLog(e) THEN log ELSE Append(log, e)
<1> DEFINE b == <<e>>
           Then(s) == IF e \in Ledger!InLog(log) \cup Ledger!InLog(s) THEN s ELSE Append(s, e)
           f == [n \in 0..1 |-> IF n = 0 THEN << >> ELSE Then(<< >>)]
           Solves(g) ==
             g = [n \in 0..1 |-> IF n = 0 THEN << >>
                                 ELSE IF b[n] \in Ledger!InLog(log) \cup Ledger!InLog(g[n - 1])
                                      THEN g[n - 1] ELSE Append(g[n - 1], b[n])]
           added == CHOOSE g : Solves(g)
<1>1. Len(b) = 1 /\ b[1] = e
  OBVIOUS
<1>2. Solves(f)
  <2> DEFINE h == [n \in 0..1 |-> IF n = 0 THEN << >>
                                 ELSE IF b[n] \in Ledger!InLog(log) \cup Ledger!InLog(f[n - 1])
                                      THEN f[n - 1] ELSE Append(f[n - 1], b[n])]
  <2>1. f[0] = << >>
    OBVIOUS
  <2>2. \A n \in 0..1 : h[n] = IF n = 0 THEN << >> ELSE Then(<< >>)
    <3> SUFFICES ASSUME NEW n \in 0..1, n # 0 PROVE h[n] = Then(<< >>)
      OBVIOUS
    <3>1. n = 1 /\ n - 1 = 0
      OBVIOUS
    <3>2. f[n - 1] = << >>
      BY <2>1, <3>1
    <3> HIDE DEF f
    <3> QED
      BY <1>1, <3>1, <3>2
  <2> QED
    BY <2>2
<1>3. Solves(added)
  <2> HIDE DEF Solves
  <2> QED
    BY <1>2
<1>4. Ledger!Additions(log, b) = added[Len(b)]
  BY <1>1 DEF Ledger!Additions
<1>5. added[1] = Then(<< >>)
  <2> HIDE DEF added, Then
  <2>1. added[0] = << >>
    BY <1>3
  <2> QED
    BY <1>1, <1>3, <2>1 DEF Then
<1>6. Ledger!InLog(<< >>) = {} /\ (e \in Ledger!InLog(log) <=> InTheLog(e))
  BY DEF Ledger!InLog, InTheLog
<1>7. CASE InTheLog(e)
  <2>1. With(e) = log \o << >>
    BY <1>1, <1>4, <1>5, <1>6, <1>7 DEF With
  <2> QED
    BY <1>7, <2>1, ConcatEmptySeq
<1>8. CASE ~InTheLog(e)
  <2>1. Then(<< >>) = <<e>>
    BY <1>6, <1>8
  <2>2. Ledger!Additions(log, <<e>>) = <<e>>
    BY <1>1, <1>4, <1>5, <2>1
  <2> HIDE DEF added, Then
  <2>3. With(e) = log \o <<e>>
    BY <2>2 DEF With
  <2> QED
    BY <1>8, <2>3, AppendIsConcat
<1> QED
  BY <1>7, <1>8

\* What a longer log still has, and what it has more.
LEMMA AppendFacts ==
  ASSUME log \in Seq(LogEvents), NEW e \in LogEvents, log' = Append(log, e)
  PROVE  /\ Len(log) \in Nat /\ DOMAIN log = 1..Len(log)
         /\ log' \in Seq(LogEvents) /\ Len(log') = Len(log) + 1 /\ DOMAIN log' = 1..(Len(log) + 1)
         /\ \A k \in 1..Len(log) : log'[k] = log[k] /\ log[k] \in LogEvents
         /\ log'[Len(log) + 1] = e
BY AppendProperties, LenProperties, ElementOfSeq

\* What a longer log leaves of the evidence, and adds to it.
LEMMA LongerLog ==
  ASSUME log \in Seq(LogEvents), NEW e \in LogEvents, log' = Append(log, e)
  PROVE  /\ \A f : InTheLog(f) => InTheLog(f)'
         /\ \A kind, d : Has(kind, d) => Has(kind, d)'
         /\ \A d : Snapshots(d) # {} => Snapshots(d)' # {}
         /\ \A d : e.kind # "snapshot" => Snapshots(d)' = Snapshots(d)
         /\ InTheLog(e)'
         /\ \A F, d : Has("analysis", d) /\ Counts(F, d) => Counts(F, d)'
<1> DEFINE N == Len(log)
<1>1. /\ N \in Nat /\ DOMAIN log = 1..N /\ Len(log') = N + 1 /\ DOMAIN log' = 1..(N + 1)
      /\ \A k \in 1..N : log'[k] = log[k]
      /\ log'[N + 1] = e
  BY AppendFacts
<1> HIDE DEF N
<1>2. \A f : InTheLog(f) => InTheLog(f)'
  BY <1>1 DEF InTheLog
<1>3. \A kind, d : Has(kind, d) => Has(kind, d)'
  BY <1>2 DEF Has
<1>4. \A d : /\ Snapshots(d) # {} => Snapshots(d)' # {}
             /\ e.kind # "snapshot" => Snapshots(d)' = Snapshots(d)
  BY <1>1 DEF Snapshots, OfKind
<1>5. InTheLog(e)'
  BY <1>1 DEF InTheLog
<1>6. ASSUME NEW F, NEW d, Has("analysis", d), Counts(F, d) PROVE Counts(F, d)'
  <2>1. F \subseteq FailuresUpTo(d)'
    <3>1. \A k : OfKind("failed", k) # {} => OfKind("failed", k)' # {}
      BY <1>1 DEF OfKind
    <3> QED
      BY <1>6, <3>1 DEF Counts, FailuresUpTo
  <2>2. ASSUME NEW k \in DOMAIN log', log'[k].kind = "failed", log'[k].day \in (1..d) \ F
        PROVE  \E j \in 1..k - 1 : log'[j] = Plain("analysis", d)
    <3>1. CASE k = N + 1
      <4>1. PICK j \in DOMAIN log : log[j] = Plain("analysis", d)
        BY <1>6 DEF Has, InTheLog
      <4> QED
        BY <1>1, <3>1, <4>1
    <3>2. CASE k \in 1..N
      <4>1. PICK j \in 1..k - 1 : log[j] = Plain("analysis", d)
        BY <1>1, <1>6, <2>2, <3>2 DEF Counts
      <4>2. j \in 1..N
        BY <1>1, <3>2
      <4> QED
        BY <1>1, <4>1, <4>2
    <3> QED
      BY <1>1, <3>1, <3>2
  <2> QED
    BY <2>1, <2>2 DEF Counts
<1> QED
  BY <1>2, <1>3, <1>4, <1>5, <1>6

\* What is recorded stays recorded.
LEMMA EvidenceStays ==
  ASSUME log \in Seq(LogEvents), NEW e \in LogEvents, log' = With(e)
  PROVE  /\ log' = IF InTheLog(e) THEN log ELSE Append(log, e)
         /\ \A f : InTheLog(f) => InTheLog(f)'
         /\ \A kind, d : Has(kind, d) => Has(kind, d)'
         /\ \A d : Snapshots(d) # {} => Snapshots(d)' # {}
         /\ InTheLog(e)'
         /\ \A F, d : Has("analysis", d) /\ Counts(F, d) => Counts(F, d)'
         /\ Len(log) \in Nat /\ Len(log') \in Nat /\ Len(log) <= Len(log')
<1>0. log' = IF InTheLog(e) THEN log ELSE Append(log, e)
  BY WithIs
<1>1. CASE InTheLog(e)
  <2>1. log' = log
    BY <1>0, <1>1
  <2>2. Len(log) \in Nat
    BY LenProperties
  <2> QED
    BY <1>1, <2>1, <2>2 DEF InTheLog, Has, Snapshots, OfKind, Counts, FailuresUpTo
<1>2. CASE ~InTheLog(e)
  <2>1. log' = Append(log, e)
    BY <1>0, <1>2
  <2>2. Len(log) \in Nat /\ Len(log') = Len(log) + 1
    BY <2>1, AppendFacts
  <2> QED
    BY <1>2, <2>1, <2>2, LongerLog
<1> QED
  BY <1>1, <1>2

-----------------------------------------------------------------------------
(* The files.                                                              *)

\* A step that changes no file.
LEMMA SameFilesStay ==
  ASSUME FilesOK, UNCHANGED <<log, states, reports, warmups>>
  PROVE  FilesOK'
<1>1. LogOK'
  BY DEF FilesOK, LogOK, Follows, Snapped, Snapshots, OfKind, Published
<1>2. StatesOK'
  BY DEF FilesOK, StatesOK, Published
<1>3. PublishedIsComplete' /\ ReportsOK'
  BY DEF FilesOK, PublishedIsComplete, ReportsOK, Published, Complete, Has, InTheLog, Snapshots, OfKind,
         Counts, FailuresUpTo
<1> QED
  BY <1>1, <1>2, <1>3 DEF FilesOK

\* What an event has to be to be appended next.
Appendable(e) ==
    /\ e.kind \notin MiningKinds => e.day \in Days /\ Published(e.day - 1)
    /\ e.kind \notin UnlockedKinds => e.day > warmups /\ ~Published(e.day)
    /\ e.kind = "report" => e.content = reports[e.day]
    /\ e.kind = "snapshot" =>
         /\ Snapshots(e.day) = {}
         /\ \E n \in 0..Len(log) :
              /\ e.content = {n} /\ states[e.day - 1].tail <= n
              /\ \A j \in n + 1..Len(log) : log[j].kind \in UnlockedKinds

\* A step that appends an event.
LEMMA AppendKeeps ==
  ASSUME FilesOK, warmups \in Nat, UNCHANGED <<states, reports, warmups>>,
         NEW e \in LogEvents, ~InTheLog(e), log' = With(e), Appendable(e)
  PROVE  FilesOK'
<1> DEFINE N == Len(log)
<1>0. log \in Seq(LogEvents)
  BY DEF FilesOK, LogOK
<1>a. log' = Append(log, e)
  BY <1>0, EvidenceStays
<1>1. /\ N \in Nat /\ DOMAIN log = 1..N
      /\ log' \in Seq(LogEvents) /\ Len(log') = N + 1 /\ DOMAIN log' = 1..(N + 1)
      /\ \A k \in 1..N : log'[k] = log[k] /\ log[k] \in LogEvents
      /\ log'[N + 1] = e
  BY <1>0, <1>a, AppendFacts
<1>2. \A d : Published(d)' = Published(d)
  BY DEF Published
<1>3. LogOK'
  <2> SUFFICES ASSUME NEW k \in 1..(N + 1)
               PROVE  /\ Follows(k)'
                      /\ log'[k].kind = "report" => log'[k].content = reports[log'[k].day]
                      /\ log'[k].kind = "snapshot" => Snapped(k)'
    BY <1>1 DEF LogOK
  <2>1. CASE k \in 1..N
    <3>1. Follows(k) /\ (log[k].kind = "report" => log[k].content = reports[log[k].day])
      BY <1>1, <2>1 DEF FilesOK, LogOK
    <3>2. ASSUME log[k].kind = "snapshot" PROVE Snapped(k)'
      <4>a. PICK d : d = log[k].day
        OBVIOUS
      <4>1. Snapped(k)
        BY <1>1, <2>1, <3>2 DEF FilesOK, LogOK
      <4>2. e.kind = "snapshot" => e.day # d
        BY <1>1, <2>1, <3>2, <4>a DEF Appendable, Snapshots, OfKind
      <4>3. Snapshots(d)' = Snapshots(d)
        <5> HIDE DEF N
        <5> QED
          BY <1>1, <4>2 DEF Snapshots, OfKind
      <4>4. PICK n \in Nat : /\ log[k].content = {n} /\ n < k /\ states[d - 1].tail <= n
                             /\ \A j \in n + 1..k - 1 : log[j].kind \in UnlockedKinds
        BY <4>1, <4>a DEF Snapped
      <4>5. \A j \in n + 1..k - 1 : log'[j] = log[j]
        <5> HIDE DEF N
        <5> QED
          BY <1>1, <2>1
      <4>6. /\ log'[k].content = {n} /\ n < k /\ states'[d - 1].tail <= n
            /\ \A j \in n + 1..k - 1 : log'[j].kind \in UnlockedKinds
        BY <1>1, <2>1, <4>4, <4>5
      <4>7. \A j \in Snapshots(d)' : j = k
        BY <4>1, <4>3, <4>a DEF Snapped
      <4>8. log'[k].day = d
        BY <1>1, <2>1, <4>a
      <4> QED
        BY <4>6, <4>7, <4>8 DEF Snapped
    <3> QED
      BY <1>1, <1>2, <2>1, <3>1, <3>2 DEF Follows
  <2>2. CASE k = N + 1
    <3>1. Follows(k)'
      <4>1. ASSUME e.kind \notin MiningKinds PROVE N + 1 > states[e.day - 1].tail
        <5>1. e.day - 1 \in 0..LastDay
          BY <4>1, ResearchAssumption DEF Appendable, Days
        <5>2. states[e.day - 1].tail \in Nat \cup {-1} /\ states[e.day - 1].tail <= N
          BY <5>1 DEF FilesOK, StatesOK, States
        <5> QED
          BY <1>1, <5>2
      <4> QED
        BY <1>1, <1>2, <2>2, <4>1 DEF Follows, Appendable
    <3>2. ASSUME e.kind = "snapshot" PROVE Snapped(k)'
      <4>1. PICK n \in 0..N : /\ e.content = {n} /\ states[e.day - 1].tail <= n
                              /\ \A j \in n + 1..N : log[j].kind \in UnlockedKinds
        BY <3>2 DEF Appendable
      <4>2. /\ log'[k].content = {n} /\ n \in Nat /\ n < k /\ states'[log'[k].day - 1].tail <= n
        BY <1>1, <2>2, <4>1
      <4>3. \A j \in n + 1..k - 1 : log'[j].kind \in UnlockedKinds
        <5> HIDE DEF N
        <5> QED
          BY <1>1, <2>2, <4>1
      <4>a. PICK d : d = e.day
        OBVIOUS
      <4>4. \A j \in Snapshots(d)' : j = k
        <5> HIDE DEF N
        <5> QED
          BY <1>1, <2>2, <3>2, <4>a DEF Appendable, Snapshots, OfKind
      <4>5. log'[k].day = d
        BY <1>1, <2>2, <4>a
      <4> QED
        BY <4>2, <4>3, <4>4, <4>5 DEF Snapped
    <3> QED
      BY <1>1, <2>2, <3>1, <3>2 DEF Appendable
  <2> QED
    BY <1>1, <2>1, <2>2
<1>4. StatesOK'
  <2>1. \A d \in 0..LastDay : states[d].tail <= N + 1
    <3> SUFFICES ASSUME NEW d \in 0..LastDay PROVE states[d].tail <= N + 1
      OBVIOUS
    <3>1. states[d].tail \in Nat \cup {-1} /\ states[d].tail <= N
      BY DEF FilesOK, StatesOK, States
    <3> QED
      BY <1>1, <3>1
  <2> QED
    BY <1>1, <1>2, <2>1 DEF FilesOK, StatesOK
<1>5. PublishedIsComplete'
  <2>1. \A d : Complete(d) => Complete(d)'
    BY <1>0, EvidenceStays DEF Complete
  <2> QED
    BY <1>2, <2>1 DEF FilesOK, PublishedIsComplete
<1>6. ReportsOK'
  BY <1>0, EvidenceStays DEF FilesOK, ReportsOK
<1> QED
  BY <1>3, <1>4, <1>5, <1>6 DEF FilesOK


\* A step that writes the report of a session, or finds it written.
LEMMA ReportKeeps ==
  ASSUME FilesOK, UNCHANGED <<log, states, warmups>>, NEW d \in Days, NEW F \in SUBSET Days,
         reports[d] \in {NoReport, F}, reports' = [reports EXCEPT ![d] = F],
         Has("analysis", d), Counts(F, d)
  PROVE  FilesOK'
<1>1. /\ reports'[d] = F /\ \A c \in Days : c # d => reports'[c] = reports[c]
      /\ reports' \in [Days -> SUBSET Int]
  BY ResearchAssumption DEF FilesOK, ReportsOK, Days
<1>2. \A c \in Days : reports[c] # NoReport => reports'[c] = reports[c]
  BY <1>1
<1>3. LogOK'
  <2>1. ASSUME NEW k \in DOMAIN log, log[k].kind = "report" PROVE log[k].content = reports'[log[k].day]
    <3>1. log[k] \in LogEvents /\ Follows(k) /\ log[k].content = reports[log[k].day]
      BY <2>1, ElementOfSeq DEF FilesOK, LogOK
    <3>2. log[k].content \subseteq Nat /\ log[k].day \in Days
      BY <2>1, <3>1 DEF LogEvents, Follows, MiningKinds
    <3>3. log[k].content # NoReport
      BY <3>2 DEF NoReport
    <3> QED
      BY <1>2, <3>1, <3>2, <3>3
  <2> QED
    BY <2>1 DEF FilesOK, LogOK, Follows, Snapped, Snapshots, OfKind, Published
<1>4. StatesOK'
  BY DEF FilesOK, StatesOK, Published
<1>5. PublishedIsComplete'
  <2>1. \A c \in Days : Complete(c) => Complete(c)'
    BY <1>2 DEF Complete, Has, InTheLog, Snapshots, OfKind
  <2> QED
    BY <2>1 DEF FilesOK, PublishedIsComplete, Published
<1>6. ReportsOK'
  <2>1. \A G, c : (Counts(G, c))' = Counts(G, c)
    BY DEF Counts, FailuresUpTo, OfKind
  <2>2. \A kind, c : (Has(kind, c))' = Has(kind, c)
    BY DEF Has, InTheLog
  <2>3. ASSUME NEW c \in Days, reports'[c] # NoReport PROVE Has("analysis", c) /\ Counts(reports'[c], c)
    BY <1>1, <2>3 DEF FilesOK, ReportsOK
  <2> QED
    BY <1>1, <2>1, <2>2, <2>3 DEF ReportsOK
<1> QED
  BY <1>3, <1>4, <1>5, <1>6 DEF FilesOK

\* A step that publishes the next session.
LEMMA StateKeeps ==
  ASSUME FilesOK, UNCHANGED <<log, reports, warmups>>, warmups \in Nat,
         NEW d \in Days, ~Published(d), Published(d - 1),
         NEW p \in Nat, p <= Len(log), states[d - 1].tail <= p, NEW F \in SUBSET Days,
         states' = [states EXCEPT ![d] = [tail |-> p, failures |-> F]],
         d > warmups => Complete(d) /\ \A k \in DOMAIN log : log[k].kind \notin UnlockedKinds => k <= p
  PROVE  FilesOK'
<1>1. log \in Seq(LogEvents) /\ Len(log) \in Nat /\ DOMAIN log = 1..Len(log)
  BY LenProperties DEF FilesOK, LogOK
<1>2. /\ states'[d] = [tail |-> p, failures |-> F] /\ d \in 0..LastDay /\ d - 1 \in 0..LastDay
      /\ \A c \in 0..LastDay : c # d => states'[c] = states[c]
  BY ResearchAssumption DEF FilesOK, StatesOK, Days
<1>3. /\ Published(d)' /\ states'[d].tail = p
      /\ \A c \in 0..LastDay : c # d => Published(c)' = Published(c)
  BY <1>2 DEF Published, NoState
<1>4. \A b, c \in 0..LastDay : b <= c /\ Published(c) => Published(b) /\ states[b].tail <= states[c].tail
  BY DEF FilesOK, StatesOK
<1>5. \A c \in 0..LastDay : Published(c) => c < d
  BY <1>2, <1>4
<1>6. LogOK'
  <2>1. ASSUME NEW k \in DOMAIN log PROVE Follows(k)'
    <3>a. PICK e : e = log[k].day
      OBVIOUS
    <3>1. Follows(k)
      BY DEF FilesOK, LogOK
    <3>2. ASSUME log[k].kind \notin MiningKinds
          PROVE  e \in Days /\ Published(e - 1)' /\ k > states'[e - 1].tail
      <4>1. e \in Days /\ Published(e - 1) /\ k > states[e - 1].tail
        BY <3>1, <3>2, <3>a DEF Follows
      <4>2. e - 1 \in 0..LastDay
        BY <4>1, ResearchAssumption DEF Days
      <4>3. e - 1 # d
        BY <4>1
      <4> QED
        BY <1>2, <1>3, <4>1, <4>2, <4>3
    <3>3. ASSUME log[k].kind \notin UnlockedKinds
          PROVE  e > warmups /\ (Published(e)' => k <= states'[e].tail)
      <4>1. log[k].kind \notin MiningKinds
        BY <3>3 DEF UnlockedKinds
      <4>2. e \in Days /\ e > warmups /\ (Published(e) => k <= states[e].tail)
        BY <3>1, <3>3, <4>1, <3>a DEF Follows
      <4>3. e \in 0..LastDay
        BY <4>2, ResearchAssumption DEF Days
      <4>4. CASE e = d
        BY <1>3, <3>3, <4>2, <4>4
      <4>5. CASE e # d
        BY <1>2, <1>3, <4>2, <4>3, <4>5
      <4> QED
        BY <4>4, <4>5
    <3> QED
      BY <3>2, <3>3, <3>a DEF Follows
  <2>2. ASSUME NEW k \in DOMAIN log, log[k].kind = "snapshot" PROVE Snapped(k)'
    <3>a. PICK e : e = log[k].day
      OBVIOUS
    <3>1. Snapped(k) /\ Follows(k)
      BY <2>2 DEF FilesOK, LogOK
    <3>2. e \in Days /\ Published(e - 1)
      BY <2>2, <3>1, <3>a DEF Follows, MiningKinds
    <3>3. e - 1 \in 0..LastDay /\ e - 1 # d
      BY <3>2, ResearchAssumption DEF Days
    <3>4. states'[e - 1] = states[e - 1]
      BY <1>2, <3>3
    <3>5. Snapshots(e)' = Snapshots(e)
      BY DEF Snapshots, OfKind
    <3> QED
      BY <3>1, <3>4, <3>5, <3>a DEF Snapped
  <2> QED
    BY <2>1, <2>2 DEF FilesOK, LogOK
<1>7. StatesOK'
  <2>1. states' \in [0..LastDay -> States]
    BY <1>1, <1>2 DEF FilesOK, StatesOK, States
  <2>2. \A c \in 0..LastDay : states'[c].tail <= Len(log) /\ (Published(c)' => states'[c].tail \in Nat)
    BY <1>2, <1>3 DEF FilesOK, StatesOK
  <2>3. ASSUME NEW b \in 0..LastDay, NEW c \in 0..LastDay, b <= c, Published(c)'
        PROVE  Published(b)' /\ states'[b].tail <= states'[c].tail
    <3>1. CASE c # d
      <4>1. Published(c) /\ b # d
        BY <1>3, <1>5, <2>3, <3>1
      <4> QED
        BY <1>2, <1>3, <1>4, <2>3, <3>1, <4>1
    <3>2. CASE c = d /\ b # d
      <4>1. b <= d - 1
        BY <2>3, <3>2
      <4>2. Published(b) /\ states[b].tail <= states[d - 1].tail
        BY <1>2, <1>4, <4>1
      <4>3. states[b].tail \in Nat /\ states[d - 1].tail \in Nat
        BY <1>2, <4>2 DEF FilesOK, StatesOK
      <4>4. states[b].tail <= p
        BY <4>2, <4>3
      <4> QED
        BY <1>2, <1>3, <3>2, <4>2, <4>4
    <3>3. CASE c = d /\ b = d
      BY <1>3, <3>3
    <3> QED
      BY <3>1, <3>2, <3>3
  <2>4. Published(0)'
    BY <1>3, ResearchAssumption DEF FilesOK, StatesOK, Days
  <2> QED
    BY <2>1, <2>2, <2>3, <2>4 DEF StatesOK
<1>8. PublishedIsComplete'
  <2>1. \A c : (Complete(c))' = Complete(c)
    BY DEF Complete, Has, InTheLog, Snapshots, OfKind
  <2>2. \A c \in Days : c \in 0..LastDay
    BY ResearchAssumption DEF Days
  <2> QED
    BY <1>3, <2>1, <2>2 DEF FilesOK, PublishedIsComplete
<1>9. ReportsOK'
  BY DEF FilesOK, ReportsOK, Has, InTheLog, Counts, FailuresUpTo, OfKind
<1> QED
  BY <1>6, <1>7, <1>8, <1>9 DEF FilesOK

-----------------------------------------------------------------------------
(* The workers.                                                            *)

\* What a step of worker w leaves of the files to the others.
Files(w) ==
    /\ FilesOK'
    /\ Len(log) <= Len(log')
    /\ \A d \in 0..LastDay : Published(d) => states'[d] = states[d]
    /\ \/ log' = log
       \/ \E e \in LogEvents : log' = Append(log, e) /\ (e.kind \in UnlockedKinds \/ lock = w)
    /\ reports' = reports \/ lock = w
    /\ UNCHANGED warmups /\ miner' \in {"idle", "mined", "failed"} /\ interruptions' \in 0..MaxInterruptions

\* What the step of one worker, or of the miner, leaves another worker with.
LEMMA OtherKeeps ==
  ASSUME ResearchInv, NEW w, NEW u \in Workers, u # w, Files(w),
         stage'[u] = stage[u], day'[u] = day[u], failuresSeen'[u] = failuresSeen[u],
         position'[u] = position[u], lock' = u <=> lock = u
  PROVE  WorkerOK(u)'
<1>0. WorkerOK(u) /\ log \in Seq(LogEvents) /\ DOMAIN log = 1..Len(log) /\ Len(log) \in Nat
  BY LenProperties DEF ResearchInv, FilesOK, LogOK
<1>1. \A k \in DOMAIN log : k \in DOMAIN log' /\ log'[k] = log[k]
  <2>1. CASE log' = log
    BY <2>1
  <2>2. ASSUME NEW e \in LogEvents, log' = Append(log, e) PROVE \A k \in DOMAIN log : k \in DOMAIN log' /\ log'[k] = log[k]
    BY <1>0, <2>2, AppendFacts
  <2> QED
    BY <2>1, <2>2 DEF Files
<1>2. stage[u] # "idle" => day[u] - 1 \in 0..LastDay /\ states'[day[u] - 1] = states[day[u] - 1]
  BY <1>0, ResearchAssumption DEF WorkerOK, DayFollows, Days, Files
<1>3. DayFollows(u)'
  BY <1>0, <1>2 DEF WorkerOK, DayFollows, Published, Files
<1>4. (Evaluates(u))' <=> Evaluates(u)
  BY DEF Evaluates, Files
<1>5. WarmupRecorded(u)'
  BY <1>0, <1>1 DEF WorkerOK, WarmupRecorded, Files
<1>6. ASSUME Evaluates(u) PROVE Evidenced(day[u], stage[u], failuresSeen[u], position[u])'
  <2>a. PICK d, s, F, p : d = day[u] /\ s = stage[u] /\ F = failuresSeen[u] /\ p = position[u]
    OBVIOUS
  <2>1. Evidenced(d, s, F, p) /\ reports' = reports /\ stage[u] # "idle" /\ lock = u /\ p \in Nat /\ p <= Len(log)
    BY <1>0, <1>6, <2>a DEF WorkerOK, Files, Evaluates, Locked, PastArtifacts, PastEvaluation, PastExploration,
       PastAnalysis, PastHistory, PastDiagnostics, PastFile, PastReport, PastPublication, PastSnapshot,
       ResearchInv, WorkersTyped
  <2>2. states'[d - 1] = states[d - 1]
    BY <1>2, <2>1, <2>a
  <2>3. ASSUME log' = log PROVE Evidenced(d, s, F, p)'
    <3>1. /\ \A f : InTheLog(f)' = InTheLog(f)
          /\ \A kind, c : Has(kind, c)' = Has(kind, c)
          /\ \A c : Snapshots(c)' = Snapshots(c)
          /\ \A G, c : Counts(G, c)' = Counts(G, c)
      BY <2>3 DEF InTheLog, Has, Snapshots, OfKind, Counts, FailuresUpTo
    <3> QED
      BY <2>1, <2>2, <2>3, <3>1 DEF Evidenced
  <2>4. ASSUME NEW e \in LogEvents, log' = Append(log, e), e.kind \in UnlockedKinds
        PROVE  Evidenced(d, s, F, p)'
    <3>1. /\ DOMAIN log' = 1..(Len(log) + 1) /\ log'[Len(log) + 1] = e
          /\ \A k \in 1..Len(log) : log'[k] = log[k]
      BY <1>0, <2>4, AppendFacts
    <3>2. /\ \A f : InTheLog(f) => InTheLog(f)'
          /\ \A kind, c : Has(kind, c) => Has(kind, c)'
          /\ \A c : Snapshots(c)' = Snapshots(c)
          /\ Has("analysis", d) /\ Counts(F, d) => Counts(F, d)'
      <4>1. e.kind # "snapshot"
        BY <2>4 DEF UnlockedKinds, MiningKinds
      <4> QED
        BY <1>0, <2>4, <4>1, LongerLog
    <3>4. s \in PastHistory => s \in PastAnalysis
      BY DEF PastAnalysis
    <3>5. s = "state" => \A k \in DOMAIN log' : log'[k].kind \notin UnlockedKinds => k <= p
      BY <1>0, <2>1, <2>4, <3>1 DEF Evidenced
    <3>6. s = "materialized" => \A k \in DOMAIN log' : k > p => log'[k].kind \in UnlockedKinds
      BY <1>0, <2>1, <2>4, <3>1 DEF Evidenced
    <3> QED
      BY <2>1, <2>2, <3>2, <3>4, <3>5, <3>6 DEF Evidenced
  <2>5. log' = log \/ \E e \in LogEvents : log' = Append(log, e) /\ (e.kind \in UnlockedKinds \/ lock = w)
    BY DEF Files
  <2>6. Evidenced(d, s, F, p)'
    BY <2>1, <2>3, <2>4, <2>5
  <2> QED
    BY <2>6, <2>a
<1> QED
  BY <1>0, <1>3, <1>4, <1>5, <1>6 DEF WorkerOK

-----------------------------------------------------------------------------
(* The steps of a worker.                                                  *)

USE DEF Locked, PastArtifacts, PastEvaluation, PastExploration, PastAnalysis, PastHistory, PastDiagnostics,
        PastFile, PastReport, PastPublication, PastSnapshot

\* What the appends of execute_daily are, and what each is followed by.
LEMMA StepsAre ==
  /\ DOMAIN NextStep =
       {"artifacts", "evaluation", "exploration", "analysis", "diagnostics", "publication"}
  /\ NextStep["artifacts"] = "evaluation" /\ NextStep["evaluation"] = "exploration"
  /\ NextStep["exploration"] = "analysis" /\ NextStep["analysis"] = "history"
  /\ NextStep["diagnostics"] = "report" /\ NextStep["publication"] = "snapshot"
BY DEF NextStep

\* The names of the steps.
LEMMA StepNames ==
  /\ {"idle", "warming", "skipping", "waiting", "checking", "history", "report", "report event", "snapshot",
      "materialized", "tail", "state", "accounting", "recording", "artifacts", "evaluation", "exploration",
      "analysis", "diagnostics", "publication"} \subseteq WorkerSteps
  /\ Locked \subseteq WorkerSteps
BY StepsAre DEF WorkerSteps

\* Arithmetic.
LEMMA NotLess == \A a, b \in Nat : a > b <=> ~(a <= b)
OBVIOUS

LEMMA AtMost == \A a, b, c \in Nat : a <= b /\ b <= c => a <= c
OBVIOUS

LEMMA DayBefore == \A d \in Days : d - 1 \in 0..LastDay /\ d \in 0..LastDay /\ d \in Nat
BY ResearchAssumption DEF Days

\* What is known of a worker.
LEMMA WorkerFacts ==
  ASSUME ResearchInv, NEW w \in Workers
  PROVE  /\ day[w] \in 0..LastDay /\ failuresSeen[w] \in SUBSET Days /\ FilesOK
         /\ position[w] \in Nat /\ position[w] <= Len(log)
         /\ log \in Seq(LogEvents) /\ Len(log) \in Nat /\ DOMAIN log = 1..Len(log)
         /\ warmups \in Nat /\ w # Nobody /\ WorkerOK(w)
         /\ stage[w] # "idle" => day[w] \in Days /\ Published(day[w] - 1)
<1>1. /\ day[w] \in 0..LastDay /\ failuresSeen[w] \in SUBSET Days
      /\ position[w] \in Nat /\ position[w] <= Len(log) /\ warmups \in Nat
  BY ResearchAssumption DEF ResearchInv, WorkersTyped
<1>2. log \in Seq(LogEvents) /\ Len(log) \in Nat /\ DOMAIN log = 1..Len(log)
  BY LenProperties DEF ResearchInv, FilesOK, LogOK
<1>3. WorkerOK(w) /\ w # Nobody /\ FilesOK
  BY ResearchAssumption DEF ResearchInv, Nobody
<1>4. stage[w] # "idle" => day[w] \in Days /\ Published(day[w] - 1)
  BY <1>3 DEF WorkerOK, DayFollows
<1> QED
  BY <1>1, <1>2, <1>3, <1>4

\* A worker inside the lock evaluates a session past the warm-ups.
LEMMA InsideFacts ==
  ASSUME ResearchInv, NEW w \in Workers, stage[w] \in Locked \ {"state"} \/ lock = w
  PROVE  /\ lock = w /\ stage[w] \in Locked /\ day[w] > warmups /\ w # Nobody
         /\ day[w] \in Days /\ Published(day[w] - 1)
         /\ Evidenced(day[w], stage[w], failuresSeen[w], position[w])
<1>1. stage[w] \in Locked \ {"state"} => day[w] > warmups
  BY WorkerFacts DEF WorkerOK, DayFollows, Late
<1>2. Evaluates(w)
  BY <1>1, WorkerFacts DEF Evaluates, WorkerOK
<1>3. stage[w] # "idle"
  BY <1>2 DEF Evaluates
<1> QED
  BY <1>2, <1>3, WorkerFacts DEF WorkerOK, Evaluates

\* The lengths of the log.
LEMMA Lengths ==
  ASSUME ResearchInv, NEW w, Files(w)
  PROVE  Len(log) \in Nat /\ Len(log') \in Nat /\ Len(log) <= Len(log')
<1>1. log \in Seq(LogEvents) /\ (log \in Seq(LogEvents))' /\ Len(log) <= Len(log')
  BY DEF Files, ResearchInv, FilesOK, LogOK
<1>2. log' \in Seq(LogEvents)
  BY <1>1 DEF LogEvents, Kinds, UnlockedKinds, MiningKinds
<1> QED
  BY <1>1, <1>2, LenProperties

\* A step that changes no file.
LEMMA QuietFiles ==
  ASSUME ResearchInv, NEW w, UNCHANGED <<log, states, reports, warmups>>,
         miner' \in {"idle", "mined", "failed"}, interruptions' \in 0..MaxInterruptions
  PROVE  Files(w)
<1>1. FilesOK'
  BY SameFilesStay DEF ResearchInv
<1>2. Len(log) \in Nat
  BY LenProperties DEF ResearchInv, FilesOK, LogOK
<1> QED
  BY <1>1, <1>2 DEF Files

\* A step that records an event, again or for the first time.
LEMMA RecordFiles ==
  ASSUME ResearchInv, NEW w, NEW e \in LogEvents, log' = With(e), UNCHANGED <<states, reports, warmups>>,
         InTheLog(e) \/ (Appendable(e) /\ (e.kind \in UnlockedKinds \/ lock = w)),
         miner' \in {"idle", "mined", "failed"}, interruptions' \in 0..MaxInterruptions
  PROVE  Files(w)
<1>0. log \in Seq(LogEvents) /\ warmups \in Nat /\ FilesOK
  BY ResearchAssumption DEF ResearchInv, FilesOK, LogOK, WorkersTyped
<1>1. CASE InTheLog(e)
  BY <1>0, <1>1, EvidenceStays, QuietFiles
<1>2. CASE ~InTheLog(e)
  <2>1. FilesOK'
    BY <1>0, <1>2, AppendKeeps
  <2>2. log' = Append(log, e) /\ Len(log) <= Len(log')
    BY <1>0, <1>2, EvidenceStays
  <2> QED
    BY <1>2, <2>1, <2>2 DEF Files
<1> QED
  BY <1>1, <1>2

\* A step of a worker, by where it leaves it.
LEMMA WorkerStep ==
  ASSUME ResearchInv, NEW w \in Workers, Files(w),
         NEW s \in WorkerSteps, stage' = [stage EXCEPT ![w] = s],
         NEW d \in 0..LastDay, day' = [day EXCEPT ![w] = d],
         NEW F \in SUBSET Days, failuresSeen' = [failuresSeen EXCEPT ![w] = F],
         NEW p \in Nat, position' = [position EXCEPT ![w] = p], p <= Len(log'),
         lock' = lock \/ (lock = Nobody /\ lock' = w) \/ (lock = w /\ lock' = Nobody),
         s # "idle" => d \in Days /\ Published(d - 1),
         s \in {"warming", "skipping"} => d <= warmups,
         s \in Late => d > warmups,
         lock' = w <=> (s \in Locked /\ d > warmups),
         s = "state" /\ d <= warmups => p \in DOMAIN log' /\ log'[p] = Plain("warmup", d),
         s \in Locked /\ d > warmups => Evidenced(d, s, F, p)'
  PROVE  ResearchInv'
<1>1. /\ stage'[w] = s /\ day'[w] = d /\ failuresSeen'[w] = F /\ position'[w] = p
      /\ \A u \in Workers : u # w =>
           /\ stage'[u] = stage[u] /\ day'[u] = day[u]
           /\ failuresSeen'[u] = failuresSeen[u] /\ position'[u] = position[u]
  BY DEF ResearchInv, WorkersTyped
<1>2. WorkersTyped'
  <2>1. /\ stage' \in [Workers -> WorkerSteps] /\ day' \in [Workers -> 0..LastDay]
        /\ failuresSeen' \in [Workers -> SUBSET Days] /\ position' \in [Workers -> Nat]
        /\ lock' \in Workers \cup {Nobody}
    BY DEF ResearchInv, WorkersTyped
  <2>2. Len(log) \in Nat /\ Len(log') \in Nat /\ Len(log) <= Len(log')
    BY Lengths
  <2>3. \A u \in Workers : position'[u] <= Len(log')
    <3> SUFFICES ASSUME NEW u \in Workers, u # w PROVE position'[u] <= Len(log')
      BY <1>1
    <3>1. position[u] \in Nat /\ position[u] <= Len(log)
      BY DEF ResearchInv, WorkersTyped
    <3>2. position'[u] = position[u]
      BY <1>1
    <3> QED
      BY ONLY <2>2, <3>1, <3>2, AtMost
  <2>4. miner' \in {"idle", "mined", "failed"} /\ interruptions' \in 0..MaxInterruptions
        /\ warmups' \in WarmupCounts
    BY DEF Files, ResearchInv, WorkersTyped
  <2> QED
    BY <2>1, <2>3, <2>4 DEF WorkersTyped
<1>3. WorkerOK(w)'
  <2>1. warmups' = warmups /\ (s # "idle" => states'[d - 1] # NoState)
    <3>1. s # "idle" => d - 1 \in 0..LastDay
      BY DayBefore
    <3>2. /\ warmups' = warmups
          /\ \A c \in 0..LastDay : Published(c) => states'[c] = states[c]
      BY DEF Files
    <3> QED
      BY <3>1, <3>2 DEF Published
  <2>2. DayFollows(w)'
    BY <1>1, <2>1 DEF DayFollows, Published, Late
  <2>3. (Evaluates(w))' <=> (s \in Locked /\ d > warmups)
    BY <1>1, <2>1 DEF Evaluates
  <2>4. WarmupRecorded(w)'
    BY <1>1, <2>1 DEF WarmupRecorded
  <2>5. ASSUME s \in Locked /\ d > warmups
        PROVE  Evidenced(day[w], stage[w], failuresSeen[w], position[w])'
    BY <1>1, <2>5
  <2> HIDE DEF Locked
  <2> QED
    BY <2>2, <2>3, <2>4, <2>5 DEF WorkerOK
<1>4. ASSUME NEW u \in Workers, u # w PROVE WorkerOK(u)'
  <2>1. u # Nobody
    BY WorkerFacts
  <2> QED
    BY <1>1, <1>4, <2>1, OtherKeeps
<1>5. FilesOK'
  BY DEF Files
<1> QED
  BY <1>2, <1>3, <1>4, <1>5 DEF ResearchInv

\* What stays the same of a worker, written as WorkerStep asks for it.
LEMMA SameWorker ==
  ASSUME ResearchInv, NEW w \in Workers
  PROVE  /\ day = [day EXCEPT ![w] = day[w]]
         /\ failuresSeen = [failuresSeen EXCEPT ![w] = failuresSeen[w]]
         /\ position = [position EXCEPT ![w] = position[w]]
         /\ interruptions \in 0..MaxInterruptions /\ miner \in {"idle", "mined", "failed"}
BY DEF ResearchInv, WorkersTyped

\* An attempt raises.
LEMMA RaiseStep ==
  ASSUME ResearchInv, NEW w \in Workers, Files(w), lock = w, GiveUp(w)
  PROVE  ResearchInv'
<1>1. /\ day[w] > warmups /\ day[w] \in Days /\ Published(day[w] - 1) /\ day[w] \in 0..LastDay
      /\ w # Nobody /\ Len(log) \in Nat /\ Len(log') \in Nat
  BY InsideFacts, WorkerFacts, Lengths
<1>2. /\ stage' = [stage EXCEPT ![w] = "accounting"] /\ lock' = Nobody
      /\ failuresSeen' = [failuresSeen EXCEPT ![w] = {}] /\ position' = [position EXCEPT ![w] = 0]
      /\ day' = [day EXCEPT ![w] = day[w]]
  BY SameWorker DEF GiveUp, Goto, Release
<1>3. "accounting" \in WorkerSteps /\ "accounting" \notin Locked
  BY StepNames
<1>4. {} \in SUBSET Days /\ 0 \in Nat /\ 0 <= Len(log') /\ lock' # w
  BY <1>1, <1>2
<1> QED
  BY <1>1, <1>2, <1>3, <1>4, WorkerStep

\* A process ends.
LEMMA EndStep ==
  ASSUME ResearchInv, NEW w \in Workers, Files(w), End(w)
  PROVE  ResearchInv'
<1>1. w # Nobody /\ Len(log') \in Nat /\ LastDay \in Nat
  BY Lengths, WorkerFacts, ResearchAssumption
<1>2. /\ stage' = [stage EXCEPT ![w] = "idle"] /\ lock' = IF lock = w THEN Nobody ELSE lock
      /\ failuresSeen' = [failuresSeen EXCEPT ![w] = {}] /\ position' = [position EXCEPT ![w] = 0]
      /\ day' = [day EXCEPT ![w] = 0]
  BY DEF End, Goto, Release
<1>3. "idle" \in WorkerSteps /\ "idle" \notin Locked /\ "idle" \notin Late
  BY StepNames DEF Late
<1>4. {} \in SUBSET Days /\ 0 \in Nat /\ 0 <= Len(log') /\ lock' # w /\ 0 \in 0..LastDay
  BY <1>1, <1>2
<1>5. lock' = lock \/ (lock = w /\ lock' = Nobody)
  BY <1>2
<1> QED
  BY <1>1, <1>2, <1>3, <1>4, <1>5, WorkerStep

\* An attempt goes on inside the lock.
LEMMA ContinueStep ==
  ASSUME ResearchInv, NEW w \in Workers, Files(w), lock = w, NEW s \in Locked,
         stage' = [stage EXCEPT ![w] = s], UNCHANGED <<lock, day>>,
         NEW F \in SUBSET Days, failuresSeen' = [failuresSeen EXCEPT ![w] = F],
         NEW p \in Nat, position' = [position EXCEPT ![w] = p], p <= Len(log),
         NEW d, d = day[w], Evidenced(d, s, F, p)'
  PROVE  ResearchInv'
<1>1. /\ d > warmups /\ d \in Days /\ Published(d - 1) /\ w # Nobody
  BY InsideFacts
<1>a. d \in 0..LastDay /\ d \in Nat /\ warmups \in Nat /\ Len(log) \in Nat
  BY <1>1, WorkerFacts, DayBefore
<1>2. p \in Nat /\ p <= Len(log')
  <2>1. Len(log) \in Nat /\ Len(log') \in Nat /\ Len(log) <= Len(log')
    BY Lengths
  <2> QED
    BY <2>1, AtMost
<1>3. s \in WorkerSteps /\ s # "idle" /\ s \notin {"warming", "skipping"}
  BY StepNames
<1>4. day' = [day EXCEPT ![w] = d] /\ lock' = lock
  BY SameWorker
<1>5. ~(d <= warmups)
  BY <1>1, <1>a, NotLess
<1> HIDE DEF Locked
<1> QED
  BY <1>1, <1>2, <1>3, <1>4, <1>5, <1>a, WorkerStep

\* A command is started.
LEMMA StartKeeps ==
  ASSUME ResearchInv, NEW w \in Workers, NEW d \in Days, Start(w, d)
  PROVE  ResearchInv'
<1> DEFINE s == IF d <= warmups THEN "warming" ELSE "waiting"
<1>1. /\ stage[w] = "idle" /\ stage' = [stage EXCEPT ![w] = s] /\ day' = [day EXCEPT ![w] = d]
      /\ Published(d - 1)
      /\ UNCHANGED <<log, states, reports, lock, failuresSeen, position, miner, warmups, interruptions>>
  BY DEF Start, Goto, other
<1>2. lock # w
  BY <1>1, InsideFacts
<1>3. Files(w)
  BY <1>1, QuietFiles, SameWorker
<1>4. /\ failuresSeen' = [failuresSeen EXCEPT ![w] = failuresSeen[w]] /\ failuresSeen[w] \in SUBSET Days
      /\ position' = [position EXCEPT ![w] = position[w]] /\ position[w] \in Nat /\ position[w] <= Len(log')
      /\ warmups \in Nat
  BY <1>1, SameWorker, WorkerFacts
<1>5. s \in WorkerSteps /\ s \notin Locked /\ (s \in Late => ~(d <= warmups)) /\ s # "state"
  BY StepNames DEF Late
<1>6. s \in {"warming", "skipping"} => d <= warmups
  OBVIOUS
<1>7. d \in 0..LastDay /\ (s \in Late => d > warmups)
  BY <1>4, <1>5, DayBefore, NotLess
<1> HIDE DEF s, Locked
<1> QED
  BY <1>1, <1>2, <1>3, <1>4, <1>5, <1>6, <1>7, WorkerStep

\* A warm-up session is skipped only at the tail of the state before it.
LEMMA CheckWarmupKeeps ==
  ASSUME ResearchInv, NEW w \in Workers, CheckWarmup(w)
  PROVE  ResearchInv'
<1>1. stage[w] = "warming" /\ UNCHANGED <<log, states, reports, miner, warmups, interruptions>>
      /\ (Continue(w, "skipping") \/ End(w))
  BY DEF CheckWarmup, other
<1>2. Files(w)
  BY <1>1, QuietFiles, SameWorker
<1>3. CASE End(w)
  BY <1>2, <1>3, EndStep
<1>4. CASE Continue(w, "skipping")
  <2>1. /\ stage' = [stage EXCEPT ![w] = "skipping"] /\ lock' = lock
        /\ day' = [day EXCEPT ![w] = day[w]] /\ failuresSeen' = [failuresSeen EXCEPT ![w] = failuresSeen[w]]
        /\ position' = [position EXCEPT ![w] = position[w]]
    BY <1>4, SameWorker DEF Continue, Goto, memory
  <2>2. day[w] <= warmups /\ lock # w
    BY <1>1, InsideFacts, WorkerFacts DEF WorkerOK, DayFollows
  <2>3. /\ day[w] \in Days /\ Published(day[w] - 1) /\ day[w] \in 0..LastDay
        /\ failuresSeen[w] \in SUBSET Days /\ position[w] \in Nat /\ position[w] <= Len(log')
    BY <1>1, WorkerFacts
  <2>4. "skipping" \in WorkerSteps /\ "skipping" \notin Locked /\ "skipping" \notin Late
    BY StepNames DEF Late
  <2> HIDE DEF Locked
  <2> QED
    BY <1>2, <2>1, <2>2, <2>3, <2>4, WorkerStep
<1> QED
  BY <1>1, <1>3, <1>4

\* The workflow lock is taken.
LEMMA TakeLockKeeps ==
  ASSUME ResearchInv, NEW w \in Workers, TakeLock(w)
  PROVE  ResearchInv'
<1>1. /\ stage[w] = "waiting" /\ lock = Nobody /\ lock' = w /\ stage' = [stage EXCEPT ![w] = "checking"]
      /\ UNCHANGED <<log, states, reports, miner, warmups, interruptions>>
      /\ day' = [day EXCEPT ![w] = day[w]] /\ failuresSeen' = [failuresSeen EXCEPT ![w] = failuresSeen[w]]
      /\ position' = [position EXCEPT ![w] = position[w]]
  BY SameWorker DEF TakeLock, Goto, other
<1>2. Files(w)
  BY <1>1, QuietFiles, SameWorker
<1>3. /\ day[w] \in Days /\ Published(day[w] - 1) /\ day[w] \in 0..LastDay /\ day[w] > warmups
      /\ failuresSeen[w] \in SUBSET Days /\ position[w] \in Nat /\ position[w] <= Len(log')
  BY <1>1, WorkerFacts DEF WorkerOK, DayFollows, Late
<1>4. "checking" \in WorkerSteps /\ "checking" \in Locked
  BY StepNames
<1>a. PICK d, F, p : d = day[w] /\ F = failuresSeen[w] /\ p = position[w]
  OBVIOUS
<1>5. Evidenced(d, "checking", F, p)'
  BY DEF Evidenced
<1> HIDE DEF Locked
<1> QED
  BY <1>1, <1>2, <1>3, <1>4, <1>5, <1>a, WorkerStep

\* What is recorded is there as long as the files are not changed.
LEMMA SameEvidence ==
  ASSUME UNCHANGED <<log, states, reports>>
  PROVE  /\ \A d, s, F, p : Evidenced(d, s, F, p) => Evidenced(d, s, F, p)'
         /\ \A kind, d : Has(kind, d)' = Has(kind, d)
         /\ \A d : Snapshots(d)' = Snapshots(d)
         /\ \A F, d : Counts(F, d)' = Counts(F, d)
<1>1. /\ \A e : InTheLog(e)' = InTheLog(e)
      /\ \A kind, d : Has(kind, d)' = Has(kind, d)
      /\ \A d : Snapshots(d)' = Snapshots(d)
      /\ \A F, d : Counts(F, d)' = Counts(F, d)
  BY DEF InTheLog, Has, Snapshots, OfKind, Counts, FailuresUpTo
<1>2. ASSUME NEW d, NEW s, NEW F, NEW p, Evidenced(d, s, F, p) PROVE Evidenced(d, s, F, p)'
  BY <1>1, <1>2 DEF Evidenced
<1> QED
  BY <1>1, <1>2

\* The tail is checked.
LEMMA CheckTailKeeps ==
  ASSUME ResearchInv, NEW w \in Workers, CheckTail(w)
  PROVE  ResearchInv'
<1>1. stage[w] = "checking" /\ UNCHANGED <<log, states, reports, miner, warmups, interruptions>>
      /\ (Continue(w, "artifacts") \/ GiveUp(w))
  BY DEF CheckTail, other
<1>2. Files(w)
  BY <1>1, QuietFiles, SameWorker
<1>3. lock = w
  BY <1>1, InsideFacts
<1>4. CASE GiveUp(w)
  BY <1>2, <1>3, <1>4, RaiseStep
<1>5. CASE Continue(w, "artifacts")
  <2>a. PICK d, F, p : d = day[w] /\ F = failuresSeen[w] /\ p = position[w]
    OBVIOUS
  <2>1. /\ stage' = [stage EXCEPT ![w] = "artifacts"] /\ UNCHANGED <<lock, day>>
        /\ failuresSeen' = [failuresSeen EXCEPT ![w] = F] /\ position' = [position EXCEPT ![w] = p]
    BY <1>5, <2>a, SameWorker DEF Continue, Goto, memory
  <2>2. F \in SUBSET Days /\ p \in Nat /\ p <= Len(log)
    BY <2>a, WorkerFacts
  <2>3. Evidenced(d, "artifacts", F, p)'
    BY DEF Evidenced
  <2>4. "artifacts" \in Locked
    OBVIOUS
  <2> HIDE DEF Locked
  <2> QED
    BY <1>2, <1>3, <2>1, <2>2, <2>3, <2>4, <2>a, ContinueStep
<1> QED
  BY <1>1, <1>4, <1>5

\* The accounted failures are read.
LEMMA ReadHistoryKeeps ==
  ASSUME ResearchInv, NEW w \in Workers, ReadHistory(w)
  PROVE  ResearchInv'
<1>a. PICK d, p : d = day[w] /\ p = position[w]
  OBVIOUS
<1>b. PICK F : F = FailuresUpTo(d)
  OBVIOUS
<1>1. /\ stage[w] = "history" /\ stage' = [stage EXCEPT ![w] = "diagnostics"] /\ UNCHANGED <<lock, day>>
      /\ failuresSeen' = [failuresSeen EXCEPT ![w] = F] /\ position' = [position EXCEPT ![w] = p]
      /\ UNCHANGED <<log, states, reports, miner, warmups, interruptions>>
  BY <1>a, <1>b, SameWorker DEF ReadHistory, Goto, other
<1>2. Files(w)
  BY <1>1, QuietFiles, SameWorker
<1>3. lock = w /\ d \in Days /\ Evidenced(d, "history", failuresSeen[w], p)
  BY <1>1, <1>a, InsideFacts
<1>4. F \in SUBSET Days /\ p \in Nat /\ p <= Len(log)
  <2>1. F \subseteq Days
    BY <1>3, <1>b, DayBefore, ResearchAssumption DEF FailuresUpTo, Days
  <2> QED
    BY <1>a, <2>1, WorkerFacts
<1>5. Counts(F, d)
  <2>1. ASSUME NEW k \in DOMAIN log, log[k].kind = "failed", log[k].day \in 1..d
        PROVE  log[k].day \in F
    <3>1. k \in OfKind("failed", log[k].day)
      BY <2>1 DEF OfKind
    <3> QED
      BY <1>b, <2>1, <3>1 DEF FailuresUpTo
  <2> QED
    BY <1>b, <2>1 DEF Counts
<1>6. Evidenced(d, "diagnostics", F, p)'
  <2>1. Has("artifacts", d) /\ Has("evaluation", d) /\ Has("exploration", d) /\ Has("analysis", d)
    BY <1>3 DEF Evidenced
  <2>2. Evidenced(d, "diagnostics", F, p)
    BY <1>5, <2>1 DEF Evidenced
  <2> QED
    BY <1>1, <2>2, SameEvidence
<1>7. "diagnostics" \in Locked
  OBVIOUS
<1> HIDE DEF Locked
<1> QED
  BY <1>1, <1>2, <1>3, <1>4, <1>6, <1>7, <1>a, ContinueStep

\* A snapshot is materialized, or the one that is recorded is verified.
LEMMA FindSnapshotKeeps ==
  ASSUME ResearchInv, NEW w \in Workers, FindSnapshot(w)
  PROVE  ResearchInv'
<1>a. PICK d, F, p : d = day[w] /\ F = failuresSeen[w] /\ p = position[w]
  OBVIOUS
<1>1. stage[w] = "snapshot" /\ UNCHANGED <<log, states, reports, miner, warmups, interruptions>>
  BY DEF FindSnapshot, other
<1>2. Files(w)
  BY <1>1, QuietFiles, SameWorker
<1>3. lock = w /\ d \in Days /\ Published(d - 1) /\ Evidenced(d, "snapshot", F, p)
  BY <1>1, <1>a, InsideFacts
<1>4. F \in SUBSET Days /\ p \in Nat /\ p <= Len(log) /\ Len(log) \in Nat /\ DOMAIN log = 1..Len(log) /\ FilesOK
  BY <1>a, WorkerFacts
<1>5. "materialized" \in Locked /\ "tail" \in Locked
  OBVIOUS
<1>6. CASE Snapshots(d) = {}
  <2>a. PICK q : q = Len(log)
    OBVIOUS
  <2>1. /\ stage' = [stage EXCEPT ![w] = "materialized"] /\ UNCHANGED <<lock, day>>
        /\ failuresSeen' = [failuresSeen EXCEPT ![w] = F] /\ position' = [position EXCEPT ![w] = q]
    BY <1>6, <1>a, <2>a, SameWorker DEF FindSnapshot, Goto
  <2>2. states[d - 1].tail <= q /\ \A k \in DOMAIN log : ~(k > q)
    BY <1>3, <1>4, <2>a, DayBefore DEF FilesOK, StatesOK
  <2>3. Evidenced(d, "materialized", F, q)
    BY <1>3, <1>6, <2>2 DEF Evidenced
  <2>4. Evidenced(d, "materialized", F, q)'
    BY <1>1, <2>3, SameEvidence
  <2>5. q \in Nat /\ q <= Len(log)
    BY <1>4, <2>a
  <2> HIDE DEF Locked
  <2> QED
    BY <1>2, <1>3, <1>4, <1>5, <1>a, <2>1, <2>4, <2>5, ContinueStep
<1>7. CASE Snapshots(d) # {} /\ Continue(w, "tail")
  <2>1. /\ stage' = [stage EXCEPT ![w] = "tail"] /\ UNCHANGED <<lock, day>>
        /\ failuresSeen' = [failuresSeen EXCEPT ![w] = F] /\ position' = [position EXCEPT ![w] = p]
    BY <1>7, <1>a, SameWorker DEF Continue, Goto, memory
  <2>2. Evidenced(d, "tail", F, p)
    BY <1>3, <1>7 DEF Evidenced
  <2>3. Evidenced(d, "tail", F, p)'
    BY <1>1, <2>2, SameEvidence
  <2> HIDE DEF Locked
  <2> QED
    BY <1>2, <1>3, <1>4, <1>5, <1>a, <2>1, <2>3, ContinueStep
<1>8. CASE GiveUp(w)
  BY <1>2, <1>3, <1>8, RaiseStep
<1>9. Snapshots(d) = {} \/ (Snapshots(d) # {} /\ (Continue(w, "tail") \/ GiveUp(w)))
  BY <1>a DEF FindSnapshot
<1> QED
  BY <1>6, <1>7, <1>8, <1>9

\* The tail that the state will be bound to is read.
LEMMA ReadTailKeeps ==
  ASSUME ResearchInv, NEW w \in Workers, ReadTail(w)
  PROVE  ResearchInv'
<1>a. PICK d, F, p : d = day[w] /\ F = failuresSeen[w] /\ p = Len(log)
  OBVIOUS
<1>1. /\ stage[w] = "tail" /\ stage' = [stage EXCEPT ![w] = "state"] /\ UNCHANGED <<lock, day>>
      /\ failuresSeen' = [failuresSeen EXCEPT ![w] = F] /\ position' = [position EXCEPT ![w] = p]
      /\ UNCHANGED <<log, states, reports, miner, warmups, interruptions>>
  BY <1>a, SameWorker DEF ReadTail, Goto, other
<1>2. Files(w)
  BY <1>1, QuietFiles, SameWorker
<1>3. lock = w /\ Evidenced(d, "tail", F, position[w])
  BY <1>1, <1>a, InsideFacts
<1>4. F \in SUBSET Days /\ p \in Nat /\ p <= Len(log) /\ DOMAIN log = 1..p
  BY <1>a, WorkerFacts
<1>5. Evidenced(d, "state", F, p)
  <2>1. \A k \in DOMAIN log : k <= p
    BY <1>4
  <2> QED
    BY <1>3, <2>1 DEF Evidenced
<1>6. Evidenced(d, "state", F, p)'
  BY <1>1, <1>5, SameEvidence
<1>7. "state" \in Locked
  OBVIOUS
<1> HIDE DEF Locked
<1> QED
  BY <1>1, <1>2, <1>3, <1>4, <1>6, <1>7, <1>a, ContinueStep

\* Nothing is accounted for once the session is published.
LEMMA AccountForFailureKeeps ==
  ASSUME ResearchInv, NEW w \in Workers, AccountForFailure(w)
  PROVE  ResearchInv'
<1>1. stage[w] = "accounting" /\ UNCHANGED <<log, states, reports, miner, warmups, interruptions>>
      /\ (Continue(w, "recording") \/ End(w))
  BY DEF AccountForFailure, other
<1>2. Files(w)
  BY <1>1, QuietFiles, SameWorker
<1>3. CASE End(w)
  BY <1>2, <1>3, EndStep
<1>4. CASE Continue(w, "recording")
  <2>1. /\ stage' = [stage EXCEPT ![w] = "recording"] /\ lock' = lock
        /\ day' = [day EXCEPT ![w] = day[w]] /\ failuresSeen' = [failuresSeen EXCEPT ![w] = failuresSeen[w]]
        /\ position' = [position EXCEPT ![w] = position[w]]
    BY <1>4, SameWorker DEF Continue, Goto, memory
  <2>2. day[w] > warmups /\ lock # w
    BY <1>1, InsideFacts, WorkerFacts DEF WorkerOK, DayFollows, Late
  <2>3. /\ day[w] \in Days /\ Published(day[w] - 1) /\ day[w] \in 0..LastDay
        /\ failuresSeen[w] \in SUBSET Days /\ position[w] \in Nat /\ position[w] <= Len(log')
    BY <1>1, WorkerFacts
  <2>4. "recording" \in WorkerSteps /\ "recording" \notin Locked /\ "recording" \notin {"warming", "skipping"}
    BY StepNames
  <2> HIDE DEF Locked
  <2> QED
    BY <1>2, <2>1, <2>2, <2>3, <2>4, WorkerStep
<1> QED
  BY <1>1, <1>3, <1>4

\* A process dies, or a system call fails.
LEMMA FaultKeeps ==
  ASSUME ResearchInv, NEW w \in Workers, WorkerDies(w) \/ Fail(w)
  PROVE  ResearchInv'
<1>1. /\ interruptions < MaxInterruptions /\ interruptions' = interruptions + 1
      /\ UNCHANGED <<log, states, reports, miner, warmups>>
      /\ End(w) \/ (lock = w /\ GiveUp(w))
  BY DEF WorkerDies, Fail
<1>2. interruptions' \in 0..MaxInterruptions
  BY <1>1, SameWorker, ResearchAssumption
<1>3. Files(w)
  BY <1>1, <1>2, QuietFiles, SameWorker
<1> QED
  BY <1>1, <1>3, EndStep, RaiseStep

\* An event of frozen content has its type.
LEMMA PlainIs ==
  ASSUME NEW kind \in Kinds, NEW d \in 0..LastDay
  PROVE  Plain(kind, d) \in LogEvents /\ Plain(kind, d).kind = kind /\ Plain(kind, d).day = d
BY DEF Plain, Event, LogEvents, Frozen

\* What a session has recorded it has once more recorded with the next event.
LEMMA EvidenceGrows ==
  ASSUME NEW s \in DOMAIN NextStep, NEW d, NEW F, NEW p, Evidenced(d, s, F, p),
         Plain(s, d) \in LogEvents, log \in Seq(LogEvents), log' = With(Plain(s, d)), UNCHANGED reports
  PROVE  Evidenced(d, NextStep[s], F, p)'
<1>1. /\ \A f : InTheLog(f) => InTheLog(f)'
      /\ \A kind, c : Has(kind, c) => Has(kind, c)'
      /\ Has("analysis", d) /\ Counts(F, d) => Counts(F, d)'
      /\ Has(s, d)'
  BY EvidenceStays DEF Has
<1>2. ASSUME s = "artifacts" PROVE Evidenced(d, "evaluation", F, p)'
  BY <1>1, <1>2 DEF Evidenced
<1>3. ASSUME s = "evaluation" PROVE Evidenced(d, "exploration", F, p)'
  BY <1>1, <1>3 DEF Evidenced
<1>4. ASSUME s = "exploration" PROVE Evidenced(d, "analysis", F, p)'
  BY <1>1, <1>4 DEF Evidenced
<1>5. ASSUME s = "analysis" PROVE Evidenced(d, "history", F, p)'
  BY <1>1, <1>5 DEF Evidenced
<1>6. ASSUME s = "diagnostics" PROVE Evidenced(d, "report", F, p)'
  BY <1>1, <1>6 DEF Evidenced
<1>7. ASSUME s = "publication" PROVE Evidenced(d, "snapshot", F, p)'
  BY <1>1, <1>7 DEF Evidenced
<1> QED
  BY <1>2, <1>3, <1>4, <1>5, <1>6, <1>7, StepsAre

\* An append of execute_daily whose content is frozen.
LEMMA RecordKeeps ==
  ASSUME ResearchInv, NEW w \in Workers, Record(w)
  PROVE  ResearchInv'
<1>a. PICK d, F, p, s : d = day[w] /\ F = failuresSeen[w] /\ p = position[w] /\ s = stage[w]
  OBVIOUS
<1>b. PICK e : e = Plain(s, d)
  OBVIOUS
<1>1. /\ s \in DOMAIN NextStep /\ log' = With(e) /\ (GiveUp(w) \/ Continue(w, NextStep[s]))
      /\ UNCHANGED <<states, reports, miner, warmups, interruptions>>
  BY <1>a, <1>b DEF Record, other
<1>2. s \in Locked \ {"state"} /\ s \in Kinds /\ s \notin UnlockedKinds \cup {"report", "snapshot"}
  BY <1>1, StepsAre DEF Kinds, UnlockedKinds, MiningKinds
<1>3. /\ lock = w /\ d > warmups /\ d \in Days /\ Published(d - 1) /\ Evidenced(d, s, F, p)
  BY <1>2, <1>a, InsideFacts
<1>4. e \in LogEvents /\ e.kind = s /\ e.day = d
  BY <1>2, <1>3, <1>b, PlainIs, DayBefore
<1>5. InTheLog(e) \/ Appendable(e)
  <2>1. Published(d) => InTheLog(e)
    BY <1>1, <1>3, <1>b, WorkerFacts DEF FilesOK, PublishedIsComplete, Complete, Has
  <2>2. s \notin MiningKinds
    BY <1>2 DEF UnlockedKinds
  <2> QED
    BY <1>2, <1>3, <1>4, <2>1, <2>2 DEF Appendable
<1>6. Files(w)
  BY <1>1, <1>3, <1>4, <1>5, RecordFiles, SameWorker
<1>7. CASE GiveUp(w)
  BY <1>3, <1>6, <1>7, RaiseStep
<1>8. CASE Continue(w, NextStep[s])
  <2>a. PICK t : t = NextStep[s]
    OBVIOUS
  <2>1. /\ stage' = [stage EXCEPT ![w] = t] /\ UNCHANGED <<lock, day>>
        /\ failuresSeen' = [failuresSeen EXCEPT ![w] = F] /\ position' = [position EXCEPT ![w] = p]
    BY <1>8, <1>a, <2>a, SameWorker DEF Continue, Goto, memory
  <2>2. t \in Locked
    BY <1>1, <2>a, StepsAre
  <2>3. Evidenced(d, t, F, p)'
    BY <1>1, <1>3, <1>4, <1>b, <2>a, EvidenceGrows, WorkerFacts
  <2>4. F \in SUBSET Days /\ p \in Nat /\ p <= Len(log)
    BY <1>a, WorkerFacts
  <2> HIDE DEF Locked
  <2> QED
    BY <1>3, <1>6, <1>a, <2>1, <2>2, <2>3, <2>4, ContinueStep
<1> QED
  BY <1>1, <1>7, <1>8

\* The report's event, of the content of the file.
LEMMA RecordReportKeeps ==
  ASSUME ResearchInv, NEW w \in Workers, RecordReport(w)
  PROVE  ResearchInv'
<1>a. PICK d, F, p : d = day[w] /\ F = failuresSeen[w] /\ p = position[w]
  OBVIOUS
<1>b. PICK e : e = Event("report", d, F)
  OBVIOUS
<1>1. /\ stage[w] = "report event" /\ stage' = [stage EXCEPT ![w] = "publication"] /\ log' = With(e)
      /\ failuresSeen' = [failuresSeen EXCEPT ![w] = F] /\ position' = [position EXCEPT ![w] = p]
      /\ UNCHANGED <<lock, day>> /\ UNCHANGED <<states, reports, miner, warmups, interruptions>>
  BY <1>a, <1>b, SameWorker DEF RecordReport, Continue, Goto, memory, other
<1>2. /\ lock = w /\ d > warmups /\ d \in Days /\ Published(d - 1) /\ Evidenced(d, "report event", F, p)
  BY <1>1, <1>a, InsideFacts
<1>3. F \in SUBSET Days /\ p \in Nat /\ p <= Len(log) /\ log \in Seq(LogEvents) /\ FilesOK
  BY <1>a, WorkerFacts
<1>4. e \in LogEvents /\ e.kind = "report" /\ e.day = d /\ e.content = F
  BY <1>2, <1>3, <1>b, DayBefore DEF Event, LogEvents, Kinds, Days
<1>5. reports[d] = F
  BY <1>2 DEF Evidenced
<1>6. InTheLog(e) \/ Appendable(e)
  <2>1. Published(d) => InTheLog(e)
    BY <1>2, <1>3, <1>5, <1>b DEF FilesOK, PublishedIsComplete, Complete
  <2>2. "report" \notin MiningKinds
    BY DEF MiningKinds
  <2> QED
    BY <1>2, <1>4, <1>5, <2>1, <2>2 DEF Appendable
<1>7. Files(w)
  BY <1>1, <1>2, <1>4, <1>6, RecordFiles, SameWorker
<1>8. Evidenced(d, "publication", F, p)'
  <2>1. /\ \A kind, c : Has(kind, c) => Has(kind, c)'
        /\ InTheLog(e)' /\ (Has("analysis", d) /\ Counts(F, d) => Counts(F, d)')
    BY <1>1, <1>3, <1>4, EvidenceStays
  <2> QED
    BY <1>1, <1>2, <1>b, <2>1 DEF Evidenced
<1>9. "publication" \in Locked
  OBVIOUS
<1> HIDE DEF Locked
<1> QED
  BY <1>1, <1>2, <1>3, <1>7, <1>8, <1>9, <1>a, ContinueStep

\* The snapshot's event.
LEMMA RecordSnapshotKeeps ==
  ASSUME ResearchInv, NEW w \in Workers, RecordSnapshot(w)
  PROVE  ResearchInv'
<1>a. PICK d, F, p : d = day[w] /\ F = failuresSeen[w] /\ p = position[w]
  OBVIOUS
<1>b. PICK e : e = Event("snapshot", d, {p})
  OBVIOUS
<1>1. /\ stage[w] = "materialized" /\ stage' = [stage EXCEPT ![w] = "tail"] /\ log' = With(e)
      /\ failuresSeen' = [failuresSeen EXCEPT ![w] = F] /\ position' = [position EXCEPT ![w] = p]
      /\ UNCHANGED <<lock, day>> /\ UNCHANGED <<states, reports, miner, warmups, interruptions>>
  BY <1>a, <1>b, SameWorker DEF RecordSnapshot, Continue, Goto, memory, other
<1>2. /\ lock = w /\ d > warmups /\ d \in Days /\ Published(d - 1) /\ Evidenced(d, "materialized", F, p)
  BY <1>1, <1>a, InsideFacts
<1>3. /\ F \in SUBSET Days /\ p \in Nat /\ p <= Len(log) /\ log \in Seq(LogEvents) /\ FilesOK
      /\ Len(log) \in Nat /\ DOMAIN log = 1..Len(log)
  BY <1>a, WorkerFacts
<1>4. e \in LogEvents /\ e.kind = "snapshot" /\ e.day = d /\ e.content = {p}
  BY <1>2, <1>3, <1>b, DayBefore DEF Event, LogEvents, Kinds
<1>5. Snapshots(d) = {} /\ states[d - 1].tail <= p /\ \A k \in DOMAIN log : k > p => log[k].kind \in UnlockedKinds
  BY <1>2 DEF Evidenced
<1>6. Appendable(e)
  <2>1. ~Published(d)
    BY <1>2, <1>3, <1>5 DEF FilesOK, PublishedIsComplete, Complete
  <2>2. "snapshot" \notin MiningKinds
    BY DEF MiningKinds
  <2>3. p \in 0..Len(log) /\ \A j \in p + 1..Len(log) : log[j].kind \in UnlockedKinds
    BY <1>3, <1>5
  <2> QED
    BY <1>2, <1>4, <1>5, <2>1, <2>2, <2>3 DEF Appendable
<1>7. Files(w)
  BY <1>1, <1>2, <1>4, <1>6, RecordFiles, SameWorker
<1>8. Evidenced(d, "tail", F, p)'
  <2>1. /\ \A f : InTheLog(f) => InTheLog(f)'
        /\ \A kind, c : Has(kind, c) => Has(kind, c)'
        /\ InTheLog(e)' /\ (Has("analysis", d) /\ Counts(F, d) => Counts(F, d)')
    BY <1>1, <1>3, <1>4, EvidenceStays
  <2>2. Snapshots(d)' # {}
    BY <1>4, <2>1 DEF InTheLog, Snapshots, OfKind
  <2> QED
    BY <1>1, <1>2, <2>1, <2>2 DEF Evidenced
<1>9. "tail" \in Locked
  OBVIOUS
<1> HIDE DEF Locked
<1> QED
  BY <1>1, <1>2, <1>3, <1>7, <1>8, <1>9, <1>a, ContinueStep

\* A failure is accounted for.
LEMMA RecordFailureKeeps ==
  ASSUME ResearchInv, NEW w \in Workers, RecordFailure(w)
  PROVE  ResearchInv'
<1>a. PICK d : d = day[w]
  OBVIOUS
<1>1. /\ stage[w] = "recording" /\ End(w) /\ UNCHANGED <<states, reports, miner, warmups, interruptions>>
      /\ \E reason \in Reasons : log' = With(Event("failed", d, {reason}))
  BY <1>a DEF RecordFailure, other
<1>2. PICK reason \in Reasons : log' = With(Event("failed", d, {reason}))
  BY <1>1
<1>b. PICK e : e = Event("failed", d, {reason})
  OBVIOUS
<1>3. d \in Days /\ Published(d - 1)
  BY <1>1, <1>a, WorkerFacts
<1>4. e \in LogEvents /\ e.kind = "failed" /\ e.day = d
  BY <1>3, <1>b, DayBefore, ResearchAssumption DEF Event, LogEvents, Kinds, UnlockedKinds
<1>5. Appendable(e) /\ e.kind \in UnlockedKinds
  BY <1>3, <1>4 DEF Appendable, UnlockedKinds
<1>6. Files(w)
  BY <1>1, <1>2, <1>b, <1>4, <1>5, RecordFiles, SameWorker
<1> QED
  BY <1>1, <1>6, EndStep

\* The lineage event of a skipped session.
LEMMA SkipWarmupKeeps ==
  ASSUME ResearchInv, NEW w \in Workers, SkipWarmup(w)
  PROVE  ResearchInv'
<1>a. PICK d, F, p : d = day[w] /\ F = failuresSeen[w]
                     /\ p = IF InTheLog(Plain("warmup", d)) THEN PlaceOf(Plain("warmup", d)) ELSE Len(log) + 1
  OBVIOUS
<1>b. PICK e : e = Plain("warmup", d)
  OBVIOUS
<1>1. /\ stage[w] = "skipping" /\ stage' = [stage EXCEPT ![w] = "state"] /\ log' = With(e)
      /\ failuresSeen' = [failuresSeen EXCEPT ![w] = F] /\ position' = [position EXCEPT ![w] = p]
      /\ day' = [day EXCEPT ![w] = d] /\ lock' = lock
      /\ UNCHANGED <<states, reports, miner, warmups, interruptions>>
  BY <1>a, <1>b, SameWorker DEF SkipWarmup, Goto, other
<1>2. d \in Days /\ Published(d - 1) /\ d <= warmups /\ lock # w
  BY <1>1, <1>a, InsideFacts, WorkerFacts DEF WorkerOK, DayFollows
<1>3. /\ F \in SUBSET Days /\ log \in Seq(LogEvents) /\ Len(log) \in Nat /\ DOMAIN log = 1..Len(log)
      /\ d \in 0..LastDay /\ d \in Nat /\ warmups \in Nat
  BY <1>2, <1>a, WorkerFacts, DayBefore
<1>4. e \in LogEvents /\ e.kind = "warmup" /\ e.day = d
  <2>1. "warmup" \in Kinds
    BY DEF Kinds, UnlockedKinds
  <2> QED
    BY <1>3, <1>b, <2>1, PlainIs
<1>5. Appendable(e) /\ e.kind \in UnlockedKinds
  BY <1>2, <1>4 DEF Appendable, UnlockedKinds
<1>6. Files(w)
  BY <1>1, <1>4, <1>5, RecordFiles, SameWorker
<1>7. p \in DOMAIN log' /\ log'[p] = e /\ p \in Nat /\ p <= Len(log')
  <2>0. log' = IF InTheLog(e) THEN log ELSE Append(log, e)
    BY <1>1, <1>3, <1>4, WithIs
  <2>1. CASE InTheLog(e)
    <3>1. p \in DOMAIN log /\ log[p] = e
      BY <1>a, <1>b, <2>1 DEF InTheLog, PlaceOf
    <3> QED
      BY <1>3, <2>0, <2>1, <3>1
  <2>2. CASE ~InTheLog(e)
    BY <1>3, <1>4, <1>a, <1>b, <2>0, <2>2, AppendFacts
  <2> QED
    BY <2>1, <2>2
<1>8. ~(d > warmups) /\ "state" \in WorkerSteps /\ "state" \notin Late /\ "state" \notin {"warming", "skipping"}
  BY <1>2, <1>3, NotLess, StepNames DEF Late
<1> HIDE DEF Locked
<1> QED
  BY <1>1, <1>2, <1>3, <1>6, <1>7, <1>8, <1>b, WorkerStep

\* The report is written, or it is there.
LEMMA WriteReportKeeps ==
  ASSUME ResearchInv, NEW w \in Workers, WriteReport(w)
  PROVE  ResearchInv'
<1>a. PICK d, F, p : d = day[w] /\ F = failuresSeen[w] /\ p = position[w]
  OBVIOUS
<1>1. stage[w] = "report" /\ UNCHANGED <<log, states, miner, warmups, interruptions>>
  BY DEF WriteReport, other
<1>2. lock = w /\ d \in Days /\ Evidenced(d, "report", F, p)
  BY <1>1, <1>a, InsideFacts
<1>3. F \in SUBSET Days /\ p \in Nat /\ p <= Len(log) /\ Len(log) \in Nat /\ FilesOK
  BY <1>a, WorkerFacts
<1>4. CASE reports[d] \notin {NoReport, F}
  <2>1. GiveUp(w) /\ UNCHANGED reports
    BY <1>4, <1>a DEF WriteReport
  <2>2. Files(w)
    BY <1>1, <2>1, QuietFiles, SameWorker
  <2> QED
    BY <1>2, <2>1, <2>2, RaiseStep
<1>5. CASE reports[d] \in {NoReport, F}
  <2>1. /\ reports' = [reports EXCEPT ![d] = F]
        /\ stage' = [stage EXCEPT ![w] = "report event"] /\ UNCHANGED <<lock, day>>
        /\ failuresSeen' = [failuresSeen EXCEPT ![w] = F] /\ position' = [position EXCEPT ![w] = p]
    BY <1>5, <1>a, SameWorker DEF WriteReport, Continue, Goto, memory
  <2>2. Has("analysis", d) /\ Counts(F, d)
    BY <1>2 DEF Evidenced
  <2>3. FilesOK'
    BY <1>1, <1>2, <1>3, <1>5, <2>1, <2>2, ReportKeeps
  <2>4. Files(w)
    BY <1>1, <1>2, <1>3, <2>3, SameWorker DEF Files
  <2>5. Evidenced(d, "report event", F, p)'
    <3>1. reports'[d] = F /\ F # NoReport
      <4>1. reports \in [Days -> SUBSET Int] /\ -1 \notin Days
        BY <1>3 DEF FilesOK, ReportsOK, Days
      <4> QED
        BY <1>2, <1>3, <2>1, <4>1 DEF NoReport
    <3>2. /\ \A kind, c : Has(kind, c)' = Has(kind, c)
          /\ \A G, c : Counts(G, c)' = Counts(G, c)
      BY <1>1 DEF InTheLog, Has, Counts, OfKind, FailuresUpTo
    <3> QED
      BY <1>2, <3>1, <3>2 DEF Evidenced
  <2>6. "report event" \in Locked
    OBVIOUS
  <2> HIDE DEF Locked
  <2> QED
    BY <1>2, <1>3, <1>a, <2>1, <2>4, <2>5, <2>6, ContinueStep
<1> QED
  BY <1>4, <1>5

\* The state is published, or one is there.
LEMMA WriteStateKeeps ==
  ASSUME ResearchInv, NEW w \in Workers, WriteState(w)
  PROVE  ResearchInv'
<1>a. PICK d, F, p : d = day[w] /\ F = failuresSeen[w] /\ p = position[w]
  OBVIOUS
<1>1. /\ stage[w] = "state" /\ UNCHANGED <<log, reports, miner, warmups, interruptions>>
      /\ (lock = w /\ GiveUp(w)) \/ End(w)
  BY DEF WriteState, other
<1>2. /\ d \in Days /\ Published(d - 1) /\ F \in SUBSET Days /\ p \in Nat /\ p <= Len(log) /\ Len(log) \in Nat
      /\ DOMAIN log = 1..Len(log) /\ FilesOK /\ warmups \in Nat /\ d \in Nat /\ d - 1 \in 0..LastDay /\ d \in 0..LastDay
  BY <1>1, <1>a, WorkerFacts, DayBefore
<1>3. Files(w)
  <2>1. CASE Published(d)
    <3>1. UNCHANGED states
      BY <1>a, <2>1 DEF WriteState
    <3> QED
      BY <1>1, <3>1, QuietFiles, SameWorker
  <2>2. CASE ~Published(d)
    <3>1. states' = [states EXCEPT ![d] = [tail |-> p, failures |-> F]]
      BY <1>a, <2>2 DEF WriteState, StateOf
    <3>2. states[d - 1].tail \in Nat
      BY <1>2 DEF FilesOK, StatesOK
    <3>3. CASE d <= warmups
      <4>1. p \in DOMAIN log /\ log[p] = Plain("warmup", d)
        BY <1>1, <1>a, <3>3, WorkerFacts DEF WorkerOK, WarmupRecorded
      <4>2. log[p].kind \notin MiningKinds /\ log[p].day = d
        BY <4>1 DEF Plain, Event, MiningKinds
      <4>3. p > states[d - 1].tail
        BY <1>2, <4>1, <4>2 DEF FilesOK, LogOK, Follows
      <4>4. states[d - 1].tail <= p /\ ~(d > warmups)
        BY <1>2, <3>2, <3>3, <4>3
      <4>5. FilesOK'
        BY <1>1, <1>2, <2>2, <3>1, <4>4, StateKeeps
      <4> QED
        BY <1>1, <1>2, <2>2, <3>1, <4>5, SameWorker DEF Files, Published
    <3>4. CASE ~(d <= warmups)
      <4>1. d > warmups
        BY <1>2, <3>4
      <4>2. Evidenced(d, "state", F, p)
        BY <1>1, <1>a, <4>1, WorkerFacts DEF WorkerOK, Evaluates
      <4>3. Complete(d)
        BY <4>2, StepsAre DEF Evidenced, Complete
      <4>4. \A k \in DOMAIN log : log[k].kind \notin UnlockedKinds => k <= p
        BY <4>2 DEF Evidenced
      <4>5. states[d - 1].tail <= p
        <5>1. PICK k \in DOMAIN log : log[k] = Plain("artifacts", d)
          BY <4>2 DEF Evidenced, Has, InTheLog
        <5>2. log[k].kind \notin UnlockedKinds /\ log[k].kind \notin MiningKinds /\ log[k].day = d
          BY <5>1 DEF Plain, Event, UnlockedKinds, MiningKinds
        <5>3. k > states[d - 1].tail /\ k <= p
          BY <1>2, <4>4, <5>2 DEF FilesOK, LogOK, Follows
        <5> QED
          BY <1>2, <3>2, <5>3
      <4>6. FilesOK'
        BY <1>1, <1>2, <2>2, <3>1, <4>3, <4>4, <4>5, StateKeeps
      <4> QED
        BY <1>1, <1>2, <2>2, <3>1, <4>6, SameWorker DEF Files, Published
    <3> QED
      BY <3>3, <3>4
  <2> QED
    BY <2>1, <2>2
<1> QED
  BY <1>1, <1>3, RaiseStep, EndStep

\* Mining changes no file but the ledger, and nothing of a worker.
LEMMA MiningKeeps ==
  ASSUME ResearchInv, StartMining \/ RecordMining \/ MinerDies
  PROVE  ResearchInv'
<1>1. UNCHANGED <<states, reports, stage, warmups>> /\ UNCHANGED <<lock, day, failuresSeen, position>>
  BY DEF StartMining, RecordMining, MinerDies, memory
<1>2. miner' \in {"idle", "mined", "failed"} /\ interruptions' \in 0..MaxInterruptions
  <2>1. interruptions \in 0..MaxInterruptions /\ MaxInterruptions \in Nat /\ miner \in {"idle", "mined", "failed"}
    BY ResearchAssumption DEF ResearchInv, WorkersTyped
  <2>2. CASE StartMining
    <3>1. miner' \in {"mined", "failed"} /\ interruptions' = interruptions + 1 /\ interruptions < MaxInterruptions
      BY <2>2 DEF StartMining
    <3> QED
      BY <2>1, <3>1
  <2>3. CASE RecordMining \/ MinerDies
    <3>1. miner' = "idle" /\ interruptions' = interruptions
      BY <2>3 DEF RecordMining, MinerDies
    <3> QED
      BY <2>1, <3>1
  <2> QED
    BY <2>2, <2>3
<1>3. Files(Nobody)
  <2>1. CASE log' = log
    BY <1>1, <1>2, <2>1, QuietFiles
  <2>2. CASE RecordMining
    <3>1. PICK kind \in MiningKinds : log' = With(Plain(kind, 0))
      BY <2>2 DEF RecordMining, MiningKinds
    <3>a. PICK e : e = Plain(kind, 0)
      OBVIOUS
    <3>2. kind \in Kinds /\ kind \in UnlockedKinds /\ 0 \in 0..LastDay /\ kind \notin {"report", "snapshot"}
      <4>1. 0 \in 0..LastDay
        BY ResearchAssumption
      <4>2. kind = "mining" \/ kind = "mining failed"
        BY DEF MiningKinds
      <4> QED
        BY <4>1, <4>2 DEF Kinds, UnlockedKinds, MiningKinds
    <3>3. e \in LogEvents /\ e.kind = kind
      BY <3>2, <3>a, PlainIs
    <3>4. Appendable(e)
      BY <3>2, <3>3 DEF Appendable
    <3> QED
      BY <1>1, <1>2, <3>1, <3>2, <3>3, <3>4, <3>a, RecordFiles
  <2> QED
    BY <2>1, <2>2 DEF StartMining, MinerDies
<1>4. ASSUME NEW u \in Workers PROVE WorkerOK(u)'
  <2>1. u # Nobody
    BY WorkerFacts
  <2> QED
    BY <1>1, <1>3, <2>1, OtherKeeps
<1>5. FilesOK'
  BY <1>3 DEF Files
<1>6. WorkersTyped'
  <2>1. Len(log) \in Nat /\ Len(log') \in Nat /\ Len(log) <= Len(log')
    BY <1>3, Lengths
  <2>2. \A u \in Workers : position'[u] <= Len(log')
    <3> SUFFICES ASSUME NEW u \in Workers PROVE position'[u] <= Len(log')
      OBVIOUS
    <3>1. position[u] \in Nat /\ position[u] <= Len(log) /\ position'[u] = position[u]
      BY <1>1 DEF ResearchInv, WorkersTyped
    <3> QED
      BY <2>1, <3>1
  <2> QED
    BY <1>1, <1>2, <2>2 DEF ResearchInv, WorkersTyped
<1> QED
  BY <1>4, <1>5, <1>6 DEF ResearchInv

-----------------------------------------------------------------------------
(* The invariant and the theorems.                                         *)

LEMMA InitHolds == ResearchInit => ResearchInv
<1> SUFFICES ASSUME ResearchInit PROVE ResearchInv
  OBVIOUS
<1>1. /\ log = << >> /\ Len(log) = 0 /\ DOMAIN log = {} /\ log \in Seq(LogEvents)
      /\ \A d \in 0..LastDay : states[d] = IF d = 0 THEN [tail |-> 0, failures |-> {}] ELSE NoState
      /\ DOMAIN states = 0..LastDay /\ states = [d \in 0..LastDay |-> states[d]]
      /\ \A w \in Workers : stage[w] = "idle"
  BY DEF ResearchInit
<1>2. \A d \in 0..LastDay : Published(d) <=> d = 0
  BY <1>1 DEF Published, NoState
<1>3. WorkersTyped
  <2>1. "idle" \in WorkerSteps
    BY StepNames
  <2>2. /\ lock \in Workers \cup {Nobody} /\ day \in [Workers -> 0..LastDay] /\ stage \in [Workers -> WorkerSteps]
        /\ failuresSeen \in [Workers -> SUBSET Days] /\ position \in [Workers -> Nat]
    BY <2>1, ResearchAssumption DEF ResearchInit
  <2>3. \A w \in Workers : position[w] <= Len(log)
    BY <1>1 DEF ResearchInit
  <2>4. miner = "idle" /\ warmups \in WarmupCounts /\ interruptions \in 0..MaxInterruptions
    BY ResearchAssumption DEF ResearchInit
  <2> QED
    BY <2>2, <2>3, <2>4 DEF WorkersTyped
<1>4. FilesOK
  <2>1. LogOK
    BY <1>1 DEF LogOK
  <2>2. StatesOK
    <3>1. [tail |-> 0, failures |-> {}] \in States /\ NoState \in States
      BY DEF States, NoState
    <3>2. states \in [0..LastDay -> States]
      BY <1>1, <3>1
    <3>3. \A d \in 0..LastDay : states[d].tail <= Len(log) /\ (Published(d) => states[d].tail \in Nat)
      BY <1>1, <1>2 DEF NoState
    <3>4. Published(0)
      BY <1>2, ResearchAssumption
    <3>5. \A c, d \in 0..LastDay : c <= d /\ d = 0 => c = 0
      OBVIOUS
    <3> QED
      BY <1>1, <1>2, <3>2, <3>3, <3>4, <3>5 DEF StatesOK
  <2>3. PublishedIsComplete
    BY <1>2, ResearchAssumption DEF PublishedIsComplete, Days
  <2>4. ReportsOK
    <3>1. reports \in [Days -> SUBSET Int] /\ \A d \in Days : reports[d] = NoReport
      BY DEF ResearchInit, NoReport
    <3> QED
      BY <3>1 DEF ReportsOK
  <2> QED
    BY <2>1, <2>2, <2>3, <2>4 DEF FilesOK
<1>5. ASSUME NEW w \in Workers PROVE WorkerOK(w)
  <2>1. stage[w] = "idle" /\ lock # w /\ "idle" \notin Late
    BY <1>1, ResearchAssumption DEF ResearchInit, Nobody, Late
  <2> QED
    BY <2>1 DEF WorkerOK, DayFollows, Evaluates, WarmupRecorded
<1> QED
  BY <1>3, <1>4, <1>5 DEF ResearchInv

LEMMA StepKeeps ==
  ASSUME ResearchInv, [ResearchNext]_researchVars
  PROVE  ResearchInv'
<1>1. CASE UNCHANGED researchVars
  <2>1. UNCHANGED <<log, states, reports, lock, stage, day, failuresSeen, position, miner, warmups, interruptions>>
    BY <1>1 DEF researchVars, memory, other
  <2>2. miner' \in {"idle", "mined", "failed"} /\ interruptions' \in 0..MaxInterruptions
    BY <2>1 DEF ResearchInv, WorkersTyped
  <2>3. Files(Nobody)
    BY <2>1, <2>2, QuietFiles
  <2>4. ASSUME NEW u \in Workers PROVE WorkerOK(u)'
    <3>1. u # Nobody
      BY WorkerFacts
    <3> QED
      BY <2>1, <2>3, <3>1, OtherKeeps
  <2>5. FilesOK' /\ WorkersTyped'
    BY <2>1, <2>3 DEF Files, ResearchInv, WorkersTyped
  <2> QED
    BY <2>4, <2>5 DEF ResearchInv
<1>2. ASSUME NEW w \in Workers, Schedule(w) \/ TakeLock(w) \/ WorkerDies(w) \/ Fail(w) PROVE ResearchInv'
  BY <1>2, StartKeeps, TakeLockKeeps, FaultKeeps DEF Schedule
<1>3. ASSUME NEW w \in Workers, Work(w) PROVE ResearchInv'
  BY <1>3, CheckWarmupKeeps, SkipWarmupKeeps, CheckTailKeeps, RecordKeeps, ReadHistoryKeeps,
     WriteReportKeeps, RecordReportKeeps, FindSnapshotKeeps, RecordSnapshotKeeps, ReadTailKeeps,
     WriteStateKeeps, AccountForFailureKeeps, RecordFailureKeeps DEF Work
<1> QED
  BY <1>1, <1>2, <1>3, MiningKeeps DEF ResearchNext

LEMMA Inductive == ResearchSpec => []ResearchInv
<1>1. ResearchInv /\ [ResearchNext]_researchVars => ResearchInv'
  BY StepKeeps
<1> QED
  BY <1>1, InitHolds, PTL DEF ResearchSpec

\* For any number of processes, sessions, deaths, failed calls and runs of
\* mine-alpha, at any moment: one report event, of the file that is there, and
\* one snapshot event, of the events before it but for what was recorded
\* beside the workflow lock (write_daily_report, materialize_snapshot).
THEOREM PublicationStaysSound == ResearchSpec => []PublicationIsSound
<1>1. ResearchInv => PublicationIsSound
  <2> SUFFICES ASSUME ResearchInv PROVE PublicationIsSound
    OBVIOUS
  <2>0. log \in Seq(LogEvents) /\ Len(log) \in Nat /\ DOMAIN log = 1..Len(log) /\ FilesOK
    BY LenProperties DEF ResearchInv, FilesOK, LogOK
  <2>1. ResearchTypeOK
    <3>1. \A k \in DOMAIN log : log[k].day \in 0..LastDay
      <4> SUFFICES ASSUME NEW k \in DOMAIN log PROVE log[k].day \in 0..LastDay
        OBVIOUS
      <4>1. log[k] \in LogEvents
        BY <2>0, ElementOfSeq
      <4> QED
        BY <4>1 DEF LogEvents
    <3>2. \A d \in 0..LastDay : states[d].tail \in -1..Len(log) /\ states[d].failures \subseteq Days
      <4> SUFFICES ASSUME NEW d \in 0..LastDay
                   PROVE  states[d].tail \in -1..Len(log) /\ states[d].failures \subseteq Days
        OBVIOUS
      <4>1. states[d] \in States /\ states[d].tail <= Len(log)
        BY <2>0 DEF FilesOK, StatesOK
      <4>2. states[d].tail \in Nat \cup {-1} /\ states[d].failures \subseteq Days
        BY <4>1 DEF States
      <4> QED
        BY <2>0, <4>1, <4>2
    <3>3. \A d \in Days : reports[d] = NoReport \/ reports[d] \subseteq Days
      <4> SUFFICES ASSUME NEW d \in Days, reports[d] # NoReport PROVE reports[d] \subseteq Days
        OBVIOUS
      <4>1. reports[d] \subseteq FailuresUpTo(d)
        BY <2>0 DEF FilesOK, ReportsOK, Counts
      <4> QED
        BY <4>1, ResearchAssumption DEF FailuresUpTo, Days
    <3>4. position \in [Workers -> 0..Len(log)]
      <4>1. /\ position \in [Workers -> Nat]
            /\ \A w \in Workers : position[w] <= Len(log)
        BY DEF ResearchInv, WorkersTyped
      <4> QED
        BY <2>0, <4>1
    <3> QED
      BY <3>1, <3>2, <3>3, <3>4 DEF ResearchInv, WorkersTyped, ResearchTypeOK
  <2>2. PublicationIsConsistent
    <3> SUFFICES ASSUME NEW d \in Days
                 PROVE  /\ \A k \in OfKind("report", d) : log[k].content = reports[d]
                        /\ Cardinality(Snapshots(d)) <= 1
                        /\ \A k \in Snapshots(d) : \E n \in 0..k - 1 :
                             /\ log[k].content = {n}
                             /\ \A j \in n + 1..k - 1 : log[j].kind \in UnlockedKinds
      BY DEF PublicationIsConsistent
    <3>1. \A k \in OfKind("report", d) : log[k].content = reports[d]
      BY <2>0 DEF FilesOK, LogOK, OfKind
    <3>2. ASSUME NEW k \in Snapshots(d)
          PROVE  /\ Snapshots(d) = {k}
                 /\ \E n \in 0..k - 1 : /\ log[k].content = {n}
                                        /\ \A j \in n + 1..k - 1 : log[j].kind \in UnlockedKinds
      <4>1. k \in DOMAIN log /\ k \in Nat /\ log[k].day = d /\ log[k].kind = "snapshot"
        BY <2>0 DEF Snapshots, OfKind
      <4>2. Snapped(k)
        BY <2>0, <4>1 DEF FilesOK, LogOK
      <4>3. PICK n \in Nat : /\ log[k].content = {n} /\ n < k
                             /\ \A j \in n + 1..k - 1 : log[j].kind \in UnlockedKinds
        BY <4>2 DEF Snapped
      <4>4. n \in 0..k - 1
        BY <4>1, <4>3
      <4> QED
        BY <4>1, <4>2, <4>3, <4>4 DEF Snapped
    <3>3. Cardinality(Snapshots(d)) <= 1
      <4>1. CASE Snapshots(d) = {}
        BY <4>1, FS_EmptySet
      <4>2. CASE Snapshots(d) # {}
        <5>1. PICK k \in Snapshots(d) : TRUE
          BY <4>2
        <5>2. Snapshots(d) = {k}
          BY <3>2, <5>1
        <5> QED
          <6>1. Cardinality(Snapshots(d)) = 1
            BY <5>2, FS_Singleton
          <6> QED
            BY <6>1
      <4> QED
        BY <4>1, <4>2
    <3> QED
      BY <3>1, <3>2, <3>3
  <2> QED
    BY <2>1, <2>2 DEF PublicationIsSound
<1> QED
  BY <1>1, Inductive, PTL

\* However attempts were interrupted, what they left refuses the next session
\* exactly when an event recorded beside the workflow lock does: no event and
\* no file of an attempt inside the lock ever stands in the way of a retry
\* (_tail_is_resumable, _atomic_create_once, verify_snapshot).
THEOREM IntrusionsBlockRetries == ResearchSpec => []OnlyIntrusionsBlockRetries
<1>1. ResearchInv => OnlyIntrusionsBlockRetries
  <2> SUFFICES ASSUME ResearchInv, NEW d \in Days, ~Published(d), Published(d - 1)
               PROVE  WillBeAccepted(d) <=> ~Disturbed(d)
    BY DEF OnlyIntrusionsBlockRetries, NextUp
  <2>0. /\ log \in Seq(LogEvents) /\ Len(log) \in Nat /\ DOMAIN log = 1..Len(log) /\ FilesOK
        /\ d - 1 \in 0..LastDay /\ d \in 0..LastDay /\ d \in Nat /\ warmups \in Nat
        /\ states[d - 1].tail \in Nat /\ states[d - 1].tail <= Len(log)
    <3>1. /\ log \in Seq(LogEvents) /\ Len(log) \in Nat /\ DOMAIN log = 1..Len(log) /\ FilesOK /\ warmups \in Nat
      BY LenProperties, ResearchAssumption DEF ResearchInv, FilesOK, LogOK, WorkersTyped
    <3>2. d - 1 \in 0..LastDay /\ d \in 0..LastDay /\ d \in Nat
      BY DayBefore
    <3> QED
      BY <3>1, <3>2 DEF FilesOK, StatesOK
  <2>a. PICK t : t = states[d - 1].tail
    OBVIOUS
  \* What was recorded in the lock follows the last state only if it is d's.
  <2>1. ASSUME NEW k \in DOMAIN log, k > t, log[k].kind \notin UnlockedKinds
        PROVE  log[k].day = d /\ d > warmups
    <3>a. PICK e : e = log[k].day
      OBVIOUS
    <3>1. log[k].kind \notin MiningKinds
      BY <2>1 DEF UnlockedKinds
    <3>2. e \in Days /\ Published(e - 1) /\ e > warmups /\ (Published(e) => k <= states[e].tail)
      BY <2>0, <2>1, <3>1, <3>a DEF FilesOK, LogOK, Follows
    <3>3. e - 1 \in 0..LastDay /\ e \in 0..LastDay /\ e \in Nat
      BY <3>2, DayBefore
    <3>4. \A b, c \in 0..LastDay : b <= c /\ Published(c) => Published(b) /\ states[b].tail <= states[c].tail
      BY <2>0 DEF FilesOK, StatesOK
    <3>5. ~(d <= e - 1)
      BY <2>0, <3>2, <3>3, <3>4
    <3>6. ~(e <= d - 1)
      <4> SUFFICES ASSUME e <= d - 1 PROVE FALSE
        OBVIOUS
      <4>1. Published(e) /\ states[e].tail <= t
        BY <2>0, <2>a, <3>3, <3>4
      <4>2. states[e].tail \in Nat
        BY <2>0, <3>3, <4>1 DEF FilesOK, StatesOK
      <4> QED
        BY <2>0, <2>1, <2>a, <3>2, <4>1, <4>2
    <3>7. e = d
      BY <2>0, <3>3, <3>5, <3>6
    <3> QED
      BY <3>2, <3>7, <3>a
  <2>2. CASE d <= warmups
    <3>1. WillBeAccepted(d) <=> Len(log) = t
      BY <2>2, <2>a DEF WillBeAccepted
    <3>2. Disturbed(d) <=> \E k \in DOMAIN log : k > t
      <4>1. ~(d > warmups)
        BY <2>0, <2>2, NotLess
      <4>2. \A k \in DOMAIN log : k > t => log[k].kind \in UnlockedKinds
        BY <2>1, <4>1
      <4> QED
        BY <2>2, <2>a, <4>2 DEF Disturbed, Intrudes
    <3>3. (\E k \in DOMAIN log : k > t) <=> Len(log) # t
      <4>1. t \in Nat /\ t <= Len(log)
        BY <2>0, <2>a
      <4>2. ASSUME NEW k \in DOMAIN log, k > t PROVE Len(log) # t
        <5>1. k \in 1..Len(log) /\ Len(log) \in Nat
          BY <2>0
        <5> QED
          BY <4>1, <4>2, <5>1
      <4>3. ASSUME Len(log) # t PROVE Len(log) \in DOMAIN log /\ Len(log) > t
        <5> HIDE DEF FilesOK
        <5>1. PICK n : n = Len(log)
          OBVIOUS
        <5>2. n \in Nat /\ DOMAIN log = 1..n
          BY <2>0, <5>1
        <5>3. n \in 1..n /\ n > t
          BY ONLY <4>1, <4>3, <5>1, <5>2
        <5> QED
          BY ONLY <5>1, <5>2, <5>3
      <4> QED
        BY <4>2, <4>3
    <3> QED
      BY <3>1, <3>2, <3>3
  <2>3. CASE ~(d <= warmups)
    <3>1. WillBeAccepted(d) <=> /\ TailIsResumable(d)
                                /\ reports[d] \in {NoReport, FailuresUpTo(d)}
                                /\ \A k \in Snapshots(d) : SnapshotVerifies(k)
      BY <2>3 DEF WillBeAccepted
    <3>2. ASSUME Disturbed(d) PROVE ~WillBeAccepted(d)
      <4>1. PICK k \in DOMAIN log : Intrudes(d, k)
        BY <3>2 DEF Disturbed
      <4>2. CASE ~Resumable(d, log[k])
        BY <3>1, <4>1, <4>2 DEF Intrudes, TailIsResumable
      <4>3. CASE Resumable(d, log[k]) /\ log[k].kind = "failed" /\ reports[d] # NoReport /\ log[k].day \notin reports[d]
        <5>1. log[k].day = d
          BY <4>3 DEF Resumable
        <5>2. d \in FailuresUpTo(d)
          BY <2>0, <4>3, <5>1 DEF FailuresUpTo, OfKind, Days
        <5> QED
          BY <3>1, <4>3, <5>1, <5>2
      <4>4. ASSUME NEW m \in Snapshots(d), k < m, \A n \in log[m].content : n < k PROVE ~WillBeAccepted(d)
        <5>1. m \in Nat /\ k \in Nat
          BY <2>0 DEF Snapshots, OfKind
        <5>2. ~SnapshotVerifies(m)
          BY <4>4, <5>1 DEF SnapshotVerifies
        <5> QED
          BY <3>1, <5>2
      <4> QED
        BY <2>3, <4>1, <4>2, <4>3, <4>4 DEF Intrudes
    <3>3. ASSUME ~Disturbed(d) PROVE WillBeAccepted(d)
      <4>1. TailIsResumable(d)
        <5> SUFFICES ASSUME NEW k \in DOMAIN log, k > t PROVE Resumable(d, log[k])
          BY <2>a DEF TailIsResumable
        <5>1. CASE log[k].kind \in UnlockedKinds
          BY <3>3, <5>1, <2>a DEF Disturbed, Intrudes
        <5>2. CASE log[k].kind \notin UnlockedKinds
          BY <2>1, <5>2 DEF Resumable
        <5> QED
          BY <5>1, <5>2
      <4>2. ASSUME reports[d] # NoReport PROVE reports[d] = FailuresUpTo(d)
        <5>1. Counts(reports[d], d)
          BY <2>0, <4>2 DEF FilesOK, ReportsOK
        <5>2. ASSUME NEW c \in FailuresUpTo(d), c \notin reports[d] PROVE FALSE
          <6>1. PICK k \in DOMAIN log : log[k].kind = "failed" /\ log[k].day = c
            BY <5>2 DEF FailuresUpTo, OfKind
          <6>2. log[k].day \in (1..d) \ reports[d]
            BY <5>2, <6>1 DEF FailuresUpTo
          <6>3. PICK j \in 1..k - 1 : log[j] = Plain("analysis", d)
            BY <5>1, <6>1, <6>2 DEF Counts
          <6>4. j \in DOMAIN log /\ log[j].kind \notin MiningKinds /\ log[j].day = d /\ j < k /\ k \in Nat /\ j \in Nat
            BY <2>0, <6>3 DEF Plain, Event, MiningKinds
          <6>5. j > t
            BY <2>0, <2>a, <6>4 DEF FilesOK, LogOK, Follows
          <6>6. k > t
            BY <2>0, <2>a, <6>4, <6>5
          <6>7. Intrudes(d, k)
            BY <2>a, <4>2, <5>2, <6>1, <6>3, <6>6 DEF Intrudes, UnlockedKinds
          <6> QED
            BY <3>3, <6>7 DEF Disturbed
        <5> QED
          BY <5>1, <5>2 DEF Counts
      <4>3. ASSUME NEW k \in Snapshots(d) PROVE SnapshotVerifies(k)
        <5>1. k \in DOMAIN log /\ k \in Nat /\ log[k].day = d /\ log[k].kind = "snapshot"
          BY <2>0 DEF Snapshots, OfKind
        <5>2. PICK n \in Nat : /\ log[k].content = {n} /\ n < k /\ t <= n
                               /\ \A j \in n + 1..k - 1 : log[j].kind \in UnlockedKinds
          BY <2>0, <2>a, <5>1 DEF FilesOK, LogOK, Snapped
        <5>3. CASE n = k - 1
          BY <5>2, <5>3 DEF SnapshotVerifies
        <5>4. CASE n # k - 1
          <6>1. n + 1 \in n + 1..k - 1 /\ n + 1 \in DOMAIN log /\ n + 1 > t /\ n + 1 < k
            BY <2>0, <2>a, <5>1, <5>2, <5>4
          <6>2. Intrudes(d, n + 1)
            BY <2>a, <5>2, <6>1 DEF Intrudes
          <6> QED
            BY <3>3, <6>1, <6>2 DEF Disturbed
        <5> QED
          BY <5>3, <5>4
      <4> QED
        BY <3>1, <4>1, <4>2, <4>3
    <3> QED
      BY <3>2, <3>3
  <2> QED
    BY <2>2, <2>3
<1> QED
  BY <1>1, Inductive, PTL
=============================================================================
