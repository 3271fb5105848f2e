------------------------- MODULE TempBanExpiryProof --------------------------
(***************************************************************************)
(* For any number of clients, addresses and hours: the types of            *)
(* TempBanExpiry, that the map of a client holds what its vector holds,    *)
(* what a pass removes although it erases from the vector while it goes    *)
(* through it, and what can end a ban that still runs.                     *)
(*                                                                         *)
(* The map can only follow the vector if every list that a client is given *)
(* holds an address once: so do the files that are uploaded, the server's  *)
(* list and its answers, and whoever adds an address sends it alone.  What *)
(* ends a running ban follows from OldRemovals: as long as nobody lifts a  *)
(* ban, every removal on its way is of one that has run out.               *)
(***************************************************************************)
EXTENDS TempBanExpiry, FiniteSetTheorems, FunctionTheorems, TLAPS

\* Datagrams: an added ban comes alone, a list holds an address once.
Messages ==
  [type : {"hello"}, bans : {{}}]
    \cup [type : {"add"}, bans : {{b} : b \in Entries}]
    \cup [type : {"remove"}, bans : SUBSET Entries]
    \cup [type : {"upload", "bans"}, bans : {S \in SUBSET Entries : OnePerKey(S)}]

\* Every address once.
Once(seq) == \A i, j \in DOMAIN seq : seq[i].key = seq[j].key => i = j

\* The vector and the map of a client agree.
Agree(v, m) == v \in Seq(Entries) /\ Once(v) /\ m = Keys(ToSet(v))

Types ==
  /\ now \in 0 .. MaxTime
  /\ srv \subseteq Entries /\ OnePerKey(srv)
  /\ tomb \subseteq Key
  /\ known \subseteq up /\ up \subseteq Client /\ uploaded \subseteq up
  /\ vec \in [Client -> Seq(Entries)] /\ map \in [Client -> SUBSET Key]
  /\ c2s \in [Client -> Seq(Messages)] /\ s2c \in [Client -> Seq(Messages)]
  /\ late \in [Client -> Nat]
  /\ due \in [Key -> Times \cup {0}]

LateOnes ==
  \A c \in Client : /\ late[c] <= Len(c2s[c])
                    /\ c \notin up => late[c] = Len(c2s[c])

ListsAgree == \A c \in Client : Agree(vec[c], map[c])

IInv == Types /\ LateOnes /\ ListsAgree

-----------------------------------------------------------------------------
(* Those elements of a sequence that are in a set.                         *)

\* Kept is a fold, if the set goes with it.
Keep(x, e) == [set |-> x.set, seq |-> IF e \in x.set THEN Append(x.seq, e) ELSE x.seq]
Keeping    == INSTANCE FoldLemmas WITH Step <- Keep

\* One element more is kept if it is in the set.
LEMMA KeepIs ==
  ASSUME NEW x, NEW e
  PROVE  /\ Keep(x, e).set = x.set
         /\ Keep(x, e).seq = IF e \in x.set THEN Append(x.seq, e) ELSE x.seq
BY DEF Keep

\* h[i] is what is kept of the first i elements.
KeepsBy(h, s, S) ==
  /\ h[0] = <<>>
  /\ \A i \in 1 .. Len(s) : h[i] = IF s[i] \in S THEN Append(h[i - 1], s[i]) ELSE h[i - 1]

\* The recursive function in Kept exists: the fold gives one.
LEMMA KeptIs ==
  ASSUME NEW S, NEW M, NEW s \in Seq(M)
  PROVE  \E h : KeepsBy(h, s, S) /\ Kept(s, S) = h[Len(s)]
<1> DEFINE n == Len(s)
           P(k) == k = [i \in 0 .. n |->
                          IF i = 0 THEN <<>>
                          ELSE IF s[i] \in S THEN Append(k[i - 1], s[i]) ELSE k[i - 1]]
<1>1. n \in Nat /\ DOMAIN s = 1 .. n
  OBVIOUS
<1>2. PICK g : Keeping!IsRun(g, [set |-> S, seq |-> <<>>], s, n)
  <2> HIDE DEF n
  <2> QED
    BY <1>1, Keeping!FoldIsRun
<1>3. \A i \in 0 .. n : g[i].set = S
  <2> DEFINE G == {i \in 0 .. n : g[i].set = S}
  <2>1. 0 \in G
    BY <1>1, <1>2 DEF Keeping!IsRun
  <2>2. \A i \in 1 .. n : i - 1 \in G => i \in G
    <3> SUFFICES ASSUME NEW i \in 1 .. n, i - 1 \in G PROVE g[i].set = S
      BY <1>1
    <3>1. g[i] = Keep(g[i - 1], s[i])
      BY <1>2 DEF Keeping!IsRun
    <3> QED
      BY <3>1, KeepIs
  <2>3. \A i \in 0 .. n : i \in G
    <3> HIDE DEF G, n
    <3> QED
      BY <1>1, <2>1, <2>2, Keeping!UpTo
  <2> QED
    BY <2>3
<1> DEFINE k == [i \in 0 .. n |-> g[i].seq]
<1>4. P(k)
  <2>1. ASSUME NEW i \in 0 .. n
        PROVE  k[i] = IF i = 0 THEN <<>>
                      ELSE IF s[i] \in S THEN Append(k[i - 1], s[i]) ELSE k[i - 1]
    <3>1. CASE i = 0
      BY <1>2, <3>1 DEF Keeping!IsRun
    <3>2. CASE i # 0
      <4>1. i \in 1 .. n /\ i - 1 \in 0 .. n
        BY <1>1, <3>2
      <4>2. g[i] = Keep(g[i - 1], s[i])
        BY <1>2, <4>1 DEF Keeping!IsRun
      <4> QED
        BY <1>3, <3>2, <4>1, <4>2, KeepIs
    <3> QED
      BY <3>1, <3>2
  <2> QED
    BY <2>1
<1> DEFINE h == CHOOSE x : P(x)
<1>5. P(h)
  <2> HIDE DEF P, k
  <2> QED
    BY <1>4
<1>6. Kept(s, S) = h[n]
  BY DEF Kept
<1>7. KeepsBy(h, s, S)
  <2> HIDE DEF h
  <2>1. 0 \in 0 .. n /\ \A i \in 1 .. n : i \in 0 .. n /\ i # 0
    BY <1>1
  <2> QED
    BY <1>5, <2>1 DEF KeepsBy
<1> QED
  BY <1>6, <1>7

\* Nothing of nothing.
LEMMA KeptOfNothing == ASSUME NEW S PROVE Kept(<<>>, S) = <<>>
<1>1. <<>> \in Seq({}) /\ Len(<<>>) = 0
  OBVIOUS
<1>2. PICK h : KeepsBy(h, <<>>, S) /\ Kept(<<>>, S) = h[Len(<<>>)]
  BY <1>1, KeptIs
<1>3. h[0] = <<>>
  BY <1>2 DEF KeepsBy
<1> QED
  BY <1>1, <1>2, <1>3

\* One more element.
LEMMA KeptOfAppend ==
  ASSUME NEW S, NEW M, NEW s \in Seq(M), NEW e \in M
  PROVE  Kept(Append(s, e), S) = IF e \in S THEN Append(Kept(s, S), e) ELSE Kept(s, S)
<1> DEFINE n == Len(s)
           t == Append(s, e)
<1>1. /\ n \in Nat /\ t \in Seq(M) /\ Len(t) = n + 1 /\ t[n + 1] = e
      /\ \A i \in 1 .. n : t[i] = s[i]
  OBVIOUS
<1>2. PICK g : KeepsBy(g, s, S) /\ Kept(s, S) = g[n]
  BY KeptIs
<1> HIDE DEF t
<1>3. PICK h : KeepsBy(h, t, S) /\ Kept(t, S) = h[n + 1]
  BY <1>1, KeptIs
<1> DEFINE Good == {i \in 0 .. n : g[i] = h[i]}
<1>4. 0 \in Good
  BY <1>1, <1>2, <1>3 DEF KeepsBy
<1>5. ASSUME NEW i \in 1 .. n, i - 1 \in Good PROVE i \in Good
  <2>1. i \in 1 .. Len(t) /\ t[i] = s[i] /\ g[i - 1] = h[i - 1] /\ i \in 0 .. n
    BY <1>1, <1>5
  <2>2. g[i] = IF s[i] \in S THEN Append(g[i - 1], s[i]) ELSE g[i - 1]
    BY <1>2 DEF KeepsBy
  <2>3. h[i] = IF t[i] \in S THEN Append(h[i - 1], t[i]) ELSE h[i - 1]
    BY <1>3, <2>1 DEF KeepsBy
  <2> QED
    BY <2>1, <2>2, <2>3
<1>6. g[n] = h[n]
  <2>1. \A i \in 0 .. n : i \in Good
    <3> HIDE DEF Good, n
    <3> QED
      BY <1>1, <1>4, <1>5, Keeping!UpTo
  <2> QED
    BY <1>1, <2>1
<1>7. h[n + 1] = IF t[n + 1] \in S THEN Append(h[n], t[n + 1]) ELSE h[n]
  <2>1. n + 1 \in 1 .. Len(t) /\ (n + 1) - 1 = n
    BY <1>1
  <2> QED
    BY <1>3, <2>1 DEF KeepsBy
<1> QED
  BY <1>1, <1>2, <1>3, <1>6, <1>7 DEF t

\* The elements of a sequence with one more.
LEMMA SetOfAppend ==
  ASSUME NEW M, NEW s \in Seq(M), NEW e \in M
  PROVE  /\ Append(s, e) \in Seq(M) /\ Len(Append(s, e)) = Len(s) + 1
         /\ ToSet(Append(s, e)) = ToSet(s) \cup {e}
<1> DEFINE t == Append(s, e)
<1>1. t \in Seq(M) /\ Len(t) = Len(s) + 1 /\ t[Len(t)] = e
  OBVIOUS
<1>2. \A i \in DOMAIN s : i \in DOMAIN t /\ t[i] = s[i]
  OBVIOUS
<1>3. \A i \in DOMAIN t : i \in DOMAIN s \/ i = Len(t)
  OBVIOUS
<1>4. Len(t) \in DOMAIN t
  OBVIOUS
<1> QED
  BY <1>1, <1>2, <1>3, <1>4 DEF ToSet

\* The address is not in the sequence yet.
LEMMA OnceOfAppend ==
  ASSUME NEW M, NEW s \in Seq(M), NEW e \in M, Once(s), \A x \in ToSet(s) : x.key # e.key
  PROVE  Once(Append(s, e))
<1> DEFINE t == Append(s, e)
<1>1. /\ Len(s) \in Nat /\ DOMAIN s = 1 .. Len(s) /\ DOMAIN t = 1 .. Len(s) + 1
      /\ t[Len(s) + 1] = e /\ \A i \in DOMAIN s : t[i] = s[i]
  OBVIOUS
<1>2. \A i \in DOMAIN s : s[i].key # e.key
  BY DEF ToSet
<1> HIDE DEF t
<1>3. ASSUME NEW i \in DOMAIN t, NEW j \in DOMAIN t, t[i].key = t[j].key PROVE i = j
  <2>1. CASE i \in DOMAIN s /\ j \in DOMAIN s
    BY <1>1, <1>3, <2>1 DEF Once
  <2>2. CASE i \notin DOMAIN s \/ j \notin DOMAIN s
    BY <1>1, <1>2, <1>3, <2>2
  <2> QED
    BY <2>1, <2>2
<1>4. Once(t)
  BY <1>3 DEF Once
<1> QED
  BY <1>4 DEF t

\* What is kept, as a set, and that no address comes twice.
LEMMA KeptFacts ==
  ASSUME NEW S, NEW M, NEW s \in Seq(M)
  PROVE  /\ Kept(s, S) \in Seq(M) /\ ToSet(Kept(s, S)) = ToSet(s) \cap S
         /\ Once(s) => Once(Kept(s, S))
<1> DEFINE n == Len(s)
           Upto(i) == {s[j] : j \in 1 .. i}
<1>1. n \in Nat /\ DOMAIN s = 1 .. n /\ \A i \in 1 .. n : s[i] \in M
  OBVIOUS
<1>2. PICK h : KeepsBy(h, s, S) /\ Kept(s, S) = h[n]
  BY KeptIs
<1> DEFINE Good == {i \in 0 .. n : /\ h[i] \in Seq(M) /\ ToSet(h[i]) = Upto(i) \cap S
                                   /\ Once(s) => Once(h[i])}
<1>3. 0 \in Good
  <2>1. h[0] = <<>>
    BY <1>2 DEF KeepsBy
  <2>2. <<>> \in Seq(M) /\ ToSet(<<>>) = {} /\ Upto(0) = {} /\ Once(<<>>)
    BY DEF ToSet, Once
  <2>3. 0 \in 0 .. n
    BY <1>1
  <2> HIDE DEF n, Upto
  <2> QED
    BY <2>1, <2>2, <2>3
<1>4. ASSUME NEW i \in 1 .. n, i - 1 \in Good PROVE i \in Good
  <2>1. /\ h[i - 1] \in Seq(M) /\ ToSet(h[i - 1]) = Upto(i - 1) \cap S
        /\ Once(s) => Once(h[i - 1])
    BY <1>4
  <2>2. i \in 0 .. n /\ Upto(i) = Upto(i - 1) \cup {s[i]} /\ s[i] \in M
    BY <1>1
  <2>3. h[i] = IF s[i] \in S THEN Append(h[i - 1], s[i]) ELSE h[i - 1]
    BY <1>2 DEF KeepsBy
  <2>4. ASSUME Once(s) PROVE \A x \in Upto(i - 1) : x.key # s[i].key
    BY <1>1, <2>4 DEF Once
  <2> HIDE DEF Upto
  <2>5. CASE s[i] \in S
    <3>1. /\ h[i] = Append(h[i - 1], s[i]) /\ h[i] \in Seq(M)
          /\ ToSet(h[i]) = ToSet(h[i - 1]) \cup {s[i]}
      BY <2>1, <2>2, <2>3, <2>5, SetOfAppend
    <3>2. Once(s) => Once(h[i])
      BY <2>1, <2>2, <2>4, <3>1, OnceOfAppend
    <3> QED
      BY <2>1, <2>2, <2>5, <3>1, <3>2
  <2>6. CASE s[i] \notin S
    BY <2>1, <2>2, <2>3, <2>6
  <2> QED
    BY <2>5, <2>6
<1>5. n \in Good
  <2>1. \A i \in 0 .. n : i \in Good
    <3> HIDE DEF Good, n
    <3> QED
      BY <1>1, <1>3, <1>4, Keeping!UpTo
  <2>2. n \in 0 .. n
    BY <1>1
  <2> HIDE DEF Good, n
  <2> QED
    BY <2>1, <2>2
<1>6. Upto(n) = ToSet(s)
  BY <1>1 DEF ToSet
<1> QED
  BY <1>2, <1>5, <1>6

\* All but one: the ones after it move up.
LEMMA KeptButOne ==
  ASSUME NEW S, NEW M, NEW s \in Seq(M), NEW p \in DOMAIN s,
         \A i \in DOMAIN s : s[i] \in S <=> i # p
  PROVE  /\ Len(Kept(s, S)) = Len(s) - 1
         /\ \A i \in 1 .. Len(s) - 1 : Kept(s, S)[i] = IF i < p THEN s[i] ELSE s[i + 1]
<1> DEFINE n == Len(s)
<1>1. n \in Nat /\ DOMAIN s = 1 .. n /\ \A i \in 1 .. n : s[i] \in M
  OBVIOUS
<1>2. PICK h : KeepsBy(h, s, S) /\ Kept(s, S) = h[n]
  BY KeptIs
<1> DEFINE L(i) == IF i < p THEN i ELSE i - 1
           Good == {i \in 0 .. n : /\ h[i] \in Seq(M) /\ Len(h[i]) = L(i)
                                   /\ \A j \in 1 .. L(i) : h[i][j] = IF j < p THEN s[j] ELSE s[j + 1]}
<1>3. 0 \in Good
  <2>1. h[0] = <<>>
    BY <1>2 DEF KeepsBy
  <2>2. L(0) = 0 /\ 1 .. L(0) = {} /\ 0 \in 0 .. n
    BY <1>1
  <2>3. <<>> \in Seq(M) /\ Len(<<>>) = 0
    OBVIOUS
  <2> HIDE DEF L, n
  <2> QED
    BY <2>1, <2>2, <2>3
<1>4. ASSUME NEW i \in 1 .. n, i - 1 \in Good PROVE i \in Good
  <2>1. /\ h[i - 1] \in Seq(M) /\ Len(h[i - 1]) = L(i - 1) /\ i \in 0 .. n /\ i \in Nat
        /\ \A j \in 1 .. L(i - 1) : h[i - 1][j] = IF j < p THEN s[j] ELSE s[j + 1]
    BY <1>1, <1>4
  <2>2. h[i] = IF i # p THEN Append(h[i - 1], s[i]) ELSE h[i - 1]
    BY <1>1, <1>2 DEF KeepsBy
  <2>3. CASE i = p
    <3>1. L(i) = i - 1 /\ L(i - 1) = i - 1
      BY <1>1, <2>3
    <3> QED
      BY <2>1, <2>2, <2>3, <3>1
  <2>4. CASE i # p
    <3>1. L(i) = L(i - 1) + 1 /\ L(i - 1) \in Nat
      BY <1>1, <2>4
    <3>2. /\ h[i] \in Seq(M) /\ Len(h[i]) = L(i - 1) + 1
          /\ h[i][L(i - 1) + 1] = s[i]
          /\ \A j \in 1 .. L(i - 1) : h[i][j] = h[i - 1][j]
      <4> DEFINE k == h[i - 1]
      <4>1. k \in Seq(M) /\ Len(k) = L(i - 1) /\ s[i] \in M /\ h[i] = Append(k, s[i])
        BY <1>1, <2>1, <2>2, <2>4
      <4> HIDE DEF k, L
      <4>2. \A j \in 1 .. Len(k) : Append(k, s[i])[j] = k[j]
        BY <4>1
      <4> QED
        BY <4>1, <4>2 DEF k
    <3>3. s[i] = IF L(i) < p THEN s[L(i)] ELSE s[L(i) + 1]
      BY <1>1, <2>4
    <3>4. \A j \in 1 .. L(i) : j \in 1 .. L(i - 1) \/ j = L(i - 1) + 1
      <4> HIDE DEF L
      <4> QED
        BY <3>1
    <3>5. \A j \in 1 .. L(i) : h[i][j] = IF j < p THEN s[j] ELSE s[j + 1]
      <4> HIDE DEF L
      <4> QED
        BY <2>1, <3>1, <3>2, <3>3, <3>4
    <3> HIDE DEF L
    <3> QED
      BY <2>1, <3>1, <3>2, <3>5
  <2> QED
    BY <2>3, <2>4
<1>5. n \in Good
  <2>1. \A i \in 0 .. n : i \in Good
    <3> HIDE DEF Good, n
    <3> QED
      BY <1>1, <1>3, <1>4, Keeping!UpTo
  <2>2. n \in 0 .. n
    BY <1>1
  <2> HIDE DEF Good, n
  <2> QED
    BY <2>1, <2>2
<1>6. L(n) = n - 1
  <2>1. p <= n /\ p \in Nat /\ n \in Nat
    BY <1>1
  <2> HIDE DEF n
  <2>2. ~ (n < p)
    BY <2>1
  <2> QED
    BY <2>2
<1>7. Len(h[n]) = L(n) /\ \A j \in 1 .. L(n) : h[n][j] = IF j < p THEN s[j] ELSE s[j + 1]
  BY <1>5
<1> HIDE DEF L
<1> QED
  BY <1>2, <1>6, <1>7

\* To keep fewer of what has been kept is to keep fewer.
LEMMA KeptTwice ==
  ASSUME NEW S, NEW U, NEW M, NEW s \in Seq(M), \A x \in ToSet(s) : x \in U => x \in S
  PROVE  Kept(Kept(s, S), U) = Kept(s, U)
<1> DEFINE n == Len(s)
<1>1. n \in Nat /\ DOMAIN s = 1 .. n /\ \A i \in 1 .. n : s[i] \in M /\ s[i] \in ToSet(s)
  BY DEF ToSet
<1>2. PICK h : KeepsBy(h, s, S) /\ Kept(s, S) = h[n]
  BY KeptIs
<1>3. PICK g : KeepsBy(g, s, U) /\ Kept(s, U) = g[n]
  BY KeptIs
<1> DEFINE Good == {i \in 0 .. n : h[i] \in Seq(M) /\ Kept(h[i], U) = g[i]}
<1>4. 0 \in Good
  <2>1. h[0] = <<>> /\ g[0] = <<>>
    BY <1>2, <1>3 DEF KeepsBy
  <2>2. <<>> \in Seq(M) /\ 0 \in 0 .. n
    BY <1>1
  <2> HIDE DEF n
  <2> QED
    BY <2>1, <2>2, KeptOfNothing
<1>5. ASSUME NEW i \in 1 .. n, i - 1 \in Good PROVE i \in Good
  <2>1. h[i - 1] \in Seq(M) /\ Kept(h[i - 1], U) = g[i - 1] /\ i \in 0 .. n
    BY <1>5
  <2>2. /\ h[i] = IF s[i] \in S THEN Append(h[i - 1], s[i]) ELSE h[i - 1]
        /\ g[i] = IF s[i] \in U THEN Append(g[i - 1], s[i]) ELSE g[i - 1]
    BY <1>2, <1>3 DEF KeepsBy
  <2>3. CASE s[i] \in S
    <3>1. s[i] \in M /\ h[i] = Append(h[i - 1], s[i])
      BY <1>1, <2>2, <2>3
    <3>2. /\ h[i] \in Seq(M)
          /\ Kept(h[i], U) = IF s[i] \in U THEN Append(Kept(h[i - 1], U), s[i])
                             ELSE Kept(h[i - 1], U)
      <4> DEFINE k == h[i - 1]
      <4>1. k \in Seq(M) /\ s[i] \in M /\ h[i] = Append(k, s[i])
        BY <2>1, <3>1
      <4> HIDE DEF k
      <4>2. Append(k, s[i]) \in Seq(M)
        BY <4>1, SetOfAppend
      <4>3. Kept(Append(k, s[i]), U) =
              IF s[i] \in U THEN Append(Kept(k, U), s[i]) ELSE Kept(k, U)
        BY <4>1, KeptOfAppend
      <4> QED
        BY <4>1, <4>2, <4>3 DEF k
    <3> QED
      BY <2>1, <2>2, <3>2
  <2>4. CASE s[i] \notin S
    BY <1>1, <2>1, <2>2, <2>4
  <2> QED
    BY <2>3, <2>4
<1>6. n \in Good
  <2>1. \A i \in 0 .. n : i \in Good
    <3> HIDE DEF Good, n
    <3> QED
      BY <1>1, <1>4, <1>5, Keeping!UpTo
  <2>2. n \in 0 .. n
    BY <1>1
  <2> HIDE DEF Good, n
  <2> QED
    BY <2>1, <2>2
<1> QED
  BY <1>2, <1>3, <1>6

-----------------------------------------------------------------------------
(* How long a list is, and what lists a set can be written as.             *)

\* There are as many elements as positions when no address comes twice.
LEMMA LenIsCount ==
  ASSUME NEW M, NEW s \in Seq(M), Once(s)
  PROVE  /\ IsFiniteSet(ToSet(s)) /\ Cardinality(ToSet(s)) = Len(s)
         /\ IsFiniteSet(Keys(ToSet(s))) /\ Cardinality(Keys(ToSet(s))) = Len(s)
<1> DEFINE n == Len(s)
           f == [i \in 1 .. n |-> s[i]]
           g == [i \in 1 .. n |-> s[i].key]
<1>1. n \in Nat /\ DOMAIN s = 1 .. n
  OBVIOUS
<1> HIDE DEF n
<1>2. IsFiniteSet(1 .. n) /\ Cardinality(1 .. n) = n
  BY <1>1, FS_Interval
<1>3. ExistsBijection(1 .. n, ToSet(s))
  <2>1. f \in [1 .. n -> ToSet(s)] /\ \A y \in ToSet(s) : \E i \in 1 .. n : f[i] = y
    BY <1>1 DEF ToSet
  <2>2. \A i, j \in 1 .. n : f[i] = f[j] => i = j
    BY <1>1 DEF Once
  <2> HIDE DEF f
  <2>3. f \in Bijection(1 .. n, ToSet(s))
    BY <2>1, <2>2, Fun_IsBij
  <2> QED
    BY <2>3 DEF ExistsBijection
<1>4. ExistsBijection(1 .. n, Keys(ToSet(s)))
  <2>1. g \in [1 .. n -> Keys(ToSet(s))] /\ \A y \in Keys(ToSet(s)) : \E i \in 1 .. n : g[i] = y
    BY <1>1 DEF ToSet, Keys
  <2>2. \A i, j \in 1 .. n : g[i] = g[j] => i = j
    BY <1>1 DEF Once
  <2> HIDE DEF g
  <2>3. g \in Bijection(1 .. n, Keys(ToSet(s)))
    BY <2>1, <2>2, Fun_IsBij
  <2> QED
    BY <2>3 DEF ExistsBijection
<1> QED
  BY <1>2, <1>3, <1>4, FS_Bijection DEF n

\* A set with an address once is finite, for the addresses are.
LEMMA ListIsFinite ==
  ASSUME NEW S \in SUBSET Entries, OnePerKey(S)
  PROVE  IsFiniteSet(S)
<1> DEFINE f == [b \in S |-> b.key]
<1>1. f \in [S -> Key] /\ \A b, d \in S : f[b] = f[d] => b = d
  BY DEF Entries, OnePerKey
<1> HIDE DEF f
<1>2. f \in Injection(S, Key)
  BY <1>1, Fun_IsInj
<1> QED
  BY <1>2, FS_Injection, TempBanExpiryAssumption

\* A list in any order holds what the set holds, and an address once.
LEMMA ListOfSet ==
  ASSUME NEW S \in SUBSET Entries, OnePerKey(S), NEW v \in SetToSeqs(S)
  PROVE  v \in Seq(Entries) /\ ToSet(v) = S /\ Once(v)
<1> DEFINE n == Cardinality(S)
<1>1. IsFiniteSet(S) /\ n \in Nat
  BY ListIsFinite, FS_CardinalityType
<1>2. v \in [1 .. n -> S] /\ \A i, j \in 1 .. n : v[i] = v[j] => i = j
  BY DEF SetToSeqs
<1>3. v \in Injection(1 .. n, S)
  <2> HIDE DEF n
  <2> QED
    BY <1>2, Fun_IsInj
<1>4. Cardinality(1 .. n) = n
  <2> HIDE DEF n
  <2> QED
    BY <1>1, FS_Interval
<1>5. v \in Surjection(1 .. n, S)
  BY <1>1, <1>3, <1>4, FS_Injection
<1> HIDE DEF n
<1>6. \A b \in S : \E i \in 1 .. n : v[i] = b
  BY <1>5 DEF Surjection
<1>7. v \in Seq(Entries) /\ DOMAIN v = 1 .. n
  BY <1>1, <1>2
<1>8. ToSet(v) = S
  BY <1>2, <1>6, <1>7 DEF ToSet
<1>9. Once(v)
  BY <1>2, <1>7 DEF Once, OnePerKey
<1> QED
  BY <1>7, <1>8, <1>9

\* The other way round.
LEMMA SetOfList ==
  ASSUME NEW s \in Seq(Entries), Once(s)
  PROVE  ToSet(s) \in SUBSET Entries /\ OnePerKey(ToSet(s))
<1>1. DOMAIN s = 1 .. Len(s) /\ \A i \in 1 .. Len(s) : s[i] \in Entries
  OBVIOUS
<1> QED
  BY <1>1 DEF ToSet, Once, OnePerKey

\* The oldest datagram, and the rest.
LEMMA SetOfTail ==
  ASSUME NEW M, NEW s \in Seq(M), s # <<>>
  PROVE  Head(s) \in M /\ Tail(s) \in Seq(M) /\ Len(s) = Len(Tail(s)) + 1
OBVIOUS

\* A datagram, by its type.
LEMMA MessagesAre ==
  /\ \A m \in Messages :
       /\ m.type \in {"hello", "add", "remove", "upload", "bans"} /\ m.bans \in SUBSET Entries
       /\ m.type = "add" => \E b \in Entries : m.bans = {b}
       /\ m.type \in {"upload", "bans"} => OnePerKey(m.bans)
  /\ Msg("hello", {}) \in Messages
  /\ \A b \in Entries : Msg("add", {b}) \in Messages
  /\ \A S \in SUBSET Entries : Msg("remove", S) \in Messages
  /\ \A S \in SUBSET Entries : OnePerKey(S) =>
       Msg("upload", S) \in Messages /\ Msg("bans", S) \in Messages
<1>1. /\ Msg("hello", {}) \in Messages
      /\ \A b \in Entries : Msg("add", {b}) \in Messages
      /\ \A S \in SUBSET Entries : Msg("remove", S) \in Messages
      /\ \A S \in SUBSET Entries : OnePerKey(S) =>
           Msg("upload", S) \in Messages /\ Msg("bans", S) \in Messages
  BY DEF Messages, Msg
<1>2. ASSUME NEW m \in Messages
      PROVE  /\ m.type \in {"hello", "add", "remove", "upload", "bans"} /\ m.bans \in SUBSET Entries
             /\ m.type = "add" => \E b \in Entries : m.bans = {b}
             /\ m.type \in {"upload", "bans"} => OnePerKey(m.bans)
  <2>1. CASE m \in [type : {"hello"}, bans : {{}}]
    BY <2>1
  <2>2. CASE m \in [type : {"add"}, bans : {{b} : b \in Entries}]
    BY <2>2
  <2>3. CASE m \in [type : {"remove"}, bans : SUBSET Entries]
    BY <2>3
  <2>4. CASE m \in [type : {"upload", "bans"}, bans : {S \in SUBSET Entries : OnePerKey(S)}]
    BY <2>4
  <2> QED
    BY <2>1, <2>2, <2>3, <2>4 DEF Messages
<1> QED
  BY <1>1, <1>2

\* Times are numbers.
LEMMA TimesAre == Times \subseteq Nat /\ \A b \in Entries : b.key \in Key /\ b.until \in Nat
<1>1. 0 .. MaxTime \subseteq Nat /\ Hours \subseteq Nat
  BY TempBanExpiryAssumption
<1> DEFINE S == {{t, t + h} : t \in 0 .. MaxTime, h \in Hours}
<1>2. \A x \in S : x \subseteq Nat
  BY <1>1
<1>3. UNION S \subseteq Nat
  <2> HIDE DEF S
  <2> QED
    BY <1>2
<1>4. Times \subseteq Nat
  BY <1>3 DEF Times
<1> QED
  BY <1>4 DEF Entries

\* When a ban ends.
LEMMA TimeIs ==
  ASSUME NEW t \in 0 .. MaxTime, NEW h \in Hours
  PROVE  t + h \in Times
<1> DEFINE S == {{u, u + g} : u \in 0 .. MaxTime, g \in Hours}
<1>1. {t, t + h} \in S
  OBVIOUS
<1>2. t + h \in UNION S
  <2> HIDE DEF S
  <2> QED
    BY <1>1
<1> QED
  BY <1>2 DEF Times

\* A ban by its two fields.
LEMMA EntryIs ==
  ASSUME NEW k \in Key, NEW t \in Times
  PROVE  Entry(k, t) \in Entries /\ Entry(k, t).key = k /\ Entry(k, t).until = t
BY DEF Entry, Entries

-----------------------------------------------------------------------------
(* The list of a client.                                                   *)

\* Removing an address keeps vector and map together.
LEMMA RemovedIs ==
  ASSUME NEW list, Agree(list.vec, list.map), NEW k
  PROVE  /\ Removed(list, k).vec = Kept(list.vec, Others(k))
         /\ Removed(list, k).map = list.map \ {k}
         /\ Agree(Removed(list, k).vec, Removed(list, k).map)
<1> DEFINE v == Kept(list.vec, Others(k))
<1>1. Removed(list, k).vec = v /\ Removed(list, k).map = list.map \ {k}
  BY DEF Removed
<1>2. v \in Seq(Entries) /\ ToSet(v) = ToSet(list.vec) \cap Others(k) /\ Once(v)
  BY KeptFacts DEF Agree
<1>3. ToSet(list.vec) \subseteq Entries
  BY SetOfList DEF Agree
<1> HIDE DEF v
<1>4. Keys(ToSet(v)) = Keys(ToSet(list.vec)) \ {k}
  BY <1>2, <1>3 DEF Keys, Others
<1> QED
  BY <1>1, <1>2, <1>4 DEF Agree, v

\* So does adding one that is not there yet.
LEMMA AddedIs ==
  ASSUME NEW v, NEW m, Agree(v, m), NEW b \in Entries, b.key \notin m
  PROVE  Agree(Append(v, b), m \cup {b.key})
<1>1. /\ Append(v, b) \in Seq(Entries) /\ ToSet(Append(v, b)) = ToSet(v) \cup {b}
  BY SetOfAppend DEF Agree
<1>2. \A x \in ToSet(v) : x.key # b.key
  BY DEF Agree, Keys
<1>3. Once(Append(v, b))
  BY <1>2, OnceOfAppend DEF Agree
<1>4. Keys(ToSet(v) \cup {b}) = Keys(ToSet(v)) \cup {b.key}
  BY DEF Keys
<1> QED
  BY <1>1, <1>3, <1>4 DEF Agree

\* And a list from the server.
LEMMA ListIs ==
  ASSUME NEW S \in SUBSET Entries, OnePerKey(S), NEW v \in SetToSeqs(S)
  PROVE  Agree(v, Keys(S))
BY ListOfSet DEF Agree

-----------------------------------------------------------------------------
(* A pass over the list of a client.                                       *)

Passing == INSTANCE FoldLemmas WITH Step <- Visit

\* h[i] is the list after i iterations.
PassesBy(h, c) ==
  /\ h[0] = Lifted(List(c), <<>>)
  /\ \A i \in 1 .. Len(vec[c]) : h[i] = Visit(h[i - 1], i)

\* A pass is its iterations, one after the other.
LEMMA PassIs ==
  ASSUME NEW c \in Client, vec[c] \in Seq(Entries)
  PROVE  \E h : /\ PassesBy(h, c)
                /\ FoldLeftDomain(Visit, Lifted(List(c), <<>>), vec[c]) = h[Len(vec[c])]
<1> DEFINE n == Len(vec[c])
           seq == [i \in DOMAIN vec[c] |-> i]
           base == Lifted(List(c), <<>>)
<1>1. n \in Nat /\ DOMAIN seq = 1 .. n /\ \A i \in 1 .. n : seq[i] = i
  OBVIOUS
<1>2. FoldLeftDomain(Visit, base, vec[c]) = Passing!Fold(base, seq)
  BY DEF Passing!Fold, FoldLeftDomain, FoldLeft, MapThenFoldSet, Max,
         Passing!FoldLeft, Passing!MapThenFoldSet, Passing!Max
<1>3. PICK h : Passing!IsRun(h, base, seq, n) /\ Passing!Fold(base, seq) = h[n]
  <2> HIDE DEF n, seq, base
  <2> QED
    BY <1>1, Passing!FoldIsRun
<1>4. PassesBy(h, c)
  BY <1>1, <1>3 DEF PassesBy, Passing!IsRun
<1> QED
  BY <1>2, <1>3, <1>4

\* The three fields of a list in the middle of a pass.
LEMMA LiftedIs ==
  ASSUME NEW list, NEW sent
  PROVE  /\ Lifted(list, sent).vec = list.vec /\ Lifted(list, sent).map = list.map
         /\ Lifted(list, sent).sent = sent
BY DEF Lifted

\* The i-th ban, which has run out, is taken out and those after it move up.
Taken(v, i, w) ==
  /\ i \in DOMAIN v /\ v[i].until <= now
  /\ Len(w) = Len(v) - 1
  /\ \A j \in 1 .. Len(w) : w[j] = IF j < i THEN v[j] ELSE v[j + 1]
  /\ ToSet(w) = ToSet(v) \ {v[i]}
  /\ Kept(w, {b \in Entries : b.until > now}) = Kept(v, {b \in Entries : b.until > now})

\* An iteration that does not find a ban that has run out does nothing.  One
\* that does takes it out, and nothing else, and those after it move up.
LEMMA VisitIs ==
  ASSUME NEW list, Agree(list.vec, list.map), list.sent \in Seq(Messages), NEW i \in Nat \ {0},
         now \in Nat, NEW next, next = Visit(list, i)
  PROVE  /\ Agree(next.vec, next.map) /\ next.sent \in Seq(Messages)
         /\ \/ next = list /\ (i <= Len(list.vec) => ~ (list.vec[i].until <= now))
            \/ Taken(list.vec, i, next.vec)
<1> DEFINE v == list.vec
           b == v[i]
           S == Others(b.key)
           r == Removed(list, b.key)
<1>1. CASE i <= Len(v) /\ b.until <= now
  <2>1. v \in Seq(Entries) /\ Once(v) /\ Len(v) \in Nat /\ DOMAIN v = 1 .. Len(v)
    BY DEF Agree
  <2>2. i \in DOMAIN v /\ b \in Entries
    BY <1>1, <2>1
  <2>3. next = Lifted(r, Append(list.sent, Msg("remove", {b})))
    BY <1>1 DEF Visit
  <2>4. /\ next.vec = r.vec /\ next.map = r.map
        /\ next.sent = Append(list.sent, Msg("remove", {b}))
    <3> DEFINE sent == Append(list.sent, Msg("remove", {b}))
    <3> HIDE DEF r, sent
    <3>1. next = Lifted(r, sent)
      BY <2>3 DEF sent
    <3>2. next.vec = r.vec /\ next.map = r.map /\ next.sent = sent
      BY <3>1, LiftedIs
    <3> QED
      BY <3>2 DEF sent
  <2>5. r.vec = Kept(v, S) /\ Agree(r.vec, r.map)
    BY RemovedIs
  <2>6. next.sent \in Seq(Messages)
    <3>1. Msg("remove", {b}) \in Messages
      BY <2>2, MessagesAre
    <3> QED
      BY <2>4, <3>1
  <2>7. \A j \in DOMAIN v : v[j] \in S <=> j # i
    BY <2>1, <2>2 DEF Others, Once
  <2> HIDE DEF r, v, S
  <2>8. /\ Len(Kept(v, S)) = Len(v) - 1
        /\ \A j \in 1 .. Len(v) - 1 : Kept(v, S)[j] = IF j < i THEN v[j] ELSE v[j + 1]
    BY <2>1, <2>2, <2>7, KeptButOne
  <2>9. ToSet(Kept(v, S)) = ToSet(v) \ {b}
    <3>1. ToSet(v) \cap S = ToSet(v) \ {b}
      BY <2>1, <2>2, <2>7 DEF ToSet, Once
    <3> QED
      BY <2>1, <3>1, KeptFacts
  <2>10. Kept(Kept(v, S), {d \in Entries : d.until > now}) = Kept(v, {d \in Entries : d.until > now})
    <3> DEFINE U == {d \in Entries : d.until > now}
    <3>1. ASSUME NEW x \in ToSet(v), x \in U PROVE x \in S
      <4>1. PICK j \in DOMAIN v : x = v[j]
        BY DEF ToSet
      <4>2. ~ (x.until <= now)
        BY <3>1, TimesAre
      <4>3. j # i
        BY <1>1, <4>1, <4>2
      <4> QED
        BY <2>7, <4>1, <4>3
    <3>2. \A x \in ToSet(v) : x \in U => x \in S
      BY <3>1
    <3>3. Kept(Kept(v, S), U) = Kept(v, U)
      <4> HIDE DEF U
      <4> QED
        BY <2>1, <3>2, KeptTwice
    <3> QED
      BY <3>3
  <2>11. Taken(v, i, Kept(v, S))
    BY <1>1, <2>1, <2>2, <2>8, <2>9, <2>10 DEF Taken
  <2> QED
    BY <2>4, <2>5, <2>6, <2>11 DEF v
<1>2. CASE ~ (i <= Len(v) /\ b.until <= now)
  BY <1>2 DEF Visit
<1> QED
  BY <1>1, <1>2

\* What a pass does to a list, and what it sends.
LEMMA PassKeeps ==
  ASSUME NEW c \in Client, Agree(vec[c], map[c]), now \in Nat, NEW h, PassesBy(h, c),
         NEW i \in 0 .. Len(vec[c])
  PROVE  Agree(h[i].vec, h[i].map) /\ h[i].sent \in Seq(Messages)
<1> DEFINE n == Len(vec[c])
           Good == {j \in 0 .. n : Agree(h[j].vec, h[j].map) /\ h[j].sent \in Seq(Messages)}
<1>1. n \in Nat
  BY DEF Agree
<1>2. 0 \in Good
  <2>1. h[0].vec = vec[c] /\ h[0].map = map[c] /\ h[0].sent = <<>>
    BY LiftedIs DEF PassesBy, List
  <2>2. <<>> \in Seq(Messages) /\ 0 \in 0 .. n
    BY <1>1
  <2> HIDE DEF n
  <2> QED
    BY <2>1, <2>2
<1>3. ASSUME NEW j \in 1 .. n, j - 1 \in Good PROVE j \in Good
  <2>1. /\ j \in Nat \ {0} /\ j \in 0 .. n
        /\ Agree(h[j - 1].vec, h[j - 1].map) /\ h[j - 1].sent \in Seq(Messages)
    BY <1>1, <1>3
  <2>2. h[j] = Visit(h[j - 1], j)
    BY DEF PassesBy
  <2>3. Agree(h[j].vec, h[j].map) /\ h[j].sent \in Seq(Messages)
    <3> DEFINE list == h[j - 1]
               next == h[j]
    <3> HIDE DEF list, next, Good
    <3>1. /\ next = Visit(list, j) /\ Agree(list.vec, list.map) /\ list.sent \in Seq(Messages)
      BY <2>1, <2>2 DEF list, next
    <3>2. Agree(next.vec, next.map) /\ next.sent \in Seq(Messages)
      BY <2>1, <3>1, VisitIs
    <3> QED
      BY <3>2 DEF next
  <2> QED
    BY <2>1, <2>3
<1>4. \A j \in 0 .. n : j \in Good
  <2> HIDE DEF Good, n
  <2> QED
    BY <1>1, <1>2, <1>3, Passing!UpTo
<1> QED
  BY <1>4

-----------------------------------------------------------------------------
(* Types, and that vector and map agree.                                   *)

\* What is sent to the server is well typed, and leaves the old ones oldest.
LEMMA ToServerIs ==
  ASSUME IInv, NEW c \in Client, NEW msgs \in Seq(Messages), ToServer(c, msgs)
  PROVE  /\ c2s' \in [Client -> Seq(Messages)]
         /\ c \in up' /\ up \subseteq up' /\ late' = late => LateOnes'
<1>1. c2s[c] \in Seq(Messages)
  BY DEF IInv, Types
<1>2. /\ c2s[c] \o msgs \in Seq(Messages) /\ Len(c2s[c] \o msgs) = Len(c2s[c]) + Len(msgs)
      /\ Len(c2s[c]) \in Nat /\ Len(msgs) \in Nat
  BY <1>1
<1>3. /\ c2s' \in [Client -> Seq(Messages)] /\ c2s'[c] = c2s[c] \o msgs
      /\ \A d \in Client \ {c} : c2s'[d] = c2s[d]
  BY <1>2 DEF ToServer, IInv, Types
<1>4. ASSUME c \in up', up \subseteq up', late' = late, NEW d \in Client
      PROVE  late'[d] <= Len(c2s'[d]) /\ (d \notin up' => late'[d] = Len(c2s'[d]))
  <2>1. CASE d = c
    <3>1. late[c] \in Nat /\ late[c] <= Len(c2s[c])
      BY DEF IInv, Types, LateOnes
    <3> HIDE DEF ToServer
    <3> QED
      BY <1>2, <1>3, <1>4, <2>1, <3>1
  <2>2. CASE d # c
    BY <1>3, <1>4, <2>2 DEF IInv, LateOnes
  <2> QED
    BY <2>1, <2>2
<1> QED
  BY <1>3, <1>4 DEF LateOnes

\* One datagram, which is a sequence of one.
LEMMA OneToServer ==
  ASSUME NEW m \in Messages
  PROVE  <<m>> \in Seq(Messages)
OBVIOUS

\* What every handler of the server does first.
LEMMA HeardIs ==
  ASSUME IInv, NEW c \in Client, NEW type, Heard(c, type), up' = up
  PROVE  /\ c2s' \in [Client -> Seq(Messages)]
         /\ late' \in [Client -> Nat] /\ LateOnes'
         /\ Head(c2s[c]) \in Messages /\ Head(c2s[c]).type = type
         /\ known' \subseteq up'
<1>1. late[c] \in Nat /\ late \in [Client -> Nat]
  BY DEF IInv, Types
<1>2. late' = [late EXCEPT ![c] = IF @ > 0 THEN @ - 1 ELSE 0]
  BY <1>1 DEF Heard
<1>3. /\ Head(c2s[c]) \in Messages
      /\ Len(c2s[c]) = Len(Tail(c2s[c])) + 1 /\ Tail(c2s[c]) \in Seq(Messages)
  BY SetOfTail DEF Heard, IInv, Types
<1>4. Len(Tail(c2s[c])) \in Nat
  BY <1>3
<1>5. /\ c2s' \in [Client -> Seq(Messages)] /\ c2s'[c] = Tail(c2s[c])
      /\ \A d \in Client \ {c} : c2s'[d] = c2s[d]
  BY <1>3 DEF Heard, IInv, Types
<1>6. /\ late' \in [Client -> Nat] /\ late'[c] = IF late[c] > 0 THEN late[c] - 1 ELSE 0
      /\ \A d \in Client \ {c} : late'[d] = late[d]
  BY <1>1, <1>2
<1>7. ASSUME NEW d \in Client
      PROVE  late'[d] <= Len(c2s'[d]) /\ (d \notin up => late'[d] = Len(c2s'[d]))
  <2>1. CASE d = c
    <3>1. late[c] <= Len(c2s[c]) /\ (c \notin up => late[c] = Len(c2s[c]))
      BY DEF IInv, LateOnes
    <3> QED
      BY <1>1, <1>3, <1>4, <1>5, <1>6, <2>1, <3>1
  <2>2. CASE d # c
    BY <1>5, <1>6, <2>2 DEF IInv, LateOnes
  <2> QED
    BY <2>1, <2>2
<1>8. known' \subseteq up'
  BY <1>1, <1>3, <1>4 DEF Heard, IInv, Types, LateOnes
<1> QED
  BY <1>3, <1>5, <1>6, <1>7, <1>8 DEF Heard, LateOnes

\* A broadcast is well typed.
LEMMA BroadcastIs ==
  ASSUME IInv, NEW c \in Client, NEW m \in Messages, Broadcast(c, m)
  PROVE  s2c' \in [Client -> Seq(Messages)]
<1>1. \A d \in Client : s2c[d] \in Seq(Messages) /\ Append(s2c[d], m) \in Seq(Messages)
  BY DEF IInv, Types
<1> QED
  BY <1>1 DEF Broadcast

\* A list that agrees with its map still does among the others.
LEMMA SetListIs ==
  ASSUME IInv, NEW c \in Client, NEW list, Agree(list.vec, list.map), SetList(c, list)
  PROVE  /\ vec' \in [Client -> Seq(Entries)] /\ map' \in [Client -> SUBSET Key]
         /\ ListsAgree'
<1>1. list.vec \in Seq(Entries) /\ list.map \in SUBSET Key
  <2>1. ToSet(list.vec) \in SUBSET Entries
    BY SetOfList DEF Agree
  <2>2. Keys(ToSet(list.vec)) \in SUBSET Key
    BY <2>1, TimesAre DEF Keys
  <2> QED
    BY <2>2 DEF Agree
<1>2. /\ vec' \in [Client -> Seq(Entries)] /\ map' \in [Client -> SUBSET Key]
      /\ vec'[c] = list.vec /\ map'[c] = list.map
      /\ \A d \in Client \ {c} : vec'[d] = vec[d] /\ map'[d] = map[d]
  BY <1>1 DEF SetList, IInv, Types
<1>3. \A d \in Client : Agree(vec'[d], map'[d])
  BY <1>2 DEF IInv, ListsAgree
<1> QED
  BY <1>2, <1>3 DEF ListsAgree

\* The files that the clients start with hold every address once.
LEMMA TypesInit == Init => IInv
<1> SUFFICES ASSUME Init PROVE IInv
  OBVIOUS
<1>1. PICK file \in [Client -> {e \in SUBSET [key : Key, until : Hours] : OnePerKey(e)}] :
        /\ vec \in {v \in [Client -> UNION {SetToSeqs(file[c]) : c \in Client}] :
                      \A c \in Client : v[c] \in SetToSeqs(file[c])}
        /\ map = [c \in Client |-> Keys(file[c])]
  BY DEF Init
<1>2. Hours \subseteq Times
  <2> SUFFICES ASSUME NEW h \in Hours PROVE h \in Times
    OBVIOUS
  <2>1. 0 \in 0 .. MaxTime /\ h \in Nat
    BY TempBanExpiryAssumption
  <2>2. 0 + h \in Times
    BY <2>1, TimeIs
  <2> QED
    BY <2>1, <2>2
<1>3. \A c \in Client : file[c] \in SUBSET Entries /\ OnePerKey(file[c])
  BY <1>1, <1>2 DEF Entries
<1>4. ASSUME NEW c \in Client PROVE Agree(vec[c], map[c])
  <2>1. vec[c] \in SetToSeqs(file[c]) /\ map[c] = Keys(file[c])
    BY <1>1
  <2> QED
    BY <1>3, <2>1, ListIs
<1>5. vec \in [Client -> Seq(Entries)] /\ map \in [Client -> SUBSET Key]
  <2>1. DOMAIN vec = Client /\ vec = [c \in Client |-> vec[c]]
    BY <1>1
  <2>2. \A c \in Client : vec[c] \in Seq(Entries)
    BY <1>4 DEF Agree
  <2>3. \A c \in Client : Keys(file[c]) \in SUBSET Key
    BY <1>3, TimesAre DEF Keys
  <2> QED
    BY <1>1, <2>1, <2>2, <2>3
<1>6. Types
  <2>1. now \in 0 .. MaxTime
    BY TempBanExpiryAssumption DEF Init
  <2>2. srv \subseteq Entries /\ OnePerKey(srv)
    BY DEF Init, OnePerKey
  <2>3. <<>> \in Seq(Messages)
    OBVIOUS
  <2> QED
    BY <1>5, <2>1, <2>2, <2>3 DEF Init, Types
<1>7. LateOnes
  BY DEF Init, LateOnes
<1> QED
  BY <1>4, <1>6, <1>7 DEF IInv, ListsAgree

\* Every action keeps the types, and vector and map together.
LEMMA TypesStep == IInv /\ [Next]_vars => IInv'
<1> SUFFICES ASSUME IInv, [Next]_vars PROVE IInv'
  OBVIOUS
<1> USE DEF server, clients, spent
<1>1. CASE Tick
  <2>1. now' \in 0 .. MaxTime
    BY <1>1, TempBanExpiryAssumption DEF Tick, IInv, Types
  <2> QED
    BY <1>1, <2>1 DEF Tick, IInv, Types, LateOnes, ListsAgree
<1>2. ASSUME NEW c \in Client, Login(c) PROVE IInv'
  <2>1. <<Msg("hello", {})>> \in Seq(Messages)
    BY MessagesAre
  <2>2. c2s' \in [Client -> Seq(Messages)] /\ LateOnes'
    BY <1>2, <2>1, ToServerIs DEF Login
  <2> QED
    BY <1>2, <2>2 DEF Login, IInv, Types, ListsAgree
<1>3. ASSUME NEW c \in Client, UploadList(c) PROVE IInv'
  <2>1. vec[c] \in Seq(Entries) /\ Once(vec[c])
    BY DEF IInv, ListsAgree, Agree
  <2>2. ToSet(vec[c]) \in SUBSET Entries /\ OnePerKey(ToSet(vec[c]))
    BY <2>1, SetOfList
  <2>3. <<Msg("upload", ToSet(vec[c]))>> \in Seq(Messages)
    BY <2>2, MessagesAre
  <2>4. c2s' \in [Client -> Seq(Messages)] /\ LateOnes'
    BY <1>3, <2>3, ToServerIs DEF UploadList
  <2> QED
    BY <1>3, <2>4 DEF UploadList, IInv, Types, ListsAgree
<1>4. ASSUME NEW c \in Client, Quit(c) PROVE IInv'
  <2>1. Len(c2s[c]) \in Nat /\ <<>> \in Seq(Messages)
    BY DEF IInv, Types
  <2>2. /\ late' \in [Client -> Nat] /\ late'[c] = Len(c2s[c])
        /\ \A d \in Client \ {c} : late'[d] = late[d]
    BY <1>4, <2>1 DEF Quit, IInv, Types
  <2>3. s2c' \in [Client -> Seq(Messages)]
    BY <1>4, <2>1 DEF Quit, IInv, Types
  <2>4. LateOnes'
    BY <1>4, <2>1, <2>2 DEF Quit, LateOnes, IInv
  <2>5. Types'
    BY <1>4, <2>2, <2>3 DEF Quit, IInv, Types
  <2> QED
    BY <1>4, <2>4, <2>5 DEF Quit, IInv, ListsAgree
<1>5. ASSUME NEW c \in Client, NEW k \in Key, NEW hours \in Hours, Ban(c, k, hours) PROVE IInv'
  <2>1. /\ now \in 0 .. MaxTime
        /\ \A t \in 0 .. MaxTime : /\ t + hours \in Times /\ Entry(k, t + hours) \in Entries
                                   /\ Entry(k, t + hours).key = k
    BY TimeIs, EntryIs DEF IInv, Types
  <2>2. 0 .. now \subseteq 0 .. MaxTime
    BY <2>1, TempBanExpiryAssumption
  <2>3. PICK b \in Entries : ToServer(c, <<Msg("add", {b})>>)
    BY <1>5, <2>1, <2>2 DEF Ban
  <2>4. <<Msg("add", {b})>> \in Seq(Messages)
    BY MessagesAre
  <2>5. c2s' \in [Client -> Seq(Messages)] /\ LateOnes'
    BY <1>5, <2>3, <2>4, ToServerIs DEF Ban
  <2>6. /\ vec' \in [Client -> Seq(Entries)] /\ map' \in [Client -> SUBSET Key]
        /\ ListsAgree'
    <3>1. CASE k \notin map[c]
      <4> DEFINE e == Entry(k, now + hours)
                 list == [vec |-> Append(vec[c], e), map |-> map[c] \cup {k}]
      <4>1. e \in Entries /\ e.key = k
        BY <2>1
      <4>2. Agree(vec[c], map[c])
        BY DEF IInv, ListsAgree
      <4>3. SetList(c, list)
        BY <1>5, <3>1 DEF Ban, SetList
      <4> HIDE DEF e
      <4>4. Agree(list.vec, list.map)
        BY <3>1, <4>1, <4>2, AddedIs
      <4> HIDE DEF list
      <4> QED
        BY <4>3, <4>4, SetListIs
    <3>2. CASE k \in map[c]
      BY <1>5, <3>2 DEF Ban, IInv, Types, ListsAgree
    <3> QED
      BY <3>1, <3>2
  <2>7. due' \in [Key -> Times \cup {0}]
    <3>1. CASE k \notin map[c]
      BY <1>5, <2>1, <3>1 DEF Ban, Promise, IInv, Types
    <3>2. CASE k \in map[c]
      BY <1>5, <3>2 DEF Ban, IInv, Types
    <3> QED
      BY <3>1, <3>2
  <2>8. Types'
    BY <1>5, <2>5, <2>6, <2>7 DEF Ban, IInv, Types
  <2> QED
    BY <2>5, <2>6, <2>8 DEF IInv
<1>6. ASSUME NEW c \in Client, NEW k \in Key, Unban(c, k) PROVE IInv'
  <2>1. Agree(List(c).vec, List(c).map)
    BY DEF List, IInv, ListsAgree
  <2>2. /\ vec' \in [Client -> Seq(Entries)] /\ map' \in [Client -> SUBSET Key]
        /\ ListsAgree'
    <3> DEFINE list == Removed(List(c), k)
    <3>1. SetList(c, list)
      BY <1>6 DEF Unban
    <3>2. Agree(list.vec, list.map)
      BY <2>1, RemovedIs
    <3> HIDE DEF list
    <3> QED
      BY <3>1, <3>2, SetListIs
  <2>3. ToSet(vec[c]) \in SUBSET Entries
    BY SetOfList DEF IInv, ListsAgree, Agree
  <2>4. <<Msg("remove", {b \in ToSet(vec[c]) : b.key = k})>> \in Seq(Messages)
    <3>1. {b \in ToSet(vec[c]) : b.key = k} \in SUBSET Entries
      BY <2>3
    <3> QED
      BY <3>1, MessagesAre
  <2>5. c2s' \in [Client -> Seq(Messages)] /\ LateOnes'
    BY <1>6, <2>4, ToServerIs DEF Unban
  <2>6. Types'
    BY <1>6, <2>2, <2>5 DEF Unban, IInv, Types
  <2> QED
    BY <2>2, <2>5, <2>6 DEF IInv
<1>7. ASSUME NEW c \in Client, Pass(c) PROVE IInv'
  <2>1. Agree(vec[c], map[c]) /\ now \in Nat /\ vec[c] \in Seq(Entries)
    BY DEF IInv, ListsAgree, Types, Agree
  <2>2. PICK h : /\ PassesBy(h, c)
                 /\ FoldLeftDomain(Visit, Lifted(List(c), <<>>), vec[c]) = h[Len(vec[c])]
    BY <2>1, PassIs
  <2> DEFINE list == h[Len(vec[c])]
  <2>3. SetList(c, list) /\ ToServer(c, list.sent)
    BY <1>7, <2>2 DEF Pass
  <2>4. Len(vec[c]) \in 0 .. Len(vec[c])
    BY <2>1
  <2>5. Agree(list.vec, list.map) /\ list.sent \in Seq(Messages)
    BY <2>1, <2>2, <2>4, PassKeeps
  <2> HIDE DEF list
  <2>6. /\ vec' \in [Client -> Seq(Entries)] /\ map' \in [Client -> SUBSET Key]
        /\ ListsAgree'
    BY <2>3, <2>5, SetListIs
  <2>7. c2s' \in [Client -> Seq(Messages)] /\ LateOnes'
    BY <1>7, <2>3, <2>5, ToServerIs DEF Pass
  <2>8. Types'
    BY <1>7, <2>6, <2>7 DEF Pass, IInv, Types
  <2> QED
    BY <2>6, <2>7, <2>8 DEF IInv
<1>8. ASSUME NEW c \in Client, ClientHandle(c) PROVE IInv'
  <2> DEFINE m == Head(s2c[c])
  <2>1. m \in Messages /\ Tail(s2c[c]) \in Seq(Messages)
    BY <1>8, SetOfTail DEF ClientHandle, IInv, Types
  <2>2. Agree(List(c).vec, List(c).map) /\ Agree(vec[c], map[c])
    BY DEF List, IInv, ListsAgree
  <2>3. \E list : SetList(c, list) /\ Agree(list.vec, list.map)
    <3>1. CASE m.type = "add"
      <4>1. PICK b \in m.bans :
              SetList(c, IF b.key \in map[c] THEN List(c)
                         ELSE [vec |-> Append(vec[c], b), map |-> map[c] \cup {b.key}])
        BY <1>8, <3>1 DEF ClientHandle
      <4>2. b \in Entries
        BY <2>1, MessagesAre
      <4>3. CASE b.key \in map[c]
        BY <2>2, <4>1, <4>3
      <4>4. CASE b.key \notin map[c]
        <5> DEFINE list == [vec |-> Append(vec[c], b), map |-> map[c] \cup {b.key}]
        <5>1. Agree(list.vec, list.map)
          BY <2>2, <4>2, <4>4, AddedIs
        <5>2. SetList(c, list)
          BY <4>1, <4>4
        <5> HIDE DEF list
        <5> QED
          BY <5>1, <5>2
      <4> QED
        BY <4>3, <4>4
    <3>2. CASE m.type = "remove"
      <4>1. PICK b \in m.bans :
              SetList(c, IF b.key \in map[c] THEN Removed(List(c), b.key) ELSE List(c))
        BY <1>8, <3>2 DEF ClientHandle
      <4>2. CASE b.key \in map[c]
        <5> DEFINE list == Removed(List(c), b.key)
        <5>1. Agree(list.vec, list.map)
          BY <2>2, RemovedIs
        <5>2. SetList(c, list)
          BY <4>1, <4>2
        <5> HIDE DEF list
        <5> QED
          BY <5>1, <5>2
      <4>3. CASE b.key \notin map[c]
        BY <2>2, <4>1, <4>3
      <4> QED
        BY <4>2, <4>3
    <3>3. CASE m.type = "bans"
      <4>1. PICK v \in SetToSeqs(m.bans) : SetList(c, [vec |-> v, map |-> Keys(m.bans)])
        BY <1>8, <3>3 DEF ClientHandle
      <4>2. m.bans \in SUBSET Entries /\ OnePerKey(m.bans)
        BY <2>1, <3>3, MessagesAre
      <4>3. Agree(v, Keys(m.bans))
        BY <4>2, ListIs
      <4> DEFINE list == [vec |-> v, map |-> Keys(m.bans)]
      <4>4. list.vec = v /\ list.map = Keys(m.bans)
        OBVIOUS
      <4> HIDE DEF list
      <4> QED
        BY <4>1, <4>3, <4>4 DEF list
    <3> QED
      BY <1>8, <3>1, <3>2, <3>3 DEF ClientHandle
  <2>4. /\ vec' \in [Client -> Seq(Entries)] /\ map' \in [Client -> SUBSET Key]
        /\ ListsAgree'
    BY <2>3, SetListIs
  <2>5. s2c' \in [Client -> Seq(Messages)]
    BY <1>8, <2>1 DEF ClientHandle, IInv, Types
  <2>6. Types' /\ LateOnes'
    BY <1>8, <2>4, <2>5 DEF ClientHandle, IInv, Types, LateOnes
  <2> QED
    BY <2>4, <2>6 DEF IInv
<1>9. ASSUME NEW c \in Client, HandleHello(c) PROVE IInv'
  <2>1. /\ c2s' \in [Client -> Seq(Messages)] /\ late' \in [Client -> Nat] /\ LateOnes'
        /\ known' \subseteq up'
    BY <1>9, HeardIs DEF HandleHello
  <2> QED
    BY <1>9, <2>1 DEF HandleHello, IInv, Types, ListsAgree
<1>10. ASSUME NEW c \in Client, HandleAdd(c) PROVE IInv'
  <2> DEFINE m == Head(c2s[c])
  <2>1. /\ c2s' \in [Client -> Seq(Messages)] /\ late' \in [Client -> Nat] /\ LateOnes'
        /\ known' \subseteq up' /\ m \in Messages /\ m.type = "add"
    BY <1>10, HeardIs DEF HandleAdd
  <2>2. PICK b \in Entries : m.bans = {b}
    BY <2>1, MessagesAre
  <2>3. Keys(m.bans) = {b.key}
    BY <2>2 DEF Keys
  <2>4. /\ srv' \subseteq Entries /\ OnePerKey(srv') /\ tomb' \subseteq Key
        /\ s2c' \in [Client -> Seq(Messages)]
    <3>1. CASE b.key \in Keys(srv)
      BY <1>10, <2>3, <3>1 DEF HandleAdd, IInv, Types
    <3>2. CASE b.key \notin Keys(srv)
      <4>1. /\ srv' = srv \cup {b} /\ tomb' = tomb \ {b.key} /\ Broadcast(c, m)
        BY <1>10, <2>2, <2>3, <3>2 DEF HandleAdd
      <4>2. s2c' \in [Client -> Seq(Messages)]
        BY <2>1, <4>1, BroadcastIs
      <4>3. OnePerKey(srv')
        BY <3>2, <4>1 DEF OnePerKey, Keys, IInv, Types
      <4> QED
        BY <4>1, <4>2, <4>3 DEF IInv, Types
    <3> QED
      BY <3>1, <3>2
  <2> QED
    BY <1>10, <2>1, <2>4 DEF HandleAdd, IInv, Types, ListsAgree
<1>11. ASSUME NEW c \in Client, HandleRemove(c) PROVE IInv'
  <2> DEFINE m    == Head(c2s[c])
             gone == Keys(m.bans) \cap Keys(srv)
  <2>1. /\ c2s' \in [Client -> Seq(Messages)] /\ late' \in [Client -> Nat] /\ LateOnes'
        /\ known' \subseteq up' /\ m \in Messages
    BY <1>11, HeardIs DEF HandleRemove
  <2>2. gone \in SUBSET Key
    BY TimesAre DEF Keys, IInv, Types
  <2>3. /\ srv' \subseteq Entries /\ OnePerKey(srv') /\ tomb' \subseteq Key
        /\ s2c' \in [Client -> Seq(Messages)]
    <3>1. CASE gone = {}
      BY <1>11, <3>1 DEF HandleRemove, IInv, Types
    <3>2. CASE gone # {}
      <4>1. /\ srv' = {b \in srv : b.key \notin gone} /\ tomb' = tomb \cup gone
            /\ Broadcast(c, m)
        BY <1>11, <3>2 DEF HandleRemove
      <4>2. s2c' \in [Client -> Seq(Messages)]
        BY <2>1, <4>1, BroadcastIs
      <4> HIDE DEF gone
      <4> QED
        BY <2>2, <4>1, <4>2 DEF OnePerKey, IInv, Types
    <3> QED
      BY <3>1, <3>2
  <2> QED
    BY <1>11, <2>1, <2>3 DEF HandleRemove, IInv, Types, ListsAgree
<1>12. ASSUME NEW c \in Client, HandleUpload(c) PROVE IInv'
  <2> DEFINE m == Head(c2s[c])
  <2>1. /\ c2s' \in [Client -> Seq(Messages)] /\ late' \in [Client -> Nat] /\ LateOnes'
        /\ known' \subseteq up' /\ m \in Messages /\ m.type = "upload"
    BY <1>12, HeardIs DEF HandleUpload
  <2>2. m.bans \in SUBSET Entries /\ OnePerKey(m.bans)
    BY <2>1, MessagesAre
  <2>3. srv' \in SUBSET Entries /\ OnePerKey(srv')
    <3>1. srv' = srv \cup New(m.bans)
      BY <1>12 DEF HandleUpload
    <3>2. srv \in SUBSET Entries /\ OnePerKey(srv)
      BY DEF IInv, Types
    <3> HIDE DEF m
    <3>3. New(m.bans) \subseteq m.bans /\ \A b \in New(m.bans) : \A d \in srv : b.key # d.key
      BY DEF New, Keys
    <3> QED
      BY <2>2, <3>1, <3>2, <3>3 DEF OnePerKey
  <2>4. s2c' \in [Client -> Seq(Messages)]
    <3>1. Msg("bans", srv') \in Messages
      BY <2>3, MessagesAre
    <3>2. s2c[c] \in Seq(Messages) /\ Append(s2c[c], Msg("bans", srv')) \in Seq(Messages)
      BY <3>1 DEF IInv, Types
    <3> QED
      BY <1>12, <3>2 DEF HandleUpload, IInv, Types
  <2> QED
    BY <1>12, <2>1, <2>3, <2>4 DEF HandleUpload, IInv, Types, ListsAgree
<1>13. CASE UNCHANGED vars
  BY <1>13 DEF vars, IInv, Types, LateOnes, ListsAgree
<1> QED
  BY <1>1, <1>2, <1>3, <1>4, <1>5, <1>6, <1>7, <1>8, <1>9, <1>10, <1>11, <1>12, <1>13
     DEF Next, ClientStep, ServerStep

\* The invariant holds in every state.
LEMMA TempBanInductive == Spec => []IInv
BY TypesInit, TypesStep, PTL DEF Spec

\* What is in a queue, and that the vectors of all clients agree with their
\* maps, gives the types.
THEOREM TempBanTypes == Spec => []TypeOK
<1>1. IInv => TypeOK
  <2> SUFFICES ASSUME IInv PROVE TypeOK
    OBVIOUS
  <2>1. \A c \in Client : late[c] \in 0 .. Len(c2s[c])
    <3> SUFFICES ASSUME NEW c \in Client PROVE late[c] \in 0 .. Len(c2s[c])
      OBVIOUS
    <3>1. late[c] \in Nat /\ Len(c2s[c]) \in Nat
      BY DEF IInv, Types
    <3> QED
      BY <3>1 DEF IInv, LateOnes
  <2>2. ASSUME NEW c \in Client, NEW m \in ToSet(c2s[c]) \cup ToSet(s2c[c])
        PROVE  /\ m.type \in {"hello", "add", "remove", "upload", "bans"}
               /\ m.bans \subseteq Entries
    <3>1. m \in Messages
      BY DEF ToSet, IInv, Types
    <3> QED
      BY <3>1, MessagesAre
  <2> QED
    BY <2>1, <2>2 DEF TypeOK, IInv, Types
<1> QED
  BY <1>1, TempBanInductive, PTL

\* The vector and the map of a client hold the same addresses, each once,
\* whatever the passes, the commands and the datagrams do in between.
THEOREM TempBanMaps == Spec => []MapMatchesVector
<1>1. IInv => MapMatchesVector
  <2> SUFFICES ASSUME IInv, NEW c \in Client
               PROVE  map[c] = Keys(ToSet(vec[c])) /\ Cardinality(map[c]) = Len(vec[c])
    BY DEF MapMatchesVector
  <2>1. Agree(vec[c], map[c])
    BY DEF IInv, ListsAgree
  <2>2. vec[c] \in Seq(Entries) /\ Once(vec[c]) /\ map[c] = Keys(ToSet(vec[c]))
    BY <2>1 DEF Agree
  <2> QED
    BY <2>2, LenIsCount
<1> QED
  BY <1>1, TempBanInductive, PTL

-----------------------------------------------------------------------------
(* A pass is sound.                                                        *)

\* The bans of a list that have run out, and those of them at the first
\* positions.
Over(v)     == {b \in ToSet(v) : b.until <= now}
OverBy(v, i) == {b \in {v[j] : j \in {k \in DOMAIN v : k <= i}} : b.until <= now}

\* What an iteration may skip is paid for by what has been removed: those
\* that have run out and were passed over are no more than those that are gone.
Paid(v, i, start) ==
  /\ v \in Seq(Entries) /\ Once(v) /\ Len(v) <= Len(start)
  /\ Over(v) \subseteq Over(start)
  /\ Cardinality(OverBy(v, i)) + Cardinality(Over(v)) <= Cardinality(Over(start))
  /\ Kept(v, {b \in Entries : b.until > now}) = Kept(start, {b \in Entries : b.until > now})

\* The bans that have run out are finitely many.
LEMMA OverIsFinite ==
  ASSUME NEW v \in Seq(Entries), Once(v), NEW i \in Nat
  PROVE  /\ IsFiniteSet(Over(v)) /\ Cardinality(Over(v)) \in Nat
         /\ IsFiniteSet(OverBy(v, i)) /\ Cardinality(OverBy(v, i)) \in Nat
<1>1. IsFiniteSet(ToSet(v))
  BY LenIsCount
<1>2. Over(v) \in SUBSET ToSet(v) /\ OverBy(v, i) \in SUBSET ToSet(v)
  BY DEF Over, OverBy, ToSet
<1> HIDE DEF Over, OverBy
<1>3. IsFiniteSet(Over(v)) /\ IsFiniteSet(OverBy(v, i))
  BY <1>1, <1>2, FS_Subset
<1> QED
  BY <1>3, FS_CardinalityType

\* An iteration that looks at an expired ban removes it, and pays with it for
\* the one that takes its place, which the next iteration does not look at.
LEMMA VisitPays ==
  ASSUME NEW list, NEW start \in Seq(Entries), Once(start), NEW i \in Nat \ {0}, now \in Nat,
         Agree(list.vec, list.map), list.sent \in Seq(Messages),
         Paid(list.vec, i - 1, start),
         NEW next, next = Visit(list, i)
  PROVE  Paid(next.vec, i, start)
<1> DEFINE v == list.vec
           w == next.vec
<1>1. /\ v \in Seq(Entries) /\ Once(v) /\ Len(v) \in Nat /\ DOMAIN v = 1 .. Len(v)
      /\ Len(start) \in Nat /\ i - 1 \in Nat /\ \A j \in 1 .. Len(v) : v[j] \in Entries
  BY DEF Agree
<1>2. /\ Agree(next.vec, next.map)
      /\ \/ next = list /\ (i <= Len(v) => ~ (v[i].until <= now))
         \/ Taken(v, i, w)
  BY VisitIs
<1>3. w \in Seq(Entries) /\ Once(w) /\ Len(w) \in Nat /\ DOMAIN w = 1 .. Len(w)
  BY <1>2 DEF Agree
<1>4. CASE next = list /\ (i <= Len(v) => ~ (v[i].until <= now))
  <2>1. OverBy(w, i) = OverBy(v, i - 1)
    <3>1. \A j \in DOMAIN v : j <= i => j <= i - 1 \/ j = i
      BY <1>1
    <3>2. \A j \in DOMAIN v : j <= i - 1 => j <= i
      BY <1>1
    <3>3. \A b \in OverBy(v, i) : b \in OverBy(v, i - 1)
      BY <1>1, <1>4, <3>1 DEF OverBy
    <3>4. \A b \in OverBy(v, i - 1) : b \in OverBy(v, i)
      BY <3>2 DEF OverBy
    <3> QED
      BY <1>4, <3>3, <3>4
  <2> QED
    BY <1>4, <2>1 DEF Paid
<1>5. CASE Taken(v, i, w)
  <2>1. /\ i \in DOMAIN v /\ v[i].until <= now
        /\ Len(w) = Len(v) - 1
        /\ \A j \in 1 .. Len(w) : w[j] = IF j < i THEN v[j] ELSE v[j + 1]
        /\ ToSet(w) = ToSet(v) \ {v[i]}
        /\ Kept(w, {b \in Entries : b.until > now}) = Kept(v, {b \in Entries : b.until > now})
    BY <1>5 DEF Taken
  <2> HIDE DEF v, w
  <2>2. Over(w) = Over(v) \ {v[i]} /\ v[i] \in Over(v)
    BY <1>1, <2>1 DEF Over, ToSet
  <2>3. /\ IsFiniteSet(Over(v)) /\ Cardinality(Over(v)) \in Nat
        /\ IsFiniteSet(OverBy(v, i - 1)) /\ Cardinality(OverBy(v, i - 1)) \in Nat
        /\ IsFiniteSet(OverBy(w, i)) /\ Cardinality(OverBy(w, i)) \in Nat
    BY <1>1, <1>3, OverIsFinite
  <2>4. Cardinality(Over(w)) = Cardinality(Over(v)) - 1
    <3> DEFINE O == Over(v)
               x == v[i]
    <3> HIDE DEF O, x
    <3>1. Cardinality(O \ {x}) = IF x \in O THEN Cardinality(O) - 1 ELSE Cardinality(O)
      BY <2>3, FS_RemoveElement DEF O
    <3> QED
      BY <2>2, <3>1 DEF O, x
  <2>5. Cardinality(OverBy(w, i)) <= Cardinality(OverBy(v, i - 1)) + 1
    <3>1. OverBy(w, i) \subseteq OverBy(v, i - 1) \cup {v[i + 1]}
      <4> SUFFICES ASSUME NEW b \in OverBy(w, i), b # v[i + 1] PROVE b \in OverBy(v, i - 1)
        OBVIOUS
      <4>1. PICK j \in 1 .. Len(w) : j <= i /\ b = w[j] /\ b.until <= now
        BY <1>3 DEF OverBy
      <4>2. j < i /\ b = v[j]
        BY <1>1, <1>3, <2>1, <4>1
      <4>3. j \in DOMAIN v /\ j <= i - 1
        BY <1>1, <1>3, <2>1, <4>2
      <4> QED
        BY <4>1, <4>2, <4>3 DEF OverBy
    <3> DEFINE O == OverBy(v, i - 1)
               P == OverBy(w, i)
               x == v[i + 1]
    <3> HIDE DEF O, P, x
    <3>2. /\ IsFiniteSet(O \cup {x})
          /\ Cardinality(O \cup {x}) = IF x \in O THEN Cardinality(O) ELSE Cardinality(O) + 1
      BY <2>3, FS_AddElement DEF O
    <3>3. P \in SUBSET (O \cup {x})
      BY <3>1 DEF O, P, x
    <3>4. Cardinality(P) <= Cardinality(O \cup {x})
      BY <3>2, <3>3, FS_Subset
    <3>5. Cardinality(P) \in Nat /\ Cardinality(O) \in Nat
      BY <2>3 DEF O, P
    <3>6. Cardinality(P) <= Cardinality(O) + 1
      BY <3>2, <3>4, <3>5
    <3> QED
      BY <3>6 DEF O, P
  <2>6. /\ Len(v) <= Len(start) /\ Over(v) \subseteq Over(start)
        /\ Cardinality(OverBy(v, i - 1)) + Cardinality(Over(v)) <= Cardinality(Over(start))
        /\ Kept(v, {b \in Entries : b.until > now}) = Kept(start, {b \in Entries : b.until > now})
    BY DEF Paid, v
  <2>7. Cardinality(Over(start)) \in Nat
    BY <1>1, OverIsFinite
  <2>8. Len(w) <= Len(start)
    BY <1>1, <1>3, <2>1, <2>6
  <2>9. Cardinality(OverBy(w, i)) + Cardinality(Over(w)) <= Cardinality(Over(start))
    BY <2>3, <2>4, <2>5, <2>6, <2>7
  <2>10. Paid(w, i, start)
    BY <1>3, <2>1, <2>2, <2>6, <2>8, <2>9 DEF Paid
  <2> QED
    BY <2>10 DEF w
<1> QED
  BY <1>2, <1>4, <1>5

\* The same at the end of a pass.
LEMMA PassPays ==
  ASSUME NEW c \in Client, Agree(vec[c], map[c]), now \in Nat, NEW h, PassesBy(h, c)
  PROVE  Paid(h[Len(vec[c])].vec, Len(vec[c]), vec[c])
<1> DEFINE n == Len(vec[c])
           start == vec[c]
           Good == {j \in 0 .. n : Paid(h[j].vec, j, start)}
<1>1. n \in Nat /\ start \in Seq(Entries) /\ Once(start) /\ DOMAIN start = 1 .. n
  BY DEF Agree
<1>2. 0 \in Good
  <2>1. h[0].vec = start
    BY LiftedIs DEF PassesBy, List
  <2>2. OverBy(start, 0) = {}
    BY <1>1 DEF OverBy
  <2>3. Cardinality(Over(start)) \in Nat /\ Cardinality(OverBy(start, 0)) = 0
    BY <1>1, <2>2, OverIsFinite, FS_EmptySet
  <2>4. Paid(start, 0, start)
    <3> HIDE DEF start
    <3> QED
      BY <1>1, <2>3 DEF Paid
  <2>5. 0 \in 0 .. n
    BY <1>1
  <2> HIDE DEF start, n
  <2> QED
    BY <2>1, <2>4, <2>5
<1>3. ASSUME NEW j \in 1 .. n, j - 1 \in Good PROVE j \in Good
  <2> DEFINE list == h[j - 1]
             next == h[j]
  <2>1. j \in Nat \ {0} /\ j \in 0 .. n /\ j - 1 \in 0 .. n /\ Paid(list.vec, j - 1, start)
    BY <1>1, <1>3
  <2>2. next = Visit(list, j)
    BY DEF PassesBy
  <2>3. Agree(list.vec, list.map) /\ list.sent \in Seq(Messages)
    BY <2>1, PassKeeps
  <2>4. Paid(next.vec, j, start)
    <3> HIDE DEF list, next, start, Good, n
    <3> QED
      BY <1>1, <2>1, <2>2, <2>3, VisitPays
  <2> HIDE DEF start, n
  <2> QED
    BY <2>1, <2>4
<1>4. \A j \in 0 .. n : j \in Good
  <2> HIDE DEF Good, n
  <2> QED
    BY <1>1, <1>2, <1>3, Passing!UpTo
<1>5. n \in 0 .. n
  BY <1>1
<1> HIDE DEF n, start
<1>6. Paid(h[n].vec, n, start)
  BY <1>4, <1>5
<1> QED
  BY <1>6 DEF n, start

\* How many bans of a list have run out.
LEMMA ExpiredIs ==
  ASSUME NEW v \in Seq(Entries), Once(v)
  PROVE  Len(Kept(v, {b \in Entries : b.until <= now})) = Cardinality(Over(v))
<1> DEFINE S == {b \in Entries : b.until <= now}
<1>1. ToSet(v) \cap S = Over(v)
  <2>1. ToSet(v) \in SUBSET Entries
    BY SetOfList
  <2> QED
    BY <2>1 DEF Over
<1> HIDE DEF S
<1>2. Kept(v, S) \in Seq(Entries) /\ ToSet(Kept(v, S)) = ToSet(v) \cap S /\ Once(Kept(v, S))
  BY KeptFacts
<1>3. Cardinality(ToSet(Kept(v, S))) = Len(Kept(v, S))
  BY <1>2, LenIsCount
<1> QED
  BY <1>1, <1>2, <1>3 DEF S

\* A pass, step by step: what it skipped is paid for by what it removed.
LEMMA PassIsSound ==
  ASSUME IInv, NEW c \in Client, Pass(c)
  PROVE  /\ Running(c)' = Running(c)
         /\ 2 * Len(Expired(c)') <= Len(Expired(c))
<1>1. Agree(vec[c], map[c]) /\ now \in Nat /\ vec[c] \in Seq(Entries) /\ Once(vec[c])
  BY DEF IInv, ListsAgree, Types, Agree
<1>2. PICK h : /\ PassesBy(h, c)
               /\ FoldLeftDomain(Visit, Lifted(List(c), <<>>), vec[c]) = h[Len(vec[c])]
  BY <1>1, PassIs
<1> DEFINE v == vec[c]
           w == h[Len(vec[c])].vec
<1>3. vec'[c] = w /\ now' = now
  BY <1>2 DEF Pass, SetList, IInv, Types
<1>4. Paid(w, Len(v), v)
  BY <1>1, <1>2, PassPays
<1>5. /\ Running(c)' = Kept(w, {b \in Entries : b.until > now})
      /\ Expired(c)' = Kept(w, {b \in Entries : b.until <= now})
  <2> HIDE DEF w
  <2> QED
    BY <1>3 DEF Running, Expired
<1> HIDE DEF w
<1>6. Running(c)' = Running(c)
  BY <1>4, <1>5 DEF Paid, Running
<1>7. w \in Seq(Entries) /\ Once(w) /\ Len(w) <= Len(v)
  BY <1>4 DEF Paid
<1>8. OverBy(w, Len(v)) = Over(w)
  <2>1. Len(v) \in Nat /\ Len(w) \in Nat /\ DOMAIN w = 1 .. Len(w)
    BY <1>1, <1>7
  <2>2. {k \in DOMAIN w : k <= Len(v)} = DOMAIN w
    BY <1>7, <2>1
  <2> QED
    BY <2>2 DEF OverBy, Over, ToSet
<1>9. Cardinality(Over(w)) + Cardinality(Over(w)) <= Cardinality(Over(v))
  BY <1>4, <1>8 DEF Paid
<1>10. Len(Expired(c)') = Cardinality(Over(w)) /\ Len(Expired(c)) = Cardinality(Over(v))
  BY <1>1, <1>5, <1>7, ExpiredIs DEF Expired
<1>11. Cardinality(Over(w)) \in Nat /\ Cardinality(Over(v)) \in Nat
  <2>1. 0 \in Nat
    OBVIOUS
  <2> QED
    BY <1>1, <1>7, <2>1, OverIsFinite
<1>12. 2 * Len(Expired(c)') <= Len(Expired(c))
  BY <1>9, <1>10, <1>11
<1> QED
  BY <1>6, <1>12

\* A pass leaves every ban that still runs, in its order, and removes at least
\* half of the others although it skips the one after each that it removes.
THEOREM TempBanPasses == Spec => PassSound
<1>1. IInv => (\A c \in Client : Pass(c) => /\ Running(c)' = Running(c)
                                            /\ 2 * Len(Expired(c)') <= Len(Expired(c)))
  BY PassIsSound
<1> QED
  BY <1>1, TempBanInductive, PTL DEF PassSound

-----------------------------------------------------------------------------
(* What ends a ban that still runs.                                        *)

\* The removals in a queue are of bans that have run out by the time t.
RemovesOld(q, t) ==
  \A i \in DOMAIN q : q[i].type = "remove" => \A b \in q[i].bans : b.until <= t

\* As long as nobody has lifted a ban, no other removals are on their way.
OldRemovals ==
  /\ lifts \in Nat
  /\ lifts = 0 => \A c \in Client : RemovesOld(c2s[c], now) /\ RemovesOld(s2c[c], now)

\* What has run out has run out for good.
LEMMA OldForGood ==
  ASSUME NEW q \in Seq(Messages), NEW t \in Nat, NEW u \in Nat, t <= u, RemovesOld(q, t)
  PROVE  RemovesOld(q, u)
<1> SUFFICES ASSUME NEW i \in DOMAIN q, q[i].type = "remove", NEW b \in q[i].bans
             PROVE  b.until <= u
  BY DEF RemovesOld
<1>1. q[i] \in Messages
  OBVIOUS
<1>2. b \in Entries
  BY <1>1, MessagesAre
<1>3. b.until \in Nat /\ b.until <= t
  BY <1>2, TimesAre DEF RemovesOld
<1> QED BY <1>3

\* Queues that get longer, and shorter.
LEMMA OldQueues ==
  ASSUME NEW q \in Seq(Messages), NEW t, RemovesOld(q, t)
  PROVE  /\ \A r \in Seq(Messages) : RemovesOld(r, t) => RemovesOld(q \o r, t)
         /\ \A m \in Messages : m.type # "remove" \/ (\A b \in m.bans : b.until <= t)
                                  => RemovesOld(Append(q, m), t)
         /\ q # <<>> => RemovesOld(Tail(q), t)
         /\ q # <<>> /\ Head(q).type = "remove" => \A b \in Head(q).bans : b.until <= t
<1>1. ASSUME NEW r \in Seq(Messages), RemovesOld(r, t), NEW i \in DOMAIN (q \o r)
      PROVE  (\E j \in DOMAIN q : (q \o r)[i] = q[j]) \/ (\E j \in DOMAIN r : (q \o r)[i] = r[j])
  <2>1. /\ Len(q) \in Nat /\ DOMAIN q = 1 .. Len(q)
        /\ Len(r) \in Nat /\ DOMAIN r = 1 .. Len(r)
        /\ DOMAIN (q \o r) = 1 .. Len(q) + Len(r)
        /\ (q \o r)[i] = IF i <= Len(q) THEN q[i] ELSE r[i - Len(q)]
    OBVIOUS
  <2>2. CASE i <= Len(q)
    BY <2>1, <2>2
  <2>3. CASE ~ (i <= Len(q))
    <3>1. i - Len(q) \in DOMAIN r
      BY <2>1, <2>3
    <3> QED BY <2>1, <2>3, <3>1
  <2> QED BY <2>2, <2>3
<1>2. ASSUME NEW r \in Seq(Messages), RemovesOld(r, t) PROVE RemovesOld(q \o r, t)
  BY <1>1, <1>2 DEF RemovesOld
<1>3. ASSUME NEW m \in Messages, m.type # "remove" \/ (\A b \in m.bans : b.until <= t)
      PROVE  RemovesOld(Append(q, m), t)
  <2>1. <<m>> \in Seq(Messages) /\ Append(q, m) = q \o <<m>>
    OBVIOUS
  <2>2. RemovesOld(<<m>>, t)
    BY <1>3 DEF RemovesOld
  <2> QED BY <1>2, <2>1, <2>2
<1>4. ASSUME q # <<>>, NEW i \in DOMAIN Tail(q) PROVE i + 1 \in DOMAIN q /\ Tail(q)[i] = q[i + 1]
  BY <1>4
<1>5. q # <<>> => RemovesOld(Tail(q), t)
  BY <1>4 DEF RemovesOld
<1>6. q # <<>> => 1 \in DOMAIN q /\ Head(q) = q[1]
  OBVIOUS
<1> QED BY <1>2, <1>3, <1>5, <1>6 DEF RemovesOld

\* A pass sends off only bans that have run out.
LEMMA PassSendsOld ==
  ASSUME NEW c \in Client, Agree(vec[c], map[c]), now \in Nat, NEW h, PassesBy(h, c),
         NEW i \in 0 .. Len(vec[c])
  PROVE  RemovesOld(h[i].sent, now)
<1> DEFINE n == Len(vec[c])
           Good == {j \in 0 .. n : RemovesOld(h[j].sent, now)}
<1>1. n \in Nat
  BY DEF Agree
<1>2. 0 \in Good
  <2>1. h[0].sent = <<>>
    BY LiftedIs DEF PassesBy
  <2>2. RemovesOld(<<>>, now) /\ 0 \in 0 .. n
    BY <1>1 DEF RemovesOld
  <2> HIDE DEF n
  <2> QED BY <2>1, <2>2
<1>3. ASSUME NEW j \in 1 .. n, j - 1 \in Good PROVE j \in Good
  <2> DEFINE list == h[j - 1]
             next == h[j]
  <2>1. j \in 0 .. n /\ j - 1 \in 0 .. n /\ j \in Nat \ {0} /\ RemovesOld(list.sent, now)
    BY <1>1, <1>3
  <2>2. Agree(list.vec, list.map) /\ list.sent \in Seq(Messages)
    BY <2>1, PassKeeps
  <2>3. next = Visit(list, j)
    BY DEF PassesBy
  <2> HIDE DEF list, next, Good, n
  <2>4. CASE j <= Len(list.vec) /\ list.vec[j].until <= now
    <3> DEFINE b == list.vec[j]
               m == Msg("remove", {b})
               r == Removed(list, b.key)
    <3>1. b \in Entries
      BY <2>1, <2>2, <2>4 DEF Agree
    <3>2. m \in Messages
      BY <3>1, MessagesAre
    <3>3. \A d \in m.bans : d.until <= now
      BY <2>4 DEF Msg
    <3>4. next = Lifted(r, Append(list.sent, m))
      BY <2>3, <2>4 DEF Visit
    <3> HIDE DEF m, r
    <3>5. RemovesOld(Append(list.sent, m), now)
      BY <2>1, <2>2, <3>2, <3>3, OldQueues
    <3>6. next.sent = Append(list.sent, m)
      BY <3>4, LiftedIs
    <3> QED BY <2>1, <3>5, <3>6 DEF Good, next
  <2>5. CASE ~ (j <= Len(list.vec) /\ list.vec[j].until <= now)
    <3>1. next = list
      BY <2>3, <2>5 DEF Visit
    <3> QED BY <2>1, <3>1 DEF Good, next
  <2> QED BY <2>4, <2>5
<1>4. \A j \in 0 .. n : j \in Good
  <2> HIDE DEF Good, n
  <2> QED BY <1>1, <1>2, <1>3, Passing!UpTo
<1> QED BY <1>4

\* What is sent to the server goes to the end of the queue.
LEMMA OldToServer ==
  ASSUME IInv, OldRemovals, lifts = 0, NEW c \in Client, NEW msgs \in Seq(Messages),
         ToServer(c, msgs), RemovesOld(msgs, now), NEW d \in Client
  PROVE  RemovesOld(c2s'[d], now)
<1>1. c2s[c] \in Seq(Messages) /\ RemovesOld(c2s[c], now) /\ RemovesOld(c2s[d], now)
  BY DEF IInv, Types, OldRemovals
<1>2. c2s'[d] = IF d = c THEN c2s[c] \o msgs ELSE c2s[d]
  BY DEF ToServer, IInv, Types
<1> QED BY <1>1, <1>2, OldQueues

\* What the server hears is the first of the queue, and the others are left.
LEMMA OldHeard ==
  ASSUME IInv, OldRemovals, lifts = 0, NEW c \in Client, NEW type, Heard(c, type)
  PROVE  /\ Head(c2s[c]) \in Messages /\ Head(c2s[c]).type = type
         /\ type = "remove" => \A b \in Head(c2s[c]).bans : b.until <= now
         /\ \A d \in Client : RemovesOld(c2s'[d], now)
<1>1. c2s[c] \in Seq(Messages) /\ RemovesOld(c2s[c], now) /\ c2s[c] # <<>>
  BY DEF IInv, Types, OldRemovals, Heard
<1>2. Head(c2s[c]) \in Messages /\ RemovesOld(Tail(c2s[c]), now)
  BY <1>1, SetOfTail, OldQueues
<1>3. \A d \in Client : c2s'[d] = IF d = c THEN Tail(c2s[c]) ELSE c2s[d]
  BY DEF Heard, IInv, Types
<1>4. \A d \in Client : RemovesOld(c2s'[d], now)
  BY <1>2, <1>3 DEF OldRemovals
<1>5. Head(c2s[c]).type = type
  BY DEF Heard
<1> QED BY <1>1, <1>2, <1>4, <1>5, OldQueues

\* And so with what the server sends on.
LEMMA OldBroadcast ==
  ASSUME IInv, OldRemovals, lifts = 0, NEW c \in Client, NEW m \in Messages, Broadcast(c, m),
         m.type # "remove" \/ (\A b \in m.bans : b.until <= now), NEW d \in Client
  PROVE  RemovesOld(s2c'[d], now)
<1>1. s2c[d] \in Seq(Messages) /\ RemovesOld(s2c[d], now)
  BY DEF IInv, Types, OldRemovals
<1>2. RemovesOld(Append(s2c[d], m), now)
  BY <1>1, OldQueues
<1>3. s2c'[d] = IF d \in known \ {c} THEN Append(s2c[d], m) ELSE s2c[d]
  BY DEF Broadcast
<1> QED BY <1>1, <1>2, <1>3

\* What has been lifted is not forgotten.
LEMMA LiftsGrow ==
  ASSUME OldRemovals, [Next]_vars
  PROVE  lifts' \in Nat /\ (lifts' = 0 => lifts = 0)
<1>1. lifts' = lifts \/ lifts' = lifts + 1
  BY DEF Next, ClientStep, ServerStep, vars, server, clients, spent, Tick, Login, UploadList,
         Quit, Ban, Unban, Pass, ClientHandle, HandleHello, HandleAdd, HandleRemove, HandleUpload
<1> QED BY <1>1 DEF OldRemovals

\* Passes remove what has run out, and everybody else only passes removals on.
LEMMA OldStep == IInv /\ OldRemovals /\ [Next]_vars => OldRemovals'
<1> SUFFICES ASSUME IInv, OldRemovals, [Next]_vars PROVE OldRemovals'
  OBVIOUS
<1> USE DEF server, clients, spent
<1>1. lifts' \in Nat /\ (lifts' = 0 => lifts = 0)
  BY LiftsGrow
<1> SUFFICES ASSUME lifts' = 0, NEW d \in Client
             PROVE  RemovesOld(c2s'[d], now') /\ RemovesOld(s2c'[d], now')
  BY <1>1 DEF OldRemovals
<1>2. /\ lifts = 0 /\ now \in Nat /\ c2s[d] \in Seq(Messages) /\ s2c[d] \in Seq(Messages)
      /\ RemovesOld(c2s[d], now) /\ RemovesOld(s2c[d], now)
  BY <1>1 DEF IInv, Types, OldRemovals
<1>3. CASE Tick
  <2>1. now + 1 \in Nat /\ now <= now + 1 /\ now' = now + 1 /\ UNCHANGED <<c2s, s2c>>
    BY <1>2, <1>3 DEF Tick
  <2> QED BY <1>2, <2>1, OldForGood
<1>4. ASSUME NEW c \in Client, NEW msgs \in Seq(Messages), ToServer(c, msgs),
             RemovesOld(msgs, now), UNCHANGED <<now, s2c>>
      PROVE  RemovesOld(c2s'[d], now') /\ RemovesOld(s2c'[d], now')
  BY <1>2, <1>4, OldToServer
<1>5. ASSUME NEW m \in Messages, m.type # "remove"
      PROVE  <<m>> \in Seq(Messages) /\ RemovesOld(<<m>>, now)
  BY <1>5 DEF RemovesOld
<1>6. ASSUME NEW c \in Client, Login(c) PROVE RemovesOld(c2s'[d], now') /\ RemovesOld(s2c'[d], now')
  <2>1. Msg("hello", {}) \in Messages /\ Msg("hello", {}).type # "remove"
    BY MessagesAre DEF Msg
  <2> QED BY <1>4, <1>5, <1>6, <2>1 DEF Login
<1>7. ASSUME NEW c \in Client, UploadList(c)
      PROVE  RemovesOld(c2s'[d], now') /\ RemovesOld(s2c'[d], now')
  <2>1. ToSet(vec[c]) \in SUBSET Entries /\ OnePerKey(ToSet(vec[c]))
    BY SetOfList DEF IInv, ListsAgree, Agree
  <2>2. Msg("upload", ToSet(vec[c])) \in Messages /\ Msg("upload", ToSet(vec[c])).type # "remove"
    BY <2>1, MessagesAre DEF Msg
  <2> QED BY <1>4, <1>5, <1>7, <2>2 DEF UploadList
<1>8. ASSUME NEW c \in Client, Quit(c) PROVE RemovesOld(c2s'[d], now') /\ RemovesOld(s2c'[d], now')
  <2>1. s2c'[d] = IF d = c THEN <<>> ELSE s2c[d]
    BY <1>8 DEF Quit, IInv, Types
  <2>2. RemovesOld(<<>>, now)
    BY DEF RemovesOld
  <2> QED BY <1>2, <1>8, <2>1, <2>2 DEF Quit
<1>9. ASSUME NEW c \in Client, NEW k \in Key, NEW hours \in Hours, Ban(c, k, hours)
      PROVE  RemovesOld(c2s'[d], now') /\ RemovesOld(s2c'[d], now')
  <2>1. PICK start \in 0 .. now : ToServer(c, <<Msg("add", {Entry(k, start + hours)})>>)
    <3>1. now \in 0 .. now
      BY <1>2
    <3> QED BY <1>9, <3>1 DEF Ban
  <2>2. start \in 0 .. MaxTime
    BY TempBanExpiryAssumption DEF IInv, Types
  <2>3. /\ Msg("add", {Entry(k, start + hours)}) \in Messages
        /\ Msg("add", {Entry(k, start + hours)}).type # "remove"
    BY <2>2, TimeIs, EntryIs, MessagesAre DEF Msg
  <2> QED BY <1>4, <1>5, <1>9, <2>1, <2>3 DEF Ban
<1>10. ASSUME NEW c \in Client, NEW k \in Key, Unban(c, k) PROVE FALSE
  BY <1>2, <1>10 DEF Unban
<1>11. ASSUME NEW c \in Client, Pass(c) PROVE RemovesOld(c2s'[d], now') /\ RemovesOld(s2c'[d], now')
  <2>1. Agree(vec[c], map[c]) /\ vec[c] \in Seq(Entries)
    BY DEF IInv, ListsAgree, Agree
  <2>2. PICK h : /\ PassesBy(h, c)
                 /\ FoldLeftDomain(Visit, Lifted(List(c), <<>>), vec[c]) = h[Len(vec[c])]
    BY <2>1, PassIs
  <2> DEFINE list == h[Len(vec[c])]
  <2>3. ToServer(c, list.sent) /\ UNCHANGED <<now, s2c>>
    BY <1>11, <2>2 DEF Pass
  <2>4. Len(vec[c]) \in 0 .. Len(vec[c])
    BY <2>1
  <2>5. list.sent \in Seq(Messages) /\ RemovesOld(list.sent, now)
    BY <1>2, <2>1, <2>2, <2>4, PassKeeps, PassSendsOld
  <2> HIDE DEF list
  <2> QED BY <1>4, <2>3, <2>5
<1>12. ASSUME NEW c \in Client, ClientHandle(c)
       PROVE  RemovesOld(c2s'[d], now') /\ RemovesOld(s2c'[d], now')
  <2>1. s2c[c] # <<>> /\ s2c'[d] = IF d = c THEN Tail(s2c[c]) ELSE s2c[d]
    BY <1>12 DEF ClientHandle, IInv, Types
  <2>2. d = c => RemovesOld(Tail(s2c[c]), now)
    BY <1>2, <2>1, OldQueues
  <2> QED BY <1>2, <1>12, <2>1, <2>2 DEF ClientHandle
<1>13. ASSUME NEW c \in Client, HandleHello(c)
       PROVE  RemovesOld(c2s'[d], now') /\ RemovesOld(s2c'[d], now')
  BY <1>2, <1>13, OldHeard DEF HandleHello
<1>14. ASSUME NEW c \in Client, HandleAdd(c)
       PROVE  RemovesOld(c2s'[d], now') /\ RemovesOld(s2c'[d], now')
  <2>1. /\ RemovesOld(c2s'[d], now) /\ Head(c2s[c]) \in Messages
        /\ Head(c2s[c]).type = "add"
    BY <1>2, <1>14, OldHeard DEF HandleAdd
  <2>2. now' = now /\ (UNCHANGED s2c \/ Broadcast(c, Head(c2s[c])))
    BY <1>14 DEF HandleAdd
  <2> QED BY <1>2, <2>1, <2>2, OldBroadcast
<1>15. ASSUME NEW c \in Client, HandleRemove(c)
       PROVE  RemovesOld(c2s'[d], now') /\ RemovesOld(s2c'[d], now')
  <2>1. /\ RemovesOld(c2s'[d], now) /\ Head(c2s[c]) \in Messages
        /\ \A b \in Head(c2s[c]).bans : b.until <= now
    BY <1>2, <1>15, OldHeard DEF HandleRemove
  <2>2. now' = now /\ (UNCHANGED s2c \/ Broadcast(c, Head(c2s[c])))
    BY <1>15 DEF HandleRemove
  <2> QED BY <1>2, <2>1, <2>2, OldBroadcast
<1>16. ASSUME NEW c \in Client, HandleUpload(c), srv' \in SUBSET Entries, OnePerKey(srv')
       PROVE  RemovesOld(c2s'[d], now') /\ RemovesOld(s2c'[d], now')
  <2> DEFINE m == Msg("bans", srv')
  <2>1. RemovesOld(c2s'[d], now) /\ now' = now
    BY <1>2, <1>16, OldHeard DEF HandleUpload
  <2>2. m \in Messages /\ m.type # "remove"
    BY <1>16, MessagesAre DEF Msg
  <2>3. s2c'[d] = s2c[d] \/ s2c'[d] = Append(s2c[d], m)
    BY <1>16 DEF HandleUpload, IInv, Types
  <2> HIDE DEF m
  <2>4. RemovesOld(Append(s2c[d], m), now)
    BY <1>2, <2>2, OldQueues
  <2> QED BY <1>2, <2>1, <2>3, <2>4
<1>17. srv' \in SUBSET Entries /\ OnePerKey(srv')
  BY TypesStep DEF IInv, Types
<1>18. CASE UNCHANGED vars
  BY <1>2, <1>18 DEF vars
<1> QED
  BY <1>3, <1>6, <1>7, <1>8, <1>9, <1>10, <1>11, <1>12, <1>13, <1>14, <1>15, <1>16, <1>17, <1>18
     DEF Next, ClientStep, ServerStep

\* What leaves the server's list.
LEMMA LeavesServer ==
  ASSUME IInv, OldRemovals, [Next]_vars, lifts = 0, NEW b \in srv \ srv'
  PROVE  \E c \in Client : HandleRemove(c) /\ EndedByOldBan(b, Head(c2s[c]))
<1>1. PICK c \in Client : HandleRemove(c)
  <2>1. ASSUME NEW c \in Client, HandleAdd(c) PROVE srv \subseteq srv'
    BY <2>1 DEF HandleAdd
  <2>2. ASSUME NEW c \in Client, HandleUpload(c) PROVE srv \subseteq srv'
    BY <2>2 DEF HandleUpload
  <2>3. [Next]_vars => \/ srv' = srv
                       \/ \E c \in Client : HandleAdd(c) \/ HandleRemove(c) \/ HandleUpload(c)
    BY DEF Next, ClientStep, ServerStep, vars, server, clients, spent, Tick, Login, UploadList,
           Quit, Ban, Unban, Pass, ClientHandle, HandleHello
  <2> QED BY <2>1, <2>2, <2>3
<1>2. Heard(c, "remove")
  BY <1>1 DEF HandleRemove
<1>3. Head(c2s[c]).type = "remove" /\ \A d \in Head(c2s[c]).bans : d.until <= now
  BY <1>2, OldHeard
<1>4. b.key \in Keys(Head(c2s[c]).bans)
  BY <1>1 DEF HandleRemove
<1> QED BY <1>1, <1>3, <1>4 DEF EndedByOldBan, Keys

\* What leaves the list of a client.
LEMMA LeavesClient ==
  ASSUME IInv, OldRemovals, [Next]_vars, lifts' = 0, NEW c \in Client,
         NEW b \in ToSet(vec[c]) \ ToSet(vec'[c]), b.until > now
  PROVE  /\ ClientHandle(c)
         /\ Head(s2c[c]).type = "bans" \/ EndedByOldBan(b, Head(s2c[c]))
<1> DEFINE m == Head(s2c[c])
<1>1. /\ Agree(vec[c], map[c]) /\ vec[c] \in Seq(Entries) /\ Once(vec[c])
      /\ b \in Entries /\ now \in Nat
  <2>1. Agree(vec[c], map[c]) /\ vec[c] \in Seq(Entries) /\ Once(vec[c]) /\ now \in Nat
    BY DEF IInv, ListsAgree, Types, Agree
  <2> QED BY <2>1, SetOfList
<1>2. lifts = 0
  BY LiftsGrow
<1>3. ASSUME NEW d \in Client, NEW list, SetList(d, list)
      PROVE  vec'[c] = IF d = c THEN list.vec ELSE vec[c]
  BY <1>3 DEF SetList, IInv, Types
<1>4. ASSUME NEW e \in Entries PROVE ToSet(vec[c]) \subseteq ToSet(Append(vec[c], e))
  BY <1>1, SetOfAppend
<1>5. ASSUME NEW d \in Client, NEW k \in Key, NEW hours \in Hours, Ban(d, k, hours) PROVE FALSE
  <2>1. vec'[c] = vec[c] \/ vec'[c] = Append(vec[c], Entry(k, now + hours))
    BY <1>5 DEF Ban, IInv, Types
  <2>2. Entry(k, now + hours) \in Entries
    BY TimeIs, EntryIs DEF IInv, Types
  <2> QED BY <1>4, <2>1, <2>2
<1>6. ASSUME NEW d \in Client, NEW k \in Key, Unban(d, k) PROVE FALSE
  BY <1>2, <1>6 DEF Unban
<1>7. ASSUME NEW d \in Client, Pass(d) PROVE FALSE
  <2>1. d = c
    BY <1>3, <1>7 DEF Pass
  <2>2. Running(c)' = Running(c)
    BY <1>7, <2>1, PassIsSound
  <2>3. vec'[c] \in Seq(Entries)
    BY TypesStep DEF IInv, Types
  <2>4. now' = now
    BY <1>7 DEF Pass
  <2> DEFINE U == {e \in Entries : e.until > now}
  <2>5. Kept(vec'[c], U) = Kept(vec[c], U)
    BY <2>2, <2>4 DEF Running
  <2>6. b \in U
    BY <1>1
  <2> HIDE DEF U
  <2>7. ToSet(vec'[c]) \cap U = ToSet(vec[c]) \cap U
    BY <1>1, <2>3, <2>5, KeptFacts
  <2> QED BY <2>6, <2>7
<1>8. PICK d \in Client : ClientHandle(d)
  <2>1. [Next]_vars => \/ UNCHANGED vec
                       \/ \E d \in Client : \/ \E k \in Key : \/ Unban(d, k)
                                                              \/ \E hours \in Hours : Ban(d, k, hours)
                                            \/ Pass(d) \/ ClientHandle(d)
    BY DEF Next, ClientStep, ServerStep, vars, server, clients, spent, Tick, Login,
           UploadList, Quit, HandleHello, HandleAdd, HandleRemove, HandleUpload
  <2> QED BY <1>5, <1>6, <1>7, <2>1
<1>9. d = c
  BY <1>3, <1>8 DEF ClientHandle
<1>10. /\ ClientHandle(c) /\ s2c[c] \in Seq(Messages) /\ s2c[c] # <<>> /\ m \in Messages
       /\ RemovesOld(s2c[c], now)
  BY <1>2, <1>8, <1>9, SetOfTail DEF ClientHandle, IInv, Types, OldRemovals
<1>11. CASE m.type = "add"
  <2>1. PICK e \in m.bans :
          SetList(c, IF e.key \in map[c] THEN List(c)
                     ELSE [vec |-> Append(vec[c], e), map |-> map[c] \cup {e.key}])
    BY <1>10, <1>11 DEF ClientHandle
  <2>2. vec'[c] = vec[c] \/ vec'[c] = Append(vec[c], e)
    BY <1>3, <2>1 DEF List
  <2>3. e \in Entries
    BY <1>10, MessagesAre
  <2> QED BY <1>4, <2>2, <2>3
<1>12. CASE m.type = "remove"
  <2>1. PICK e \in m.bans :
          SetList(c, IF e.key \in map[c] THEN Removed(List(c), e.key) ELSE List(c))
    BY <1>10, <1>12 DEF ClientHandle
  <2>2. vec'[c] = vec[c] \/ vec'[c] = Kept(vec[c], Others(e.key))
    BY <1>3, <2>1 DEF List, Removed
  <2>3. ToSet(Kept(vec[c], Others(e.key))) = ToSet(vec[c]) \cap Others(e.key)
    BY <1>1, KeptFacts
  <2>4. b.key = e.key
    BY <1>1, <2>2, <2>3 DEF Others
  <2>5. e.until <= now
    BY <1>10, <1>12, OldQueues
  <2> QED BY <1>10, <1>12, <2>4, <2>5 DEF EndedByOldBan
<1>13. CASE m.type = "bans"
  BY <1>10, <1>13
<1> QED BY <1>10, <1>11, <1>12, <1>13 DEF ClientHandle

\* As long as nobody lifts a ban, a ban that still runs is taken off the
\* server's list only on account of an older ban of its address which has run
\* out on some client; and off the list of a client only for that reason, or
\* with the whole list, which the server's replaces.
THEOREM TempBanRunning == Spec => RunningBansStay
<1>1. Init => OldRemovals
  BY DEF Init, OldRemovals, RemovesOld
<1>2. Spec => []OldRemovals
  BY <1>1, TempBanInductive, OldStep, PTL DEF Spec
<1>3. IInv /\ OldRemovals /\ [Next]_vars =>
        (lifts' = 0 =>
          /\ \A b \in srv \ srv' : b.until > now =>
               \E c \in Client : HandleRemove(c) /\ EndedByOldBan(b, Head(c2s[c]))
          /\ \A c \in Client : \A b \in ToSet(vec[c]) \ ToSet(vec'[c]) : b.until > now =>
               /\ ClientHandle(c)
               /\ Head(s2c[c]).type = "bans" \/ EndedByOldBan(b, Head(s2c[c])))
  BY LiftsGrow, LeavesServer, LeavesClient
<1> QED BY <1>2, <1>3, TempBanInductive, PTL DEF Spec, RunningBansStay
=============================================================================
