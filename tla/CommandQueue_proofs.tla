------------------------ MODULE CommandQueue_proofs ------------------------
(* The queue keeps its bound and its two lanes, for every limit and every    *)
(* set of commands.                                                          *)
EXTENDS CommandQueue, Induction
-----------------------------------------------------------------------------
(***************************************************************************)
(* Only(q, S), as a recursion on the last member                           *)
(***************************************************************************)
\* The steps by which Only goes through q.
OnlySteps(C, q, S) ==
  [i \in 1 .. Len(q) |-> [v \in Seq(C) |-> IF q[i] \in S THEN Append(v, q[i]) ELSE v]]

\* Only(q, S) is where these steps lead.
LEMMA OnlyIterates ==
  ASSUME NEW C, NEW q \in Seq(C), NEW S
  PROVE  \E f : /\ Iterates(f, <<>>, OnlySteps(C, q, S), Len(q))
                /\ \A i \in 0 .. Len(q) : f[i] \in Seq(C)
                /\ Only(q, S) = f[Len(q)]
<1>. DEFINE n == Len(q)
            G == OnlySteps(C, q, S)
            Value(f, i) == IF i = 0 THEN <<>>
                           ELSE IF q[i] \in S THEN Append(f[i - 1], q[i]) ELSE f[i - 1]
            Solves(f) == f = [i \in 0 .. n |-> Value(f, i)]
            only == CHOOSE f : Solves(f)
<1>1. n \in Nat /\ <<>> \in Seq(C)
  OBVIOUS
<1>2. G \in [1 .. n -> [Seq(C) -> Seq(C)]]
  BY AppendProperties DEF OnlySteps
<1>3. \A i \in 1 .. n : \A v \in Seq(C) : G[i][v] = IF q[i] \in S THEN Append(v, q[i]) ELSE v
  BY DEF OnlySteps
<1>. HIDE DEF G
<1>4. \E f : Solves(f)
  <2>1. PICK f \in [0 .. n -> Seq(C)] : Iterates(f, <<>>, G, n)
    <3>. HIDE DEF n
    <3>. QED BY <1>1, <1>2, IteratesExist
  <2>2. f[0] = <<>>
    BY <2>1 DEF Iterates
  <2>3. ASSUME NEW i \in 1 .. n
        PROVE  f[i] = IF q[i] \in S THEN Append(f[i - 1], q[i]) ELSE f[i - 1]
    <3>1. f[i - 1] \in Seq(C)
      OBVIOUS
    <3>. QED BY <1>3, <2>1, <3>1 DEF Iterates
  <2>4. \A i \in 0 .. n : f[i] = Value(f, i)
    <3>1. \A i \in 0 .. n : i = 0 \/ i \in 1 .. n
      OBVIOUS
    <3>. HIDE DEF n
    <3>. QED BY <2>2, <2>3, <3>1
  <2>5. Solves(f)
    <3>. HIDE DEF n, Value
    <3>. QED BY <2>4
  <2>. QED BY <2>5
<1>5. Solves(only)
  BY <1>4
<1>6. Only(q, S) = only[n]
  BY DEF Only
<1>. HIDE DEF only
<1>7. only[0] = <<>>
  <2>1. 0 \in 0 .. n
    BY <1>1
  <2>. HIDE DEF n
  <2>. QED BY <1>5, <2>1
<1>8. \A i \in 1 .. n : only[i] = IF q[i] \in S THEN Append(only[i - 1], q[i]) ELSE only[i - 1]
  <2>1. \A i \in 1 .. n : i \in 0 .. n /\ i # 0
    OBVIOUS
  <2>. HIDE DEF n
  <2>2. \A i \in 1 .. n : only[i] = Value(only, i)
    <3>. HIDE DEF Value
    <3>. QED BY <1>5, <2>1
  <2>. QED BY <2>1, <2>2
<1>9. \A i \in 1 .. n : only[i - 1] \in Seq(C) => only[i] = G[i][only[i - 1]]
  BY <1>3, <1>8
<1>. HIDE DEF n, Solves
<1>10. Iterates(only, <<>>, G, n) /\ \A i \in 0 .. n : only[i] \in Seq(C)
  BY <1>1, <1>2, <1>7, <1>9, IteratesTyped
<1>. QED BY <1>6, <1>10 DEF n, G

\* Nothing is left of nothing.
LEMMA OnlyEmpty == \A S : Only(<<>>, S) = <<>>
<1>. TAKE S
<1>1. <<>> \in Seq({}) /\ Len(<<>>) = 0
  OBVIOUS
<1>2. PICK f : Iterates(f, <<>>, OnlySteps({}, <<>>, S), 0) /\ Only(<<>>, S) = f[0]
  BY <1>1, OnlyIterates
<1>. QED BY <1>2 DEF Iterates

\* A member that joins q joins what is left of q iff it is in S.
LEMMA OnlyAppend ==
  ASSUME NEW C, NEW q \in Seq(C), NEW c \in C, NEW S
  PROVE  /\ Only(q, S) \in Seq(C)
         /\ Only(Append(q, c), S) = IF c \in S THEN Append(Only(q, S), c) ELSE Only(q, S)
<1>. DEFINE p == Append(q, c)
            n == Len(q)
            G == OnlySteps(C, q, S)
            H == OnlySteps(C, p, S)
<1>1. p \in Seq(C) /\ Len(p) = n + 1 /\ p[n + 1] = c /\ \A i \in 1 .. n : p[i] = q[i]
  BY AppendProperties
<1>2. n \in Nat
  OBVIOUS
<1>. HIDE DEF p, n
<1>3. PICK f : /\ Iterates(f, <<>>, G, n)
               /\ \A i \in 0 .. n : f[i] \in Seq(C)
               /\ Only(q, S) = f[n]
  BY OnlyIterates DEF n
<1>4. PICK g : /\ Iterates(g, <<>>, H, n + 1)
               /\ \A i \in 0 .. n + 1 : g[i] \in Seq(C)
               /\ Only(p, S) = g[n + 1]
  BY <1>1, OnlyIterates
<1>5. \A i \in 1 .. n : G[i] = H[i]
  <2>. SUFFICES ASSUME NEW i \in 1 .. n PROVE G[i] = H[i]
    OBVIOUS
  <2>1. i \in 1 .. Len(q) /\ i \in 1 .. Len(p) /\ p[i] = q[i]
    BY <1>1, <1>2 DEF n
  <2>. QED BY <2>1 DEF OnlySteps
<1>6. H[n + 1][g[n]] = IF c \in S THEN Append(g[n], c) ELSE g[n]
  BY <1>1, <1>2, <1>4 DEF OnlySteps
<1>. HIDE DEF G, H
<1>7. Iterates(g, <<>>, G, n)
  BY <1>2, <1>4, <1>5 DEF Iterates
<1>8. f[n] = g[n]
  BY <1>2, <1>3, <1>7, IteratesAgree
<1>9. g[n + 1] = H[n + 1][g[n]]
  <2>1. n + 1 \in 1 .. n + 1 /\ (n + 1) - 1 = n
    BY <1>2
  <2>. QED BY <1>4, <2>1 DEF Iterates
<1>10. Only(q, S) \in Seq(C)
  BY <1>2, <1>3
<1>. QED BY <1>3, <1>4, <1>6, <1>8, <1>9, <1>10 DEF p

\* What is left is a sequence of the same commands.
LEMMA OnlyType ==
  ASSUME NEW C, NEW q \in Seq(C), NEW S
  PROVE  Only(q, S) \in Seq(C)
<1>1. Len(q) \in 0 .. Len(q)
  OBVIOUS
<1>. QED BY <1>1, OnlyIterates

\* One member that joins a sequence: the set of its members, and whether they differ.
LEMMA AppendMembers ==
  ASSUME NEW C, NEW q \in Seq(C), NEW c \in C
  PROVE  /\ ToSet(Append(q, c)) = ToSet(q) \cup {c}
         /\ IsInjective(Append(q, c)) <=> IsInjective(q) /\ c \notin ToSet(q)
<1>. DEFINE p == Append(q, c)
            n == Len(q)
<1>1. p \in Seq(C) /\ Len(p) = n + 1 /\ p[n + 1] = c /\ \A i \in 1 .. n : p[i] = q[i]
  BY AppendProperties
<1>2. n \in Nat /\ DOMAIN q = 1 .. n /\ DOMAIN p = 1 .. n + 1
  BY <1>1
<1>3. \A i \in 1 .. n + 1 : i \in 1 .. n \/ i = n + 1
  BY <1>2
<1>4. n + 1 \in 1 .. n + 1 /\ n + 1 \notin 1 .. n /\ \A i \in 1 .. n : i \in 1 .. n + 1
  BY <1>2
<1>. HIDE DEF p, n
<1>5. ToSet(p) = ToSet(q) \cup {c}
  BY <1>1, <1>2, <1>3, <1>4 DEF ToSet
<1>6. IsInjective(p) => IsInjective(q)
  BY <1>1, <1>2, <1>4 DEF IsInjective
<1>7. IsInjective(p) => c \notin ToSet(q)
  BY <1>1, <1>2, <1>4 DEF IsInjective, ToSet
<1>8. IsInjective(q) /\ c \notin ToSet(q) => IsInjective(p)
  BY <1>1, <1>2, <1>3 DEF IsInjective, ToSet
<1>. QED BY <1>5, <1>6, <1>7, <1>8 DEF p

\* A recursion over the second sequence of a concatenation.
LEMMA ConcatAppend ==
  ASSUME NEW C, NEW q \in Seq(C), NEW r \in Seq(C), NEW c \in C
  PROVE  /\ q \o Append(r, c) = Append(q \o r, c)
         /\ Append(r, c) = r \o <<c>>
         /\ q \o r \in Seq(C) /\ Append(r, c) \in Seq(C)
  OBVIOUS

\* The members of a concatenation, and when they all differ.
LEMMA ConcatMembers ==
  ASSUME NEW C, NEW q \in Seq(C), NEW r \in Seq(C)
  PROVE  /\ ToSet(q \o r) = ToSet(q) \cup ToSet(r)
         /\ IsInjective(q \o r)
              <=> IsInjective(q) /\ IsInjective(r) /\ ToSet(q) \cap ToSet(r) = {}
<1>. DEFINE T == {s \in Seq(C) :
              /\ ToSet(q \o s) = ToSet(q) \cup ToSet(s)
              /\ IsInjective(q \o s)
                   <=> IsInjective(q) /\ IsInjective(s) /\ ToSet(q) \cap ToSet(s) = {}}
<1>1. <<>> \in T
  <2>1. q \o <<>> = q
    OBVIOUS
  <2>2. ToSet(<<>>) = {} /\ IsInjective(<<>>)
    BY DEF ToSet, IsInjective
  <2>. QED BY <2>1, <2>2
<1>2. ASSUME NEW s \in Seq(C), NEW c \in C, s \in T PROVE Append(s, c) \in T
  <2>1. q \o Append(s, c) = Append(q \o s, c) /\ q \o s \in Seq(C)
        /\ Append(s, c) \in Seq(C)
    BY ConcatAppend
  <2>2. ToSet(q \o Append(s, c)) = ToSet(q \o s) \cup {c}
        /\ (IsInjective(q \o Append(s, c)) <=> IsInjective(q \o s) /\ c \notin ToSet(q \o s))
    <3>. DEFINE w == q \o s
    <3>1. w \in Seq(C)
      BY <2>1
    <3>. HIDE DEF w
    <3>2. ToSet(Append(w, c)) = ToSet(w) \cup {c}
          /\ (IsInjective(Append(w, c)) <=> IsInjective(w) /\ c \notin ToSet(w))
      BY <3>1, AppendMembers
    <3>. QED BY <2>1, <3>2 DEF w
  <2>3. ToSet(Append(s, c)) = ToSet(s) \cup {c}
        /\ (IsInjective(Append(s, c)) <=> IsInjective(s) /\ c \notin ToSet(s))
    BY AppendMembers
  <2>4. /\ ToSet(q \o s) = ToSet(q) \cup ToSet(s)
        /\ IsInjective(q \o s)
              <=> IsInjective(q) /\ IsInjective(s) /\ ToSet(q) \cap ToSet(s) = {}
    BY <1>2
  <2>5. ToSet(q \o Append(s, c)) = ToSet(q) \cup ToSet(Append(s, c))
    BY <2>2, <2>3, <2>4
  <2>6. IsInjective(q \o Append(s, c))
          <=> IsInjective(q) /\ IsInjective(Append(s, c)) /\ ToSet(q) \cap ToSet(Append(s, c)) = {}
    BY <2>2, <2>3, <2>4
  <2>. QED BY <2>1, <2>5, <2>6
<1>. HIDE DEF T
<1>3. r \in T
  BY <1>1, <1>2, FromEmptyUp
<1>. QED BY <1>3 DEF T

\* What is left of q: its members in S, no more of them than q has, and all
\* different if those of q were.
LEMMA OnlyMembers ==
  ASSUME NEW C, NEW q \in Seq(C), NEW S
  PROVE  /\ ToSet(Only(q, S)) = ToSet(q) \cap S
         /\ Len(Only(q, S)) <= Len(q)
         /\ Len(Only(q, S)) = Len(q) => Only(q, S) = q
         /\ IsInjective(q) => IsInjective(Only(q, S))
<1>. DEFINE T == {s \in Seq(C) :
              /\ ToSet(Only(s, S)) = ToSet(s) \cap S
              /\ Len(Only(s, S)) <= Len(s)
              /\ Len(Only(s, S)) = Len(s) => Only(s, S) = s
              /\ IsInjective(s) => IsInjective(Only(s, S))}
<1>1. <<>> \in T
  <2>1. ToSet(<<>>) = {} /\ IsInjective(<<>>)
    BY DEF ToSet, IsInjective
  <2>. QED BY <2>1, OnlyEmpty
<1>2. ASSUME NEW s \in Seq(C), NEW c \in C, s \in T PROVE Append(s, c) \in T
  <2>. DEFINE o == Only(s, S)
              a == Append(s, c)
  <2>1. o \in Seq(C) /\ Only(a, S) = IF c \in S THEN Append(o, c) ELSE o
    BY OnlyAppend
  <2>2. /\ ToSet(o) = ToSet(s) \cap S
        /\ Len(o) <= Len(s)
        /\ Len(o) = Len(s) => o = s
        /\ IsInjective(s) => IsInjective(o)
    BY <1>2
  <2>3. /\ ToSet(a) = ToSet(s) \cup {c}
        /\ IsInjective(a) <=> IsInjective(s) /\ c \notin ToSet(s)
        /\ ToSet(Append(o, c)) = ToSet(o) \cup {c}
        /\ IsInjective(Append(o, c)) <=> IsInjective(o) /\ c \notin ToSet(o)
    BY <2>1, AppendMembers
  <2>4. /\ a \in Seq(C) /\ Len(a) = Len(s) + 1 /\ Len(s) \in Nat
        /\ Len(Append(o, c)) = Len(o) + 1 /\ Len(o) \in Nat
    BY <2>1, AppendProperties
  <2>. HIDE DEF o, a
  <2>5. ToSet(Only(a, S)) = ToSet(a) \cap S
    BY <2>1, <2>2, <2>3
  <2>6. Len(Only(a, S)) <= Len(a)
    BY <2>1, <2>2, <2>4
  <2>7. Len(Only(a, S)) = Len(a) => Only(a, S) = a
    BY <2>1, <2>2, <2>4 DEF a
  <2>8. IsInjective(a) => IsInjective(Only(a, S))
    BY <2>1, <2>2, <2>3
  <2>. QED BY <2>4, <2>5, <2>6, <2>7, <2>8 DEF a
<1>. HIDE DEF T
<1>3. q \in T
  BY <1>1, <1>2, FromEmptyUp
<1>. QED BY <1>3 DEF T

\* Only goes through two sequences one after the other, and two sets at once.
LEMMA OnlyConcat ==
  ASSUME NEW C, NEW q \in Seq(C), NEW r \in Seq(C), NEW S
  PROVE  Only(q \o r, S) = Only(q, S) \o Only(r, S)
<1>. DEFINE T == {s \in Seq(C) : Only(q \o s, S) = Only(q, S) \o Only(s, S)}
<1>1. <<>> \in T
  <2>1. Only(q, S) \in Seq(C)
    BY OnlyType
  <2>2. q \o <<>> = q /\ Only(q, S) \o <<>> = Only(q, S)
    BY <2>1, ConcatEmptySeq
  <2>3. Only(<<>>, S) = <<>>
    BY OnlyEmpty
  <2>4. Only(q \o <<>>, S) = Only(q, S) \o Only(<<>>, S)
    BY <2>2, <2>3, Zenon
  <2>5. <<>> \in Seq(C)
    OBVIOUS
  <2>. QED BY <2>4, <2>5, Zenon
<1>2. ASSUME NEW s \in Seq(C), NEW c \in C, s \in T PROVE Append(s, c) \in T
  <2>1. Only(q \o s, S) = Only(q, S) \o Only(s, S)
    BY <1>2
  <2>2. /\ q \o Append(s, c) = Append(q \o s, c)
        /\ q \o s \in Seq(C) /\ Append(s, c) \in Seq(C)
    BY ConcatAppend
  <2>3. Only(Append(s, c), S) = IF c \in S THEN Append(Only(s, S), c) ELSE Only(s, S)
    BY OnlyAppend
  <2>4. Only(Append(q \o s, c), S)
          = IF c \in S THEN Append(Only(q \o s, S), c) ELSE Only(q \o s, S)
    <3>. DEFINE w == q \o s
    <3>1. w \in Seq(C)
      BY <2>2
    <3>. HIDE DEF w
    <3>2. Only(Append(w, c), S) = IF c \in S THEN Append(Only(w, S), c) ELSE Only(w, S)
      BY <3>1, OnlyAppend
    <3>. QED BY <3>2 DEF w
  <2>5. Only(q, S) \o Append(Only(s, S), c) = Append(Only(q, S) \o Only(s, S), c)
    BY OnlyType, ConcatAppend
  <2>6. Only(q \o Append(s, c), S) = Only(q, S) \o Only(Append(s, c), S)
    BY <2>1, <2>2, <2>3, <2>4, <2>5
  <2>. QED BY <2>2, <2>6
<1>. HIDE DEF T
<1>3. r \in T
  BY <1>1, <1>2, FromEmptyUp
<1>. QED BY <1>3 DEF T

\* Keeping S and then T keeps what is in both.
LEMMA OnlyOnly ==
  ASSUME NEW C, NEW q \in Seq(C), NEW S, NEW R
  PROVE  Only(Only(q, S), R) = Only(q, S \cap R)
<1>. DEFINE both == S \cap R
            T == {s \in Seq(C) : Only(Only(s, S), R) = Only(s, both)}
<1>0. \A c : c \in both <=> c \in S /\ c \in R
  OBVIOUS
<1>. HIDE DEF both
<1>1. <<>> \in T
  BY OnlyEmpty
<1>2. ASSUME NEW s \in Seq(C), NEW c \in C, s \in T PROVE Append(s, c) \in T
  <2>1. Only(Only(s, S), R) = Only(s, both)
    BY <1>2
  <2>2. Only(Append(s, c), S) = IF c \in S THEN Append(Only(s, S), c) ELSE Only(s, S)
    BY OnlyAppend
  <2>3. Only(Append(s, c), both)
          = IF c \in both THEN Append(Only(s, both), c) ELSE Only(s, both)
    BY OnlyAppend
  <2>4. Only(Append(Only(s, S), c), R)
          = IF c \in R THEN Append(Only(Only(s, S), R), c) ELSE Only(Only(s, S), R)
    BY OnlyType, OnlyAppend
  <2>5. Append(s, c) \in Seq(C)
    OBVIOUS
  <2>6. Only(Only(Append(s, c), S), R) = Only(Append(s, c), both)
    <3>1. CASE c \in S
      <4>1. Only(Append(s, c), S) = Append(Only(s, S), c)
        BY <2>2, <3>1, Zenon
      <4>2. CASE c \in R
        BY <1>0, <2>1, <2>3, <2>4, <3>1, <4>1, <4>2, Zenon
      <4>3. CASE c \notin R
        BY <1>0, <2>1, <2>3, <2>4, <4>1, <4>3, Zenon
      <4>. QED BY <4>2, <4>3
    <3>2. CASE c \notin S
      BY <1>0, <2>1, <2>2, <2>3, <3>2, Zenon
    <3>. QED BY <3>1, <3>2
  <2>. QED BY <2>5, <2>6, Zenon
<1>. HIDE DEF T
<1>3. q \in T
  BY <1>1, <1>2, FromEmptyUp
<1>. QED BY <1>3 DEF T, both

\* All of q is kept, or nothing.
LEMMA OnlyAll ==
  ASSUME NEW C, NEW q \in Seq(C), NEW S
  PROVE  /\ ToSet(q) \subseteq S => Only(q, S) = q
         /\ ToSet(q) \cap S = {} => Only(q, S) = <<>>
<1>. DEFINE T == {s \in Seq(C) : /\ ToSet(s) \subseteq S => Only(s, S) = s
                                 /\ ToSet(s) \cap S = {} => Only(s, S) = <<>>}
<1>1. <<>> \in T
  BY OnlyEmpty
<1>2. ASSUME NEW s \in Seq(C), NEW c \in C, s \in T PROVE Append(s, c) \in T
  <2>1. ToSet(Append(s, c)) = ToSet(s) \cup {c}
    BY AppendMembers
  <2>2. Only(Append(s, c), S) = IF c \in S THEN Append(Only(s, S), c) ELSE Only(s, S)
    BY OnlyAppend
  <2>3. Append(s, c) \in Seq(C)
    OBVIOUS
  <2>. QED BY <1>2, <2>1, <2>2, <2>3
<1>. HIDE DEF T
<1>3. q \in T
  BY <1>1, <1>2, FromEmptyUp
<1>. QED BY <1>3 DEF T

\* What is left of one command.
LEMMA OnlyOne ==
  ASSUME NEW C, NEW c \in C, NEW S
  PROVE  Only(<<c>>, S) = IF c \in S THEN <<c>> ELSE <<>>
<1>1. <<>> \in Seq(C) /\ Append(<<>>, c) = <<c>>
  OBVIOUS
<1>2. \A q \in Seq(C) : Only(Append(q, c), S) = IF c \in S THEN Append(Only(q, S), c) ELSE Only(q, S)
  BY OnlyAppend
<1>. DEFINE e == <<>>
<1>3. e \in Seq(C) /\ Only(e, S) = e /\ Append(e, c) = <<c>>
  BY <1>1, OnlyEmpty
<1>. HIDE DEF e
<1>4. Only(Append(e, c), S) = IF c \in S THEN Append(e, c) ELSE e
  BY <1>2, <1>3
<1>. QED BY <1>3, <1>4 DEF e
-----------------------------------------------------------------------------
(***************************************************************************)
(* What a post does to the queue                                           *)
(***************************************************************************)
\* A queue with the answer to the commands put in it so far.
Stages == [ok : BOOLEAN, q : Seq(Commands)]

\* nativeQueueHttpCommandLocked answers with a queue of commands.
LEMMA LockedType ==
  ASSUME NEW q \in Seq(Commands), NEW c \in Commands
  PROVE  QueueLocked(q, c) \in Stages
<1>1. Kept(q, c) \in Seq(Commands)
  BY OnlyType DEF Kept
<1>2. <<c>> \o Kept(q, c) \in Seq(Commands) /\ Append(Kept(q, c), c) \in Seq(Commands)
  BY <1>1
<1>. HIDE DEF Stages
<1>3. \A ok \in BOOLEAN : \A r \in Seq(Commands) : [ok |-> ok, q |-> r] \in Stages
  BY DEF Stages
<1>. QED BY <1>1, <1>2, <1>3 DEF QueueLocked

\* The steps by which a batch is staged.
StagedSteps(cs) ==
  [i \in 1 .. Len(cs) |-> [v \in Stages |-> IF v.ok THEN QueueLocked(v.q, cs[i]) ELSE v]]

\* Staging a batch is as many posts as it has commands.
LEMMA StagedIterates ==
  ASSUME NEW cs \in Seq(Commands), queue \in Seq(Commands)
  PROVE  \E f : /\ Iterates(f, [ok |-> TRUE, q |-> queue], StagedSteps(cs), Len(cs))
                /\ \A i \in 0 .. Len(cs) : f[i] \in Stages
                /\ Staged(cs) = f[Len(cs)]
<1>. DEFINE n == Len(cs)
            base == [ok |-> TRUE, q |-> queue]
            G == StagedSteps(cs)
            Value(f, i) == IF i = 0 THEN base
                           ELSE IF f[i - 1].ok THEN QueueLocked(f[i - 1].q, cs[i]) ELSE f[i - 1]
            Solves(f) == f = [i \in 0 .. n |-> Value(f, i)]
            staged == CHOOSE f : Solves(f)
<1>1. n \in Nat /\ base \in Stages
  BY DEF Stages
<1>2. \A v \in Stages : v.ok \in BOOLEAN /\ v.q \in Seq(Commands)
  BY DEF Stages
<1>3. \A i \in 1 .. n : cs[i] \in Commands
  OBVIOUS
<1>4. G \in [1 .. n -> [Stages -> Stages]]
  <2>1. \A i \in 1 .. n : \A v \in Stages :
          (IF v.ok THEN QueueLocked(v.q, cs[i]) ELSE v) \in Stages
    BY <1>2, <1>3, LockedType
  <2>. QED BY <2>1 DEF StagedSteps
<1>5. \A i \in 1 .. n : \A v \in Stages :
        G[i][v] = IF v.ok THEN QueueLocked(v.q, cs[i]) ELSE v
  BY DEF StagedSteps
<1>. HIDE DEF G
<1>6. \E f : Solves(f)
  <2>1. PICK f \in [0 .. n -> Stages] : Iterates(f, base, G, n)
    <3>. HIDE DEF n, base
    <3>. QED BY <1>1, <1>4, IteratesExist
  <2>2. f[0] = base
    BY <2>1 DEF Iterates
  <2>3. ASSUME NEW i \in 1 .. n
        PROVE  f[i] = IF f[i - 1].ok THEN QueueLocked(f[i - 1].q, cs[i]) ELSE f[i - 1]
    <3>1. f[i - 1] \in Stages
      OBVIOUS
    <3>. QED BY <1>5, <2>1, <3>1 DEF Iterates
  <2>4. \A i \in 0 .. n : f[i] = Value(f, i)
    <3>1. \A i \in 0 .. n : i = 0 \/ i \in 1 .. n
      OBVIOUS
    <3>. HIDE DEF n, base
    <3>. QED BY <2>2, <2>3, <3>1
  <2>5. Solves(f)
    <3>. HIDE DEF n, Value
    <3>. QED BY <2>4
  <2>. QED BY <2>5
<1>7. Solves(staged)
  BY <1>6
<1>8. Staged(cs) = staged[n]
  BY DEF Staged
<1>. HIDE DEF staged, base
<1>9. \A i \in 0 .. n : staged[i] = Value(staged, i)
  <2>. HIDE DEF n, Value
  <2>. QED BY <1>7
<1>10. staged[0] = base
  <2>1. 0 \in 0 .. n
    BY <1>1
  <2>. HIDE DEF n
  <2>. QED BY <1>9, <2>1
<1>11. \A i \in 1 .. n : staged[i - 1] \in Stages => staged[i] = G[i][staged[i - 1]]
  <2>1. \A i \in 1 .. n : i \in 0 .. n /\ i # 0
    OBVIOUS
  <2>. HIDE DEF n
  <2>. QED BY <1>5, <1>9, <2>1
<1>. HIDE DEF n, Solves
<1>12. Iterates(staged, base, G, n) /\ \A i \in 0 .. n : staged[i] \in Stages
  BY <1>1, <1>4, <1>10, <1>11, IteratesTyped
<1>. QED BY <1>8, <1>12 DEF n, G, base

\* Staging an empty batch changes nothing.
LEMMA StagedEmpty ==
  ASSUME queue \in Seq(Commands)
  PROVE  Staged(<<>>) = [ok |-> TRUE, q |-> queue]
<1>1. <<>> \in Seq(Commands) /\ Len(<<>>) = 0
  OBVIOUS
<1>2. PICK f : /\ Iterates(f, [ok |-> TRUE, q |-> queue], StagedSteps(<<>>), 0)
               /\ Staged(<<>>) = f[0]
  BY <1>1, StagedIterates
<1>. QED BY <1>2 DEF Iterates

\* Staging goes on with the last command of a batch where it ended before it.
LEMMA StagedAppend ==
  ASSUME queue \in Seq(Commands), NEW cs \in Seq(Commands), NEW c \in Commands
  PROVE  /\ Staged(cs) \in Stages
         /\ Staged(Append(cs, c))
              = IF Staged(cs).ok THEN QueueLocked(Staged(cs).q, c) ELSE Staged(cs)
<1>. DEFINE ds == Append(cs, c)
            n == Len(cs)
            base == [ok |-> TRUE, q |-> queue]
            G == StagedSteps(cs)
            H == StagedSteps(ds)
<1>1. ds \in Seq(Commands) /\ Len(ds) = n + 1 /\ ds[n + 1] = c
      /\ \A i \in 1 .. n : ds[i] = cs[i]
  BY AppendProperties
<1>2. n \in Nat
  OBVIOUS
<1>. HIDE DEF ds, n, base
<1>4. PICK f : /\ Iterates(f, base, G, n)
               /\ \A i \in 0 .. n : f[i] \in Stages
               /\ Staged(cs) = f[n]
  BY StagedIterates DEF n, base
<1>5. PICK g : /\ Iterates(g, base, H, n + 1)
               /\ \A i \in 0 .. n + 1 : g[i] \in Stages
               /\ Staged(ds) = g[n + 1]
  BY <1>1, StagedIterates DEF base
<1>6. \A i \in 1 .. n : G[i] = H[i]
  <2>. SUFFICES ASSUME NEW i \in 1 .. n PROVE G[i] = H[i]
    OBVIOUS
  <2>1. i \in 1 .. Len(cs) /\ i \in 1 .. Len(ds) /\ ds[i] = cs[i]
    BY <1>1, <1>2 DEF n
  <2>. QED BY <2>1 DEF StagedSteps
<1>7. H[n + 1][g[n]] = IF g[n].ok THEN QueueLocked(g[n].q, c) ELSE g[n]
  BY <1>1, <1>2, <1>5 DEF StagedSteps
<1>. HIDE DEF G, H
<1>8. Iterates(g, base, G, n)
  BY <1>2, <1>5, <1>6 DEF Iterates
<1>9. f[n] = g[n]
  BY <1>2, <1>4, <1>8, IteratesAgree
<1>10. g[n + 1] = H[n + 1][g[n]]
  <2>1. n + 1 \in 1 .. n + 1 /\ (n + 1) - 1 = n
    BY <1>2
  <2>. QED BY <1>5, <2>1 DEF Iterates
<1>11. Staged(cs) \in Stages
  BY <1>2, <1>4
<1>. QED BY <1>4, <1>5, <1>7, <1>9, <1>10, <1>11 DEF ds, base
-----------------------------------------------------------------------------
(***************************************************************************)
(* The bound, and no command twice                                         *)
(***************************************************************************)
\* SeqOf is the set of sequences up to a length.
LEMMA SeqOfIs ==
  ASSUME NEW S, NEW n \in Nat
  PROVE  \A s : (s \in SeqOf(S, n)) <=> (s \in Seq(S) /\ Len(s) <= n)
<1>. TAKE s
<1>1. ASSUME s \in SeqOf(S, n) PROVE s \in Seq(S) /\ Len(s) <= n
  BY <1>1 DEF SeqOf
<1>2. ASSUME s \in Seq(S), Len(s) <= n PROVE s \in SeqOf(S, n)
  <2>1. s \in [1 .. Len(s) -> S] /\ Len(s) \in 0 .. n
    BY <1>2, LenProperties
  <2>. QED BY <2>1 DEF SeqOf
<1>. QED BY <1>1, <1>2

\* A queue of different commands, within the limit.
Fit(q) == q \in Seq(Commands) /\ Len(q) <= Limit /\ IsInjective(q)

\* A command that is not in the queue leaves it fit, and joins it unless it is
\* refused; a refusal leaves no trace, for it erased nothing.
LEMMA LockedFits ==
  ASSUME NEW q, Fit(q), NEW c \in Commands, c \notin ToSet(q)
  PROVE  /\ Fit(QueueLocked(q, c).q)
         /\ ToSet(QueueLocked(q, c).q) \subseteq ToSet(q) \cup {c}
         /\ ~QueueLocked(q, c).ok => QueueLocked(q, c).q = q
<1>. DEFINE k == Kept(q, c)
<1>1. q \in Seq(Commands) /\ Len(q) \in Nat /\ Len(q) <= Limit /\ IsInjective(q) /\ Limit \in Nat
  BY QueueAssumption DEF Fit
<1>2. k \in Seq(Commands)
  BY <1>1, OnlyType DEF Kept
<1>3. /\ ToSet(k) \subseteq ToSet(q) /\ Len(k) <= Len(q)
      /\ Len(k) = Len(q) => k = q
      /\ IsInjective(k)
  BY <1>1, OnlyMembers DEF Kept
<1>. HIDE DEF k
<1>4. CASE Len(k) >= Limit
  <2>1. QueueLocked(q, c) = [ok |-> FALSE, q |-> k]
    BY <1>4 DEF QueueLocked, k
  <2>2. Len(k) = Len(q)
    BY <1>1, <1>2, <1>3, <1>4
  <2>. QED BY <1>1, <1>3, <2>1, <2>2 DEF Fit
<1>5. CASE Len(k) < Limit
  <2>0. ~(Len(k) >= Limit)
    BY <1>1, <1>2, <1>5
  <2>1. QueueLocked(q, c).ok
        /\ QueueLocked(q, c).q = IF c \in Selections THEN <<c>> \o k ELSE Append(k, c)
    BY <2>0 DEF QueueLocked, k
  <2>2. c \notin ToSet(k)
    BY <1>3
  <2>3. Fit(Append(k, c)) /\ ToSet(Append(k, c)) \subseteq ToSet(q) \cup {c}
    <3>1. Append(k, c) \in Seq(Commands) /\ Len(Append(k, c)) = Len(k) + 1
      BY <1>2
    <3>2. IsInjective(Append(k, c)) /\ ToSet(Append(k, c)) = ToSet(k) \cup {c}
      BY <1>2, <1>3, <2>2, AppendMembers
    <3>3. Len(k) + 1 <= Limit
      BY <1>1, <1>2, <1>5
    <3>. QED BY <1>3, <3>1, <3>2, <3>3 DEF Fit
  <2>4. Fit(<<c>> \o k) /\ ToSet(<<c>> \o k) \subseteq ToSet(q) \cup {c}
    <3>1. <<c>> \o k \in Seq(Commands) /\ Len(<<c>> \o k) = 1 + Len(k) /\ <<c>> \in Seq(Commands)
      BY <1>2
    <3>2. ToSet(<<c>>) = {c} /\ IsInjective(<<c>>)
      BY DEF ToSet, IsInjective
    <3>3. IsInjective(<<c>> \o k) /\ ToSet(<<c>> \o k) = {c} \cup ToSet(k)
      <4>. DEFINE one == <<c>>
      <4>1. one \in Seq(Commands) /\ ToSet(one) = {c} /\ IsInjective(one)
        BY <3>1, <3>2
      <4>. HIDE DEF one
      <4>2. IsInjective(one \o k) /\ ToSet(one \o k) = {c} \cup ToSet(k)
        BY <1>2, <1>3, <2>2, <4>1, ConcatMembers
      <4>. QED BY <4>2 DEF one
    <3>4. 1 + Len(k) <= Limit
      BY <1>1, <1>2, <1>5
    <3>. QED BY <1>3, <3>1, <3>3, <3>4 DEF Fit
  <2>. QED BY <2>1, <2>3, <2>4
<1>6. Len(k) \in Nat
  BY <1>2
<1>. QED BY <1>1, <1>4, <1>5, <1>6

\* The same for the copy a batch is staged in, as far as it is taken.
LEMMA StagedFits ==
  ASSUME Fit(queue), NEW cs \in Seq(Commands), IsInjective(cs), ToSet(cs) \cap ToSet(queue) = {}
  PROVE  Fit(Staged(cs).q) /\ ToSet(Staged(cs).q) \subseteq ToSet(queue) \cup ToSet(cs)
<1>. DEFINE Good(ds) == IsInjective(ds) /\ ToSet(ds) \cap ToSet(queue) = {}
            T == {ds \in Seq(Commands) :
                    Good(ds) => /\ Fit(Staged(ds).q)
                                /\ ToSet(Staged(ds).q) \subseteq ToSet(queue) \cup ToSet(ds)}
<1>0. queue \in Seq(Commands)
  BY DEF Fit
<1>1. <<>> \in T
  <2>1. Staged(<<>>) = [ok |-> TRUE, q |-> queue]
    BY <1>0, StagedEmpty
  <2>2. <<>> \in Seq(Commands)
    OBVIOUS
  <2>. QED BY <2>1, <2>2
<1>2. ASSUME NEW ds \in Seq(Commands), NEW c \in Commands, ds \in T PROVE Append(ds, c) \in T
  <2>. SUFFICES ASSUME Good(Append(ds, c))
                PROVE  /\ Fit(Staged(Append(ds, c)).q)
                       /\ ToSet(Staged(Append(ds, c)).q)
                            \subseteq ToSet(queue) \cup ToSet(Append(ds, c))
    OBVIOUS
  <2>1. /\ ToSet(Append(ds, c)) = ToSet(ds) \cup {c}
        /\ IsInjective(ds) /\ c \notin ToSet(ds)
    BY AppendMembers
  <2>2. c \notin ToSet(queue) /\ Good(ds)
    BY <2>1
  <2>3. Fit(Staged(ds).q) /\ ToSet(Staged(ds).q) \subseteq ToSet(queue) \cup ToSet(ds)
    BY <1>2, <2>2
  <2>4. Staged(Append(ds, c))
          = IF Staged(ds).ok THEN QueueLocked(Staged(ds).q, c) ELSE Staged(ds)
    BY <1>0, StagedAppend
  <2>5. c \notin ToSet(Staged(ds).q)
    BY <2>1, <2>2, <2>3
  <2>6. /\ Fit(QueueLocked(Staged(ds).q, c).q)
        /\ ToSet(QueueLocked(Staged(ds).q, c).q) \subseteq ToSet(Staged(ds).q) \cup {c}
    BY <2>3, <2>5, LockedFits
  <2>. QED BY <2>1, <2>3, <2>4, <2>6
<1>. HIDE DEF T
<1>3. cs \in T
  BY <1>1, <1>2, FromEmptyUp
<1>. QED BY <1>3 DEF T

\* A sequence cut at any place.
LEMMA CutInTwo ==
  ASSUME NEW S, NEW q \in Seq(S), NEW k \in 0 .. Len(q)
  PROVE  /\ SubSeq(q, 1, k) \in Seq(S) /\ Len(SubSeq(q, 1, k)) = k
         /\ SubSeq(q, k + 1, Len(q)) \in Seq(S)
         /\ Len(SubSeq(q, k + 1, Len(q))) = Len(q) - k
         /\ SubSeq(q, 1, k) \o SubSeq(q, k + 1, Len(q)) = q
<1>. DEFINE a == SubSeq(q, 1, k)
            b == SubSeq(q, k + 1, Len(q))
            n == Len(q)
<1>1. n \in Nat /\ k \in Nat /\ k <= n /\ \A i \in 1 .. n : q[i] \in S
  OBVIOUS
<1>2. a \in Seq(S) /\ Len(a) = k /\ \A i \in 1 .. k : a[i] = q[i]
  BY <1>1, SubSeqProperties
<1>3. b \in Seq(S) /\ Len(b) = n - k /\ \A i \in 1 .. n - k : b[i] = q[k + i]
  BY <1>1, SubSeqProperties
<1>. HIDE DEF a, b, n
<1>4. /\ a \o b \in Seq(S) /\ Len(a \o b) = n
      /\ \A i \in 1 .. n : (a \o b)[i] = IF i <= k THEN a[i] ELSE b[i - k]
  <2>1. /\ a \o b \in Seq(S) /\ Len(a \o b) = Len(a) + Len(b)
        /\ \A i \in 1 .. Len(a) + Len(b) : (a \o b)[i] = IF i <= Len(a) THEN a[i] ELSE b[i - Len(a)]
    BY <1>2, <1>3, ConcatProperties
  <2>2. Len(a) = k /\ Len(a) + Len(b) = n
    BY <1>1, <1>2, <1>3
  <2>. QED BY <2>1, <2>2
<1>5. \A i \in 1 .. n : (a \o b)[i] = q[i]
  <2>. SUFFICES ASSUME NEW i \in 1 .. n PROVE (a \o b)[i] = q[i]
    OBVIOUS
  <2>1. CASE i <= k
    BY <1>1, <1>2, <1>4, <2>1
  <2>2. CASE ~(i <= k)
    <3>1. i - k \in 1 .. n - k /\ k + (i - k) = i
      BY <1>1, <2>2
    <3>2. (a \o b)[i] = b[i - k]
      BY <1>4, <2>2
    <3>. QED BY <1>3, <3>1, <3>2
  <2>. QED BY <2>1, <2>2
<1>6. a \o b = q
  BY <1>4, <1>5, SeqEqual DEF n
<1>. QED BY <1>2, <1>3, <1>6 DEF a, b, n

\* A concatenation is cut again where it was put together.
LEMMA ConcatCut ==
  ASSUME NEW S, NEW a \in Seq(S), NEW b \in Seq(S)
  PROVE  /\ SubSeq(a \o b, 1, Len(a)) = a
         /\ SubSeq(a \o b, Len(a) + 1, Len(a \o b)) = b
<1>. DEFINE l == a \o b
            k == Len(a)
            n == Len(b)
<1>1. /\ l \in Seq(S) /\ Len(l) = k + n /\ k \in Nat /\ n \in Nat
      /\ \A i \in 1 .. k + n : l[i] = IF i <= k THEN a[i] ELSE b[i - k]
  BY ConcatProperties
<1>. HIDE DEF l, k, n
<1>2. \A i \in 1 .. k + n : l[i] \in S
  BY <1>1
<1>3. /\ SubSeq(l, 1, k) \in Seq(S) /\ Len(SubSeq(l, 1, k)) = k
      /\ \A i \in 1 .. k : SubSeq(l, 1, k)[i] = l[i]
  BY <1>1, <1>2, SubSeqProperties
<1>4. /\ SubSeq(l, k + 1, k + n) \in Seq(S) /\ Len(SubSeq(l, k + 1, k + n)) = n
      /\ \A i \in 1 .. n : SubSeq(l, k + 1, k + n)[i] = l[k + i]
  BY <1>1, <1>2, SubSeqProperties
<1>5. \A i \in 1 .. k : SubSeq(l, 1, k)[i] = a[i]
  BY <1>1, <1>3
<1>6. \A i \in 1 .. n : SubSeq(l, k + 1, k + n)[i] = b[i]
  <2>1. \A i \in 1 .. n : k + i \in 1 .. k + n /\ ~(k + i <= k) /\ (k + i) - k = i
    BY <1>1
  <2>. QED BY <1>1, <1>4, <2>1
<1>7. SubSeq(l, 1, k) = a
  BY <1>3, <1>5, SeqEqual DEF k
<1>8. SubSeq(l, k + 1, k + n) = b
  BY <1>4, <1>6, SeqEqual DEF n
<1>. QED BY <1>1, <1>7, <1>8 DEF l, k

\* QueueTypeOK in parts: each deque by itself, and nothing in both.
Sorted(p, q, a) ==
  /\ p \in Seq(Commands) /\ Len(p) <= DrainMax /\ IsInjective(p)
  /\ Fit(q)
  /\ ToSet(p) \cap ToSet(q) = {}
  /\ a \in {"none", "queued", "busy"}

\* The type of the queue, as the proofs use it.
LEMMA TypeInParts ==
  ASSUME NEW p, NEW q, NEW a
  PROVE  Sorted(p, q, a)
           <=> /\ q \in SeqOf(Commands, Limit) /\ p \in SeqOf(Commands, DrainMax)
               /\ IsInjective(p \o q)
               /\ a \in {"none", "queued", "busy"}
<1>1. Limit \in Nat /\ DrainMax \in Nat
  BY QueueAssumption
<1>2. /\ q \in SeqOf(Commands, Limit) <=> (q \in Seq(Commands) /\ Len(q) <= Limit)
      /\ p \in SeqOf(Commands, DrainMax) <=> (p \in Seq(Commands) /\ Len(p) <= DrainMax)
  BY <1>1, SeqOfIs
<1>3. p \in Seq(Commands) /\ q \in Seq(Commands) =>
        (IsInjective(p \o q)
           <=> (IsInjective(p) /\ IsInjective(q) /\ ToSet(p) \cap ToSet(q) = {}))
  BY ConcatMembers
<1>. QED BY <1>2, <1>3, Zenon DEF Sorted, Fit

\* A batch, taken or refused, keeps them.
LEMMA BatchTyped ==
  ASSUME Sorted(pending, queue, answer), NEW cs \in Seq(Commands), IsInjective(cs),
         PostBatch(cs)
  PROVE  Sorted(pending', queue', answer')
<1>1. Waiting = ToSet(pending) \cup ToSet(queue)
  BY ConcatMembers DEF Waiting, Sorted, Fit
<1>2. ToSet(cs) \cap ToSet(queue) = {} /\ ToSet(cs) \cap ToSet(pending) = {}
  BY <1>1 DEF PostBatch
<1>3. /\ pending' = pending /\ answer' \in {"queued", "busy"}
      /\ queue' = Staged(cs).q \/ queue' = queue
  BY DEF PostBatch, Answered
<1>4. Fit(queue') /\ ToSet(queue') \subseteq ToSet(queue) \cup ToSet(cs)
  BY <1>2, <1>3, StagedFits DEF Sorted
<1>. QED BY <1>2, <1>3, <1>4 DEF Sorted

\* The bound and the difference of the commands are kept by every step.
LEMMA QueueStepTyped == QueueTypeOK /\ [QueueNext]_queueVars => QueueTypeOK'
<1>. SUFFICES ASSUME QueueTypeOK, [QueueNext]_queueVars PROVE QueueTypeOK'
  OBVIOUS
<1>1. Sorted(pending, queue, answer)
  BY TypeInParts, Zenon DEF QueueTypeOK
<1>2. SUFFICES Sorted(pending', queue', answer')
  BY TypeInParts, Zenon DEF QueueTypeOK
<1>3. Waiting = ToSet(pending) \cup ToSet(queue)
  BY <1>1, ConcatMembers DEF Waiting, Sorted, Fit
<1>4. ASSUME NEW c \in Commands, Post(c) PROVE Sorted(pending', queue', answer')
  <2>1. c \notin ToSet(queue) /\ c \notin ToSet(pending)
    BY <1>3, <1>4 DEF Post
  <2>2. pending' = pending /\ queue' = QueueLocked(queue, c).q
        /\ answer' \in {"queued", "busy"}
    BY <1>4 DEF Post, Answered
  <2>3. Fit(queue') /\ ToSet(queue') \subseteq ToSet(queue) \cup {c}
    BY <1>1, <2>1, <2>2, LockedFits DEF Sorted
  <2>. QED BY <1>1, <2>1, <2>2, <2>3 DEF Sorted
<1>5. ASSUME NEW cs \in Batches, PostBatch(cs) PROVE Sorted(pending', queue', answer')
  <2>1. cs \in Seq(Commands) /\ IsInjective(cs)
    BY SeqOfIs, QueueAssumption DEF Batches
  <2>. QED BY <1>1, <1>5, <2>1, BatchTyped
<1>6. CASE TakePending
  <2>. DEFINE count == IF Len(queue) < DrainMax THEN Len(queue) ELSE DrainMax
              p == SubSeq(queue, 1, count)
              q == SubSeq(queue, count + 1, Len(queue))
  <2>1. pending' = p /\ queue' = q /\ answer' = answer
    BY <1>6 DEF TakePending
  <2>2. queue \in Seq(Commands) /\ Len(queue) <= Limit /\ IsInjective(queue)
        /\ Limit \in Nat /\ DrainMax \in Nat
    BY <1>1, QueueAssumption DEF Sorted, Fit
  <2>3. count \in 0 .. Len(queue) /\ count <= DrainMax
    BY <2>2
  <2>. HIDE DEF count
  <2>4. p \in Seq(Commands) /\ q \in Seq(Commands) /\ Len(p) = count
        /\ Len(q) = Len(queue) - count /\ p \o q = queue
    BY <2>2, <2>3, CutInTwo
  <2>. HIDE DEF p, q
  <2>5. IsInjective(p) /\ IsInjective(q) /\ ToSet(p) \cap ToSet(q) = {}
    BY <2>2, <2>4, ConcatMembers
  <2>6. Len(p) <= DrainMax /\ Len(q) <= Limit
    BY <2>2, <2>3, <2>4
  <2>. QED BY <1>1, <2>1, <2>4, <2>5, <2>6 DEF Sorted, Fit
<1>7. CASE ApplyNext
  <2>. DEFINE h == <<Head(pending)>>
              p == Tail(pending)
  <2>1. pending # <<>> /\ pending' = p /\ queue' = queue /\ answer' = answer
    BY <1>7 DEF ApplyNext
  <2>2. pending \in Seq(Commands) /\ Len(pending) <= DrainMax /\ IsInjective(pending)
        /\ DrainMax \in Nat
    BY <1>1, QueueAssumption DEF Sorted
  <2>3. h \in Seq(Commands) /\ p \in Seq(Commands) /\ Len(p) = Len(pending) - 1
        /\ pending = h \o p
    BY <2>1, <2>2
  <2>. HIDE DEF h, p
  <2>4. IsInjective(p) /\ ToSet(p) \subseteq ToSet(pending)
    BY <2>2, <2>3, ConcatMembers
  <2>5. Len(p) <= DrainMax
    BY <2>2, <2>3
  <2>. QED BY <1>1, <2>1, <2>3, <2>4, <2>5 DEF Sorted
<1>8. CASE Clear
  <2>1. pending' = pending /\ queue' = <<>> /\ answer' = answer
    BY <1>8 DEF Clear
  <2>2. Fit(<<>>) /\ ToSet(<<>>) = {}
    BY QueueAssumption DEF Fit, IsInjective, ToSet
  <2>. QED BY <1>1, <2>1, <2>2 DEF Sorted
<1>9. CASE UNCHANGED queueVars
  BY <1>1, <1>9 DEF queueVars
<1>. QED BY <1>4, <1>5, <1>6, <1>7, <1>8, <1>9 DEF QueueNext

\* The empty queue has its type.
LEMMA QuietQueue == QueueInit => QueueTypeOK
<1>. SUFFICES ASSUME QueueInit PROVE QueueTypeOK
  OBVIOUS
<1>1. <<>> \in Seq(Commands) /\ Len(<<>>) = 0 /\ ToSet(<<>>) = {} /\ IsInjective(<<>>)
  BY DEF IsInjective, ToSet
<1>2. Sorted(<<>>, <<>>, "none")
  BY <1>1, QueueAssumption DEF Sorted, Fit
<1>. QED BY <1>2, TypeInParts, Zenon DEF QueueInit, QueueTypeOK

\* The queue never outgrows its limit, a drain never its batch, and no command
\* waits twice, whatever the two threads do in between
\* (nativeQueueHttpCommandLocked).
THEOREM QueueBounded == QueueSpec => []QueueTypeOK
<1>. QED BY QuietQueue, QueueStepTyped, PTL DEF QueueSpec
-----------------------------------------------------------------------------
(***************************************************************************)
(* The lanes                                                               *)
(***************************************************************************)
\* CommandLanes sees the same sublists.
LEMMA SameOnly == \A q, S : Lanes!Only(q, S) = Only(q, S)
  BY DEF Lanes!Only, Only

\* A call the queue takes is a call of the lanes.
LEMMA SameCalls ==
  \A cs : (cs \in Lanes!Calls)
            <=> (cs \in SeqOf(Commands, MaxBatch) /\ cs # <<>> /\ IsInjective(cs))
  BY Zenon DEF Lanes!Calls, Lanes!SeqOf, SeqOf, Lanes!Commands, Commands,
               Lanes!IsInjective, IsInjective

\* A lane of which the part a is being served, when c joins it.
Behind(a) == {a \o b : b \in Seq(Commands)}

\* A command that joins a lane leaves what is being applied alone.
LEMMA JoinedBehind ==
  ASSUME NEW a \in Seq(Commands), NEW b \in Seq(Commands), NEW c \in Commands
  PROVE  /\ Lanes!Joined(a \o b, Len(a), c)
               = a \o Append(Only(b, Commands \ Lanes!Superseded(c)), c)
         /\ Lanes!Joined(a \o b, Len(a), c) \in Behind(a)
<1>. DEFINE l == a \o b
            k == Len(a)
            s == Only(b, Commands \ Lanes!Superseded(c))
<1>1. l \in Seq(Commands) /\ k \in 0 .. Len(l)
  OBVIOUS
<1>2. SubSeq(l, 1, k) = a /\ SubSeq(l, k + 1, Len(l)) = b
  BY ConcatCut
<1>3. s \in Seq(Commands)
  BY OnlyType
<1>4. Lanes!Joined(l, k, c) = a \o s \o <<c>>
  BY <1>2, SameOnly DEF Lanes!Joined, Lanes!Commands, Commands
<1>. HIDE DEF s
<1>5. a \o s \o <<c>> = a \o Append(s, c) /\ Append(s, c) \in Seq(Commands)
  <2>1. a \o Append(s, c) = Append(a \o s, c) /\ a \o s \in Seq(Commands)
        /\ Append(s, c) \in Seq(Commands)
    BY <1>3, ConcatAppend
  <2>2. \A w \in Seq(Commands) : Append(w, c) = w \o <<c>>
    BY ConcatAppend
  <2>. QED BY <2>1, <2>2
<1>. QED BY <1>4, <1>5 DEF s, Behind

\* The steps by which the commands of a call join a lane.
JoinSteps(a, cs) ==
  [i \in 1 .. Len(cs) |-> [l \in Behind(a) |-> Lanes!Joined(l, Len(a), cs[i])]]

\* A batch joins a lane one command after the other.
LEMMA JoinIterates ==
  ASSUME NEW a \in Seq(Commands), NEW lane \in Behind(a), NEW cs \in Seq(Commands)
  PROVE  \E f : /\ Iterates(f, lane, JoinSteps(a, cs), Len(cs))
                /\ \A i \in 0 .. Len(cs) : f[i] \in Behind(a)
                /\ Lanes!Join(lane, Len(a), cs) = f[Len(cs)]
<1>. DEFINE n == Len(cs)
            G == JoinSteps(a, cs)
            Value(f, i) == IF i = 0 THEN lane ELSE Lanes!Joined(f[i - 1], Len(a), cs[i])
            Solves(f) == f = [i \in 0 .. n |-> Value(f, i)]
            after == CHOOSE f : Solves(f)
<1>1. n \in Nat /\ \A i \in 1 .. n : cs[i] \in Commands
  OBVIOUS
<1>2. G \in [1 .. n -> [Behind(a) -> Behind(a)]]
  <2>1. \A i \in 1 .. n : \A l \in Behind(a) : Lanes!Joined(l, Len(a), cs[i]) \in Behind(a)
    BY <1>1, JoinedBehind DEF Behind
  <2>. QED BY <2>1 DEF JoinSteps
<1>3. \A i \in 1 .. n : \A l \in Behind(a) : G[i][l] = Lanes!Joined(l, Len(a), cs[i])
  BY DEF JoinSteps
<1>. HIDE DEF G
<1>4. \E f : Solves(f)
  <2>1. PICK f \in [0 .. n -> Behind(a)] : Iterates(f, lane, G, n)
    <3>. HIDE DEF n
    <3>. QED BY <1>1, <1>2, IteratesExist
  <2>2. f[0] = lane
    BY <2>1 DEF Iterates
  <2>3. ASSUME NEW i \in 1 .. n PROVE f[i] = Lanes!Joined(f[i - 1], Len(a), cs[i])
    <3>1. f[i - 1] \in Behind(a)
      OBVIOUS
    <3>. QED BY <1>3, <2>1, <3>1 DEF Iterates
  <2>4. \A i \in 0 .. n : f[i] = Value(f, i)
    <3>1. \A i \in 0 .. n : i = 0 \/ i \in 1 .. n
      OBVIOUS
    <3>. HIDE DEF n
    <3>. QED BY <2>2, <2>3, <3>1
  <2>5. Solves(f)
    <3>. HIDE DEF n, Value
    <3>. QED BY <2>4
  <2>. QED BY <2>5
<1>5. Solves(after)
  BY <1>4
<1>6. Lanes!Join(lane, Len(a), cs) = after[n]
  BY DEF Lanes!Join
<1>. HIDE DEF after
<1>7. \A i \in 0 .. n : after[i] = Value(after, i)
  <2>. HIDE DEF n, Value
  <2>. QED BY <1>5
<1>8. after[0] = lane
  <2>1. 0 \in 0 .. n
    BY <1>1
  <2>. HIDE DEF n
  <2>. QED BY <1>7, <2>1
<1>9. \A i \in 1 .. n : after[i - 1] \in Behind(a) => after[i] = G[i][after[i - 1]]
  <2>1. \A i \in 1 .. n : i \in 0 .. n /\ i # 0
    OBVIOUS
  <2>. HIDE DEF n
  <2>. QED BY <1>3, <1>7, <2>1
<1>. HIDE DEF n, Solves
<1>10. Iterates(after, lane, G, n) /\ \A i \in 0 .. n : after[i] \in Behind(a)
  BY <1>1, <1>2, <1>8, <1>9, IteratesTyped
<1>. QED BY <1>6, <1>10 DEF n, G

\* The last command of a call joins the lane as the others left it.
LEMMA JoinAppend ==
  ASSUME NEW a \in Seq(Commands), NEW lane \in Behind(a),
         NEW cs \in Seq(Commands), NEW c \in Commands
  PROVE  /\ Lanes!Join(lane, Len(a), <<>>) = lane
         /\ Lanes!Join(lane, Len(a), Append(cs, c))
              = Lanes!Joined(Lanes!Join(lane, Len(a), cs), Len(a), c)
<1>. DEFINE ds == Append(cs, c)
            n == Len(cs)
            G == JoinSteps(a, cs)
            H == JoinSteps(a, ds)
<1>1. ds \in Seq(Commands) /\ Len(ds) = n + 1 /\ ds[n + 1] = c
      /\ \A i \in 1 .. n : ds[i] = cs[i]
  BY AppendProperties
<1>2. n \in Nat
  OBVIOUS
<1>3. Lanes!Join(lane, Len(a), <<>>) = lane
  <2>1. <<>> \in Seq(Commands) /\ Len(<<>>) = 0
    OBVIOUS
  <2>2. PICK f : Iterates(f, lane, JoinSteps(a, <<>>), 0) /\ Lanes!Join(lane, Len(a), <<>>) = f[0]
    BY <2>1, JoinIterates
  <2>. QED BY <2>2 DEF Iterates
<1>. HIDE DEF ds, n
<1>4. PICK f : /\ Iterates(f, lane, G, n)
               /\ \A i \in 0 .. n : f[i] \in Behind(a)
               /\ Lanes!Join(lane, Len(a), cs) = f[n]
  BY JoinIterates DEF n
<1>5. PICK g : /\ Iterates(g, lane, H, n + 1)
               /\ \A i \in 0 .. n + 1 : g[i] \in Behind(a)
               /\ Lanes!Join(lane, Len(a), ds) = g[n + 1]
  BY <1>1, JoinIterates
<1>6. \A i \in 1 .. n : G[i] = H[i]
  <2>. SUFFICES ASSUME NEW i \in 1 .. n PROVE G[i] = H[i]
    OBVIOUS
  <2>1. i \in 1 .. Len(cs) /\ i \in 1 .. Len(ds) /\ ds[i] = cs[i]
    BY <1>1, <1>2 DEF n
  <2>. QED BY <2>1 DEF JoinSteps
<1>7. H[n + 1][g[n]] = Lanes!Joined(g[n], Len(a), c)
  BY <1>1, <1>2, <1>5 DEF JoinSteps
<1>. HIDE DEF G, H
<1>8. Iterates(g, lane, G, n)
  BY <1>2, <1>5, <1>6 DEF Iterates
<1>9. f[n] = g[n]
  BY <1>2, <1>4, <1>8, IteratesAgree
<1>10. g[n + 1] = H[n + 1][g[n]]
  <2>1. n + 1 \in 1 .. n + 1 /\ (n + 1) - 1 = n
    BY <1>2
  <2>. QED BY <1>5, <2>1 DEF Iterates
<1>. QED BY <1>3, <1>4, <1>5, <1>7, <1>9, <1>10 DEF ds

IsLane(S) == S \in {Selections, Commands \ Selections}

\* What a command that is accepted does to a lane S of the queue: it takes the
\* place of what it supersedes there, or leaves the other lane as it was.
LEMMA LockedLane ==
  ASSUME NEW q \in Seq(Commands), NEW c \in Commands, QueueLocked(q, c).ok,
         NEW S, IsLane(S)
  PROVE  Only(QueueLocked(q, c).q, S)
           = IF c \in S THEN Append(Only(Only(q, S), Commands \ Lanes!Superseded(c)), c)
             ELSE Only(q, S)
<1>. DEFINE K == Commands \ Lanes!Superseded(c)
            k == Only(q, K)
            r == QueueLocked(q, c).q
<1>1. Kept(q, c) = k
  BY DEF Kept, Lanes!Superseded
<1>2. k \in Seq(Commands) /\ <<c>> \in Seq(Commands)
  BY OnlyType
<1>3. r = IF c \in Selections THEN <<c>> \o k ELSE Append(k, c)
  <2>. HIDE DEF k
  <2>. QED BY <1>1 DEF QueueLocked
<1>4. Only(k, S) = Only(q, K \cap S) /\ Only(Only(q, S), K) = Only(q, S \cap K)
  BY OnlyOnly
<1>5. S \cap K = K \cap S
  OBVIOUS
<1>6. Only(<<c>>, S) = IF c \in S THEN <<c>> ELSE <<>>
  BY OnlyOne
<1>7. Only(<<c>> \o k, S) = Only(<<c>>, S) \o Only(k, S)
  <2>1. \A w, v \in Seq(Commands) : Only(w \o v, S) = Only(w, S) \o Only(v, S)
    BY OnlyConcat
  <2>. HIDE DEF k, r
  <2>. QED BY <1>2, <2>1, Zenon
<1>8. Only(Append(k, c), S) = IF c \in S THEN Append(Only(k, S), c) ELSE Only(k, S)
  <2>. HIDE DEF k, r, K
  <2>. QED BY <1>2, OnlyAppend
<1>9. CASE c \in Selections /\ S = Selections
  <2>1. K \cap S = {}
    BY <1>9, QueueAssumption DEF Lanes!Superseded
  <2>2. Only(q, {}) = <<>>
    BY OnlyAll
  <2>. HIDE DEF k, K, r
  <2>3. Only(r, S) = <<c>> \o <<>>
    BY <1>3, <1>4, <1>6, <1>7, <1>9, <2>1, <2>2
  <2>4. Append(Only(Only(q, S), K), c) = Append(<<>>, c)
    BY <1>4, <1>5, <2>1, <2>2
  <2>5. <<c>> \o <<>> = Append(<<>>, c)
    OBVIOUS
  <2>. QED BY <1>9, <2>3, <2>4, <2>5 DEF r, K
<1>10. CASE c \in Selections /\ S = Commands \ Selections
  <2>1. K \cap S = S /\ c \notin S
    BY <1>10, QueueAssumption DEF Lanes!Superseded
  <2>2. Only(q, S) \in Seq(Commands)
    BY OnlyType
  <2>. HIDE DEF k, K, r
  <2>3. Only(r, S) = <<>> \o Only(q, S)
    BY <1>3, <1>4, <1>6, <1>7, <1>10, <2>1
  <2>4. <<>> \o Only(q, S) = Only(q, S)
    BY <2>2, ConcatEmptySeq
  <2>. QED BY <2>1, <2>3, <2>4 DEF r
<1>11. CASE c \notin Selections /\ S = Selections
  <2>1. K \cap S = S /\ c \notin S
    BY <1>11, QueueAssumption DEF Lanes!Superseded, Commands
  <2>. HIDE DEF k, K, r
  <2>. QED BY <1>3, <1>4, <1>8, <1>11, <2>1 DEF r
<1>12. CASE c \notin Selections /\ S = Commands \ Selections
  <2>1. c \in S
    BY <1>12
  <2>. HIDE DEF k, K, r
  <2>. QED BY <1>3, <1>4, <1>5, <1>8, <1>12, <2>1 DEF r, K
<1>. QED BY <1>9, <1>10, <1>11, <1>12 DEF IsLane

\* A batch that is taken joins each lane behind what is being applied.
LEMMA StagedLane ==
  ASSUME queue \in Seq(Commands), NEW a \in Seq(Commands), NEW cs \in Seq(Commands),
         Staged(cs).ok, NEW S, IsLane(S)
  PROVE  a \o Only(Staged(cs).q, S) = Lanes!Join(a \o Only(queue, S), Len(a), Only(cs, S))
<1>. DEFINE lane == a \o Only(queue, S)
            After(ds) == Lanes!Join(lane, Len(a), ds)
            T == {ds \in Seq(Commands) :
                    Staged(ds).ok => a \o Only(Staged(ds).q, S) = After(Only(ds, S))}
<1>1. lane \in Behind(a)
  BY OnlyType DEF Behind
<1>2. \A ds \in Seq(Commands), c \in Commands :
        After(<<>>) = lane /\ After(Append(ds, c)) = Lanes!Joined(After(ds), Len(a), c)
  <2>. HIDE DEF lane
  <2>. QED BY <1>1, JoinAppend
<1>3. After(<<>>) = lane
  <2>. HIDE DEF lane
  <2>1. PICK f : Iterates(f, lane, JoinSteps(a, <<>>), 0) /\ After(<<>>) = f[0]
    <3>1. <<>> \in Seq(Commands) /\ Len(<<>>) = 0
      OBVIOUS
    <3>. QED BY <1>1, <3>1, JoinIterates
  <2>. QED BY <2>1 DEF Iterates
<1>. HIDE DEF After
<1>4. <<>> \in T
  <2>1. Staged(<<>>).q = queue
    BY StagedEmpty
  <2>2. Only(<<>>, S) = <<>>
    BY OnlyEmpty
  <2>3. a \o Only(Staged(<<>>).q, S) = After(Only(<<>>, S))
    BY <1>3, <2>1, <2>2
  <2>4. <<>> \in Seq(Commands)
    OBVIOUS
  <2>. QED BY <2>3, <2>4, Zenon
<1>5. ASSUME NEW ds \in Seq(Commands), NEW c \in Commands, ds \in T
      PROVE  Append(ds, c) \in T
  <2>. SUFFICES ASSUME Staged(Append(ds, c)).ok
                PROVE  a \o Only(Staged(Append(ds, c)).q, S) = After(Only(Append(ds, c), S))
    OBVIOUS
  <2>. DEFINE v == Staged(ds)
              b == Only(v.q, S)
  <2>1. v \in Stages
        /\ Staged(Append(ds, c)) = IF v.ok THEN QueueLocked(v.q, c) ELSE v
    BY StagedAppend
  <2>2. v.ok /\ QueueLocked(v.q, c).ok /\ Staged(Append(ds, c)) = QueueLocked(v.q, c)
    BY <2>1 DEF Stages
  <2>3. v.q \in Seq(Commands)
    BY <2>1 DEF Stages
  <2>4. a \o b = After(Only(ds, S))
    BY <1>5, <2>2
  <2>5. b \in Seq(Commands)
    BY <2>3, OnlyType
  <2>6. Only(Staged(Append(ds, c)).q, S)
          = IF c \in S THEN Append(Only(b, Commands \ Lanes!Superseded(c)), c) ELSE b
    <3>. HIDE DEF v
    <3>. QED BY <2>2, <2>3, LockedLane
  <2>7. Only(Append(ds, c), S) = IF c \in S THEN Append(Only(ds, S), c) ELSE Only(ds, S)
    BY OnlyAppend
  <2>. HIDE DEF v, b
  <2>8. CASE c \in S
    <3>1. After(Append(Only(ds, S), c)) = Lanes!Joined(After(Only(ds, S)), Len(a), c)
      BY <1>2, OnlyType
    <3>2. Lanes!Joined(a \o b, Len(a), c)
            = a \o Append(Only(b, Commands \ Lanes!Superseded(c)), c)
      BY <2>5, JoinedBehind
    <3>. QED BY <2>4, <2>6, <2>7, <2>8, <3>1, <3>2
  <2>9. CASE c \notin S
    BY <2>4, <2>6, <2>7, <2>9
  <2>. QED BY <2>8, <2>9
<1>. HIDE DEF T
<1>6. cs \in T
  BY <1>4, <1>5, FromEmptyUp
<1>. QED BY <1>6 DEF T, After

\* A call that is taken is taken by the lanes.
LEMMA TakenByLanes ==
  ASSUME Sorted(pending, queue, answer), NEW cs \in Seq(Commands),
         cs # <<>>, Len(cs) <= MaxBatch, IsInjective(cs), Staged(cs).ok,
         pending' = pending, queue' = Staged(cs).q, answer' = "queued"
  PROVE  Lanes!Next
<1>1. queue \in Seq(Commands) /\ pending \in Seq(Commands) /\ Staged(cs).q \in Seq(Commands)
  <2>1. queue \in Seq(Commands) /\ pending \in Seq(Commands)
    BY DEF Sorted, Fit
  <2>2. PICK f : f[Len(cs)] \in Stages /\ Staged(cs) = f[Len(cs)]
    BY <2>1, StagedIterates
  <2>. QED BY <2>1, <2>2 DEF Stages
<1>2. ASSUME NEW S, IsLane(S)
      PROVE  \E kept \in 0 .. Len(Only(pending \o queue, S)) :
               Only(pending' \o queue', S)
                 = Lanes!Join(Only(pending \o queue, S), kept, Only(cs, S))
  <2>. DEFINE a == Only(pending, S)
  <2>1. a \in Seq(Commands) /\ Only(queue, S) \in Seq(Commands)
    BY <1>1, OnlyType
  <2>0. \A w, v \in Seq(Commands) : Only(w \o v, S) = Only(w, S) \o Only(v, S)
    BY OnlyConcat
  <2>2. Only(pending \o queue, S) = a \o Only(queue, S)
    BY <1>1, <2>0, Zenon
  <2>3. Only(pending' \o queue', S) = a \o Only(Staged(cs).q, S)
    BY <1>1, <2>0
  <2>. HIDE DEF a
  <2>4. a \o Only(Staged(cs).q, S) = Lanes!Join(a \o Only(queue, S), Len(a), Only(cs, S))
    BY <1>1, <1>2, <2>1, StagedLane
  <2>5. Len(a) \in 0 .. Len(a \o Only(queue, S))
    BY <2>1
  <2>. QED BY <2>2, <2>3, <2>4, <2>5
<1>3. cs \in Lanes!Calls
  <2>1. MaxBatch \in Nat
    BY QueueAssumption
  <2>. QED BY <2>1, SeqOfIs, SameCalls
<1>4. Lanes!Accept(cs)
  <2>1. IsLane(Selections) /\ IsLane(Commands \ Selections)
    BY DEF IsLane
  <2>. QED BY <1>2, <2>1, SameOnly DEF Lanes!Accept, Lanes!Commands, Commands
<1>. QED BY <1>3, <1>4 DEF Lanes!Next

\* A batch is taken by the lanes as a whole, or refused by them.
LEMMA BatchLanes ==
  ASSUME Sorted(pending, queue, answer), NEW cs \in Seq(Commands), cs # <<>>,
         Len(cs) <= MaxBatch, IsInjective(cs), PostBatch(cs)
  PROVE  [Lanes!Next]_(Lanes!lanes)
<1>1. CASE Staged(cs).ok
  <2>1. pending' = pending /\ queue' = Staged(cs).q /\ answer' = "queued"
    BY <1>1 DEF PostBatch, Answered
  <2>. QED BY <1>1, <2>1, TakenByLanes
<1>2. CASE ~Staged(cs).ok
  <2>1. pending' = pending /\ queue' = queue /\ answer' = "busy"
    BY <1>2 DEF PostBatch, Answered
  <2>2. Lanes!Refuse
    BY <2>1 DEF Lanes!Refuse
  <2>. QED BY <2>2 DEF Lanes!Next
<1>. QED BY <1>1, <1>2

\* Every step of the queue is one of the lanes, or none.
LEMMA QueueStepLanes == QueueTypeOK /\ [QueueNext]_queueVars => [Lanes!Next]_(Lanes!lanes)
<1>. SUFFICES ASSUME QueueTypeOK, [QueueNext]_queueVars PROVE [Lanes!Next]_(Lanes!lanes)
  OBVIOUS
<1>1. Sorted(pending, queue, answer)
  BY TypeInParts, Zenon DEF QueueTypeOK
<1>2. queue \in Seq(Commands) /\ pending \in Seq(Commands) /\ Fit(queue)
  BY <1>1 DEF Sorted, Fit
<1>3. Waiting = ToSet(pending) \cup ToSet(queue)
  BY <1>2, ConcatMembers DEF Waiting
<1>. DEFINE Picks == Only(pending \o queue, Selections)
            Rest == Only(pending \o queue, Commands \ Selections)
<1>4. /\ Lanes!Refuse <=> (answer' = "busy" /\ Picks' = Picks /\ Rest' = Rest)
      /\ UNCHANGED Lanes!lanes <=> (answer' = answer /\ Picks' = Picks /\ Rest' = Rest)
  BY SameOnly DEF Lanes!Refuse, Lanes!lanes
<1>5. ASSUME NEW c \in Commands, Post(c) PROVE Lanes!Next
  <2>. DEFINE one == <<c>>
  <2>1. one \in Seq(Commands) /\ one # <<>> /\ Len(one) <= MaxBatch /\ IsInjective(one)
    BY QueueAssumption DEF IsInjective
  <2>2. Staged(one) = QueueLocked(queue, c)
    <3>1. <<>> \in Seq(Commands) /\ Append(<<>>, c) = one
      OBVIOUS
    <3>2. \A cs \in Seq(Commands) :
            Staged(Append(cs, c)) = IF Staged(cs).ok THEN QueueLocked(Staged(cs).q, c) ELSE Staged(cs)
      BY <1>2, StagedAppend
    <3>3. Staged(<<>>).ok /\ Staged(<<>>).q = queue
      BY <1>2, StagedEmpty
    <3>. DEFINE e == <<>>
    <3>4. e \in Seq(Commands) /\ Append(e, c) = one /\ Staged(e).ok /\ Staged(e).q = queue
      BY <3>1, <3>3
    <3>. HIDE DEF e, one
    <3>. QED BY <3>2, <3>4
  <2>3. c \notin ToSet(queue) /\ pending' = pending /\ queue' = QueueLocked(queue, c).q
    BY <1>3, <1>5 DEF Post
  <2>4. CASE QueueLocked(queue, c).ok
    <3>1. answer' = "queued"
      BY <1>5, <2>4 DEF Post, Answered
    <3>. HIDE DEF one
    <3>. QED BY <1>1, <2>1, <2>2, <2>3, <2>4, <3>1, TakenByLanes
  <2>5. CASE ~QueueLocked(queue, c).ok
    <3>1. answer' = "busy"
      BY <1>5, <2>5 DEF Post, Answered
    <3>2. queue' = queue
      BY <1>2, <2>3, <2>5, LockedFits
    <3>. QED BY <1>4, <2>3, <3>1, <3>2 DEF Lanes!Next
  <2>. QED BY <2>4, <2>5
<1>6. ASSUME NEW cs \in Batches, PostBatch(cs) PROVE [Lanes!Next]_(Lanes!lanes)
  <2>1. cs \in Seq(Commands) /\ cs # <<>> /\ Len(cs) <= MaxBatch /\ IsInjective(cs)
    BY SeqOfIs, QueueAssumption DEF Batches
  <2>. QED BY <1>1, <1>6, <2>1, BatchLanes
<1>7. CASE TakePending
  <2>. DEFINE count == IF Len(queue) < DrainMax THEN Len(queue) ELSE DrainMax
  <2>1. /\ pending = <<>> /\ answer' = answer
        /\ pending' = SubSeq(queue, 1, count)
        /\ queue' = SubSeq(queue, count + 1, Len(queue))
    BY <1>7 DEF TakePending
  <2>2. count \in 0 .. Len(queue)
    BY <1>2, QueueAssumption
  <2>. HIDE DEF count
  <2>3. pending' \o queue' = queue
    BY <1>2, <2>1, <2>2, CutInTwo
  <2>4. pending \o queue = queue
    BY <1>2, <2>1, ConcatEmptySeq
  <2>5. Picks' = Picks /\ Rest' = Rest
    BY <2>3, <2>4
  <2>. QED BY <1>4, <2>1, <2>5
<1>8. CASE ApplyNext
  <2>. DEFINE h == Head(pending)
              r == Tail(pending) \o queue
  <2>1. pending # <<>> /\ pending' = Tail(pending) /\ queue' = queue /\ answer' = answer
    BY <1>8 DEF ApplyNext
  <2>2. /\ h \in Commands /\ Tail(pending) \in Seq(Commands) /\ r \in Seq(Commands)
        /\ pending \o queue = <<h>> \o r
    BY <1>2, <2>1
  <2>3. pending' \o queue' = r
    BY <2>1
  <2>. HIDE DEF h, r
  <2>4. ASSUME NEW S
        PROVE  Only(pending \o queue, S) = IF h \in S THEN <<h>> \o Only(r, S) ELSE Only(r, S)
    <3>1. \A w, v \in Seq(Commands) : Only(w \o v, S) = Only(w, S) \o Only(v, S)
      BY OnlyConcat
    <3>2. Only(<<h>>, S) = IF h \in S THEN <<h>> ELSE <<>>
      BY <2>2, OnlyOne
    <3>3. Only(r, S) \in Seq(Commands) /\ <<h>> \in Seq(Commands)
      BY <2>2, OnlyType
    <3>4. Only(<<h>> \o r, S) = Only(<<h>>, S) \o Only(r, S)
      BY <2>2, <3>1, <3>3, Zenon
    <3>5. <<>> \o Only(r, S) = Only(r, S)
      BY <3>3, ConcatEmptySeq
    <3>. QED BY <2>2, <3>2, <3>4, <3>5
  <2>5. ASSUME NEW S, h \in S
        PROVE  Only(pending \o queue, S) # <<>>
               /\ Tail(Only(pending \o queue, S)) = Only(r, S)
    <3>. DEFINE o == Only(r, S)
    <3>1. o \in Seq(Commands)
      BY <2>2, OnlyType
    <3>2. Only(pending \o queue, S) = <<h>> \o o
      BY <2>4, <2>5
    <3>. HIDE DEF o
    <3>3. <<h>> \o o # <<>> /\ Tail(<<h>> \o o) = o
      BY <2>2, <3>1
    <3>. QED BY <3>2, <3>3 DEF o
  <2>6. CASE h \in Selections
    <3>1. Picks # <<>> /\ Picks' = Tail(Picks)
      BY <2>3, <2>5, <2>6
    <3>2. Rest' = Rest
      BY <2>3, <2>4, <2>6
    <3>. QED BY <2>1, <3>1, <3>2, SameOnly DEF Lanes!Next, Lanes!ApplySelection
  <2>7. CASE h \notin Selections
    <3>1. Rest # <<>> /\ Rest' = Tail(Rest)
      BY <2>2, <2>3, <2>5, <2>7
    <3>2. Picks' = Picks
      BY <2>3, <2>4, <2>7
    <3>. QED BY <2>1, <3>1, <3>2, SameOnly DEF Lanes!Next, Lanes!ApplyOther
  <2>. QED BY <2>6, <2>7
<1>9. CASE Clear
  <2>1. pending' = <<>> /\ queue' = <<>> /\ answer' = answer
    BY <1>9 DEF Clear
  <2>2. pending' \o queue' = <<>>
    BY <2>1
  <2>3. Picks' = <<>> /\ Rest' = <<>>
    BY <2>2, OnlyEmpty
  <2>. QED BY <2>1, <2>3, SameOnly DEF Lanes!Next, Lanes!Discard
<1>10. CASE UNCHANGED queueVars
  BY <1>4, <1>10 DEF queueVars
<1>. QED BY <1>5, <1>6, <1>7, <1>8, <1>9, <1>10 DEF QueueNext

\* The empty queue is that of the lanes.
LEMMA EmptyLanes == QueueInit => Lanes!Init
<1>. SUFFICES ASSUME QueueInit PROVE Lanes!Init
  OBVIOUS
<1>1. pending \o queue = <<>> /\ answer = "none"
  BY DEF QueueInit
<1>. QED BY <1>1, SameOnly, OnlyEmpty DEF Lanes!Init

\* The queue keeps the promise of the lanes: nothing accepted is lost or
\* overtaken in its lane, the last selection wins, a refused call changes
\* nothing.
THEOREM QueueKeepsLanes == QueueSpec => KeepsLanes
<1>. QED BY EmptyLanes, QueueBounded, QueueStepLanes, PTL DEF QueueSpec, KeepsLanes, Lanes!Order
=============================================================================
