----------------------------- MODULE SyncProofs -----------------------------
(***************************************************************************)
(* The startup sync of the memory service (MemorySync), for every value of *)
(* the constants: however often a pass is cut short, a name of the YAML    *)
(* files has one directive and an endpoint one webhook, a pass that is     *)
(* done left the bank as the files say, and the directives of others are   *)
(* kept.                                                                   *)
(*                                                                         *)
(* The invariant says how far a pass is: what it is through with is in     *)
(* order unless the bank was edited, and what it has read is still a       *)
(* prefix of what is there.                                                *)
(***************************************************************************)
EXTENDS MemorySync, TLAPS

\* A directive and a webhook of Hindsight.
Dirs == [name : Names \cup Foreign, content : Values]
Hooks == [url : {"retain", "consolidation"}, enabled : BOOLEAN, secret : Secrets]
\* Where a pass can be, and where it is through with the bank, the
\* configuration, the directives.
Points == {"load", "banks", "create", "config", "patch", "list", "directive", "hooks", "hook", "wait", "done"}
PastBank == {"config", "patch", "list", "directive", "hooks", "hook", "done"}
PastConfig == {"list", "directive", "hooks", "hook", "done"}
PastDirectives == {"hooks", "hook", "done"}

\* What the goroutine knows.
Svcs == [pc : Points, next : Nat, updates : SUBSET Fields, seen : Seq(Dirs) \cup Seq(Hooks)]

\* The shapes of the variables.
SyncTypes ==
    /\ up \in BOOLEAN /\ bank \in BOOLEAN /\ reachable \in BOOLEAN /\ edited \in BOOLEAN
    /\ config \in [Fields -> Values \cup {"absent"}]
    /\ directives \in Seq(Dirs) /\ webhooks \in Seq(Hooks)
    /\ svc \in Svcs
    /\ secret \in Secrets /\ edits \in Nat

\* The names of the YAML files before the n-th.
NamesBefore(n) == {Seed[k][1] : k \in {j \in 1 .. Len(Seed) : j < n}}
\* The directives before the n-th are there and say what the files say.
Seeded(dirs, n) ==
    \A k \in 1 .. Len(Seed) : k < n =>
        \E d \in 1 .. Len(dirs) : dirs[d].name = Seed[k][1] /\ dirs[d].content = Seed[k][2]
\* What a pass knows at the n-th directive: what it read is still at the
\* same positions, only the contents it is through with may be different, and
\* what has been added since is its own or of others; e says that the bank was
\* edited meanwhile.
DirView(dirs, seen, n, e) ==
    /\ n \in 1 .. Len(Seed) + 1 /\ seen \in Seq(Dirs) /\ Len(seen) <= Len(dirs)
    /\ \A i \in 1 .. Len(seen) :
          /\ dirs[i].name = seen[i].name
          /\ ~e => dirs[i].content = seen[i].content \/ dirs[i].name \in NamesBefore(n)
    /\ \A i \in 1 .. Len(dirs) : i > Len(seen) => dirs[i].name \in Foreign \cup NamesBefore(n)
    /\ ~e => Seeded(dirs, n)

\* The same for the endpoints of the webhooks.
UrlsBefore(n) == {Targets[k] : k \in {j \in 1 .. 2 : j < n}}
Hooked(hooks, n) ==
    \A k \in 1 .. 2 : k < n =>
        \E w \in 1 .. Len(hooks) : hooks[w].url = Targets[k] /\ hooks[w].enabled
HookView(hooks, seen, n, e) ==
    /\ n \in 1 .. 3 /\ seen \in Seq(Hooks) /\ Len(seen) <= Len(hooks)
    /\ \A i \in 1 .. Len(seen) :
          /\ hooks[i].url = seen[i].url
          /\ ~e => hooks[i].enabled = seen[i].enabled \/ hooks[i].url \in UrlsBefore(n)
    /\ \A i \in 1 .. Len(hooks) : i > Len(seen) => hooks[i].url \in UrlsBefore(n)
    /\ ~e => Hooked(hooks, n)

\* How far a pass is.
SyncProgress ==
    /\ svc.next \in 1 .. Len(Seed) + 3
    /\ svc.pc \in PastBank => bank
    /\ svc.pc = "patch" => svc.updates # {}
    /\ svc.pc = "patch" /\ ~edited => \A f \in Fields : config[f] # Wanted[f] => f \in svc.updates
    /\ svc.pc \in PastConfig /\ ~edited => config = Wanted
    /\ svc.pc = "directive" => DirView(directives, svc.seen, svc.next, edited)
    /\ svc.pc \in PastDirectives /\ ~edited => Seeded(directives, Len(Seed) + 1)
    /\ svc.pc = "hook" => HookView(webhooks, svc.seen, svc.next, edited)
    /\ svc.pc = "done" /\ ~edited => Hooked(webhooks, 3)

\* The inductive invariant.
SyncIInv == SyncTypes /\ NoDuplicates /\ SyncProgress

\* What NoDuplicates says of a list of directives and of one of webhooks.
NoTwice(dirs) ==
    \A i, j \in 1 .. Len(dirs) : i # j /\ dirs[i].name = dirs[j].name => dirs[i].name \in Foreign
HooksDiffer(hooks) ==
    \A i, j \in 1 .. Len(hooks) : i # j => hooks[i].url # hooks[j].url

\* A sequence with one more element, and with one element replaced.
LEMMA OneMore ==
  ASSUME NEW S, NEW s \in Seq(S), NEW x \in S
  PROVE  /\ Append(s, x) \in Seq(S) /\ Len(s) \in Nat /\ Len(Append(s, x)) = Len(s) + 1
         /\ Append(s, x)[Len(s) + 1] = x /\ Len(s) + 1 \in 1 .. Len(s) + 1
         /\ \A i \in 1 .. Len(s) : Append(s, x)[i] = s[i] /\ i \in 1 .. Len(s) + 1
         /\ \A i \in 1 .. Len(s) + 1 : i \in 1 .. Len(s) \/ i = Len(s) + 1
         /\ \A n \in Nat : n <= Len(s) => n <= Len(s) + 1
  OBVIOUS

LEMMA OneReplaced ==
  ASSUME NEW S, NEW s \in Seq(S), NEW x \in S, NEW id \in 1 .. Len(s)
  PROVE  /\ [s EXCEPT ![id] = x] \in Seq(S) /\ Len([s EXCEPT ![id] = x]) = Len(s)
         /\ \A i \in 1 .. Len(s) : [s EXCEPT ![id] = x][i] = IF i = id THEN x ELSE s[i]
  OBVIOUS

LEMMA Shorter ==
  ASSUME NEW S, NEW T, NEW s \in Seq(S), NEW t \in Seq(T), Len(s) <= Len(t)
  PROVE  /\ Len(s) \in Nat /\ Len(t) \in Nat /\ DOMAIN s = 1 .. Len(s) /\ DOMAIN t = 1 .. Len(t)
         /\ \A i \in 1 .. Len(s) : i \in 1 .. Len(t) /\ s[i] \in S
         /\ \A i \in 1 .. Len(t) : t[i] \in T /\ (i \in 1 .. Len(s) \/ i > Len(s))
  OBVIOUS

\* What the YAML files name.
LEMMA SeedIs ==
  ASSUME MemorySyncAssumption
  PROVE  /\ Len(Seed) \in Nat
         /\ \A k \in 1 .. Len(Seed) :
               Seed[k][1] \in Names /\ Seed[k][1] \notin Foreign /\ Seed[k][2] \in Values
         /\ \A k, l \in 1 .. Len(Seed) : Seed[k][1] = Seed[l][1] => k = l
<1>1. Seed \in Seq(Names \X Values) /\ DOMAIN Seed = 1 .. Len(Seed) /\ Len(Seed) \in Nat
  BY DEF MemorySyncAssumption
<1>2. \A k \in 1 .. Len(Seed) : Seed[k] \in Names \X Values
  BY <1>1
<1>3. \A k \in 1 .. Len(Seed) : Seed[k][1] \in Names /\ Seed[k][2] \in Values
  BY <1>2, Zenon
<1>4. QED
  BY <1>1, <1>3, Zenon DEF MemorySyncAssumption

\* The names a pass is through with.
LEMMA NamesGrow ==
  ASSUME MemorySyncAssumption, NEW n \in 1 .. Len(Seed)
  PROVE  /\ NamesBefore(n + 1) = NamesBefore(n) \cup {Seed[n][1]}
         /\ Seed[n][1] \notin Foreign /\ Seed[n][1] \notin NamesBefore(n)
<1>1. {j \in 1 .. Len(Seed) : j < n + 1} = {j \in 1 .. Len(Seed) : j < n} \cup {n}
  BY SeedIs
<1>2. n \notin {j \in 1 .. Len(Seed) : j < n}
  BY SeedIs
<1>3. NamesBefore(n + 1) = NamesBefore(n) \cup {Seed[n][1]}
  BY <1>1, Zenon DEF NamesBefore
<1>4. Seed[n][1] \notin Foreign
  BY SeedIs, Zenon
<1>5. Seed[n][1] \notin NamesBefore(n)
  BY <1>2, SeedIs, Zenon DEF NamesBefore
<1>6. QED
  BY <1>3, <1>4, <1>5, Zenon

\* byName finds the one directive of a name.
LEMMA NameFound ==
  ASSUME NEW seen \in Seq(Dirs), NEW name,
         \A i, j \in 1 .. Len(seen) : seen[i].name = name /\ seen[j].name = name => i = j
  PROVE  \/ byName(seen, name) = 0 /\ \A i \in 1 .. Len(seen) : seen[i].name # name
         \/ /\ byName(seen, name) \in 1 .. Len(seen) /\ byName(seen, name) # 0
            /\ seen[byName(seen, name)].name = name
<1> DEFINE ids == {i \in DOMAIN seen : seen[i].name = name}
<1>0. DOMAIN seen = 1 .. Len(seen) /\ \A i \in 1 .. Len(seen) : i <= i /\ i # 0
  OBVIOUS
<1>1. CASE ids = {}
  BY <1>0, <1>1, Zenon DEF byName
<1>2. CASE ids # {}
  <2>1. PICK i \in ids : TRUE
    BY <1>2, Zenon
  <2>2. \A j \in ids : j = i
    BY <1>0, <2>1, Zenon
  <2>3. \A j \in ids : j <= i
    BY <1>0, <2>1, <2>2, Zenon
  <2>4. (CHOOSE x \in ids : \A j \in ids : j <= x) \in ids
    BY <2>1, <2>3, Zenon
  <2>5. byName(seen, name) \in ids
    BY <1>2, <2>4, Zenon DEF byName
  <2>6. QED
    BY <1>0, <2>5, Zenon
<1>3. QED
  BY <1>1, <1>2, Zenon

\* A pass sees each name of the YAML files at most once.
LEMMA SeenOnce ==
  ASSUME MemorySyncAssumption, NEW dirs, NEW seen, NEW n \in 1 .. Len(Seed), NEW e,
         DirView(dirs, seen, n, e), NoTwice(dirs)
  PROVE  \A i, j \in 1 .. Len(seen) : seen[i].name = Seed[n][1] /\ seen[j].name = Seed[n][1] => i = j
<1>1. \A i \in 1 .. Len(seen) : i \in 1 .. Len(dirs) /\ dirs[i].name = seen[i].name
  <2>1. Len(seen) \in Nat /\ Len(seen) <= Len(dirs)
    BY DEF DirView
  <2>2. \A i \in 1 .. Len(seen) : i \in 1 .. Len(dirs)
    BY <2>1
  <2>3. QED
    BY <2>2, Zenon DEF DirView
<1>2. Seed[n][1] \notin Foreign
  BY NamesGrow, Zenon
<1>3. QED
  BY <1>1, <1>2, Zenon DEF NoTwice

\* What a pass creates for a name that it did not see.
LEMMA DirCreated ==
  ASSUME MemorySyncAssumption, NEW dirs \in Seq(Dirs), NEW seen, NEW n \in 1 .. Len(Seed),
         NEW e \in BOOLEAN, DirView(dirs, seen, n, e), NoTwice(dirs),
         \A i \in 1 .. Len(seen) : seen[i].name # Seed[n][1]
  PROVE  LET more == Append(dirs, [name |-> Seed[n][1], content |-> Seed[n][2]])
         IN  more \in Seq(Dirs) /\ NoTwice(more) /\ DirView(more, seen, n + 1, e)
<1> DEFINE new == [name |-> Seed[n][1], content |-> Seed[n][2]]
           more == Append(dirs, new)
<1>0. /\ Len(dirs) \in Nat /\ seen \in Seq(Dirs) /\ Len(seen) \in Nat /\ Len(seen) <= Len(dirs)
      /\ n + 1 \in 1 .. Len(Seed) + 1 /\ n \in Nat /\ Len(Seed) \in Nat
  BY SeedIs DEF DirView
<1>1. new \in Dirs /\ new.name = Seed[n][1] /\ new.content = Seed[n][2]
  BY SeedIs, Zenon DEF Dirs
<1> HIDE DEF new
<1>2. /\ more \in Seq(Dirs) /\ Len(more) = Len(dirs) + 1 /\ more[Len(dirs) + 1] = new
      /\ \A i \in 1 .. Len(dirs) : more[i] = dirs[i] /\ i \in 1 .. Len(more)
      /\ \A i \in 1 .. Len(more) : i \in 1 .. Len(dirs) \/ i = Len(dirs) + 1
      /\ Len(dirs) + 1 \in 1 .. Len(more) /\ Len(seen) <= Len(more)
      /\ \A i \in 1 .. Len(seen) : i \in 1 .. Len(dirs)
  BY <1>0, <1>1
<1> HIDE DEF more
<1>3. \A i \in 1 .. Len(dirs) : dirs[i].name # Seed[n][1]
  <2>1. \A i \in 1 .. Len(dirs) : i \in 1 .. Len(seen) \/ i > Len(seen)
    BY <1>0
  <2>2. QED
    BY <2>1, NamesGrow, Zenon DEF DirView
<1>4. NoTwice(more)
  <2>1. SUFFICES ASSUME NEW i \in 1 .. Len(more), NEW j \in 1 .. Len(more), i # j, more[i].name = more[j].name
                 PROVE  more[i].name \in Foreign
    BY Zenon DEF NoTwice
  <2>2. \A k \in 1 .. Len(dirs) : more[k].name # more[Len(dirs) + 1].name
    BY <1>1, <1>2, <1>3, Zenon
  <2>4. i \in 1 .. Len(dirs) \/ i = Len(dirs) + 1
    BY <1>2, Zenon
  <2>5. j \in 1 .. Len(dirs) \/ j = Len(dirs) + 1
    BY <1>2, Zenon
  <2>6. i \in 1 .. Len(dirs) /\ j \in 1 .. Len(dirs)
    BY <2>1, <2>2, <2>4, <2>5, Zenon
  <2>3. QED
    BY <1>2, <2>1, <2>6, Zenon DEF NoTwice
<1>5. ~e => Seeded(more, n + 1)
  <2>1. SUFFICES ASSUME ~e, NEW k \in 1 .. Len(Seed), k < n + 1
                 PROVE  \E d \in 1 .. Len(more) : more[d].name = Seed[k][1] /\ more[d].content = Seed[k][2]
    BY Zenon DEF Seeded
  <2>2. k < n \/ k = n
    BY <1>0, <2>1
  <2>3. CASE k < n
    <3>1. PICK d \in 1 .. Len(dirs) : dirs[d].name = Seed[k][1] /\ dirs[d].content = Seed[k][2]
      BY <2>1, <2>3, Zenon DEF DirView, Seeded
    <3>2. QED
      BY <1>2, <3>1, Zenon
  <2>4. CASE k = n
    BY <1>1, <1>2, <2>4, Zenon
  <2>5. QED
    BY <2>2, <2>3, <2>4, Zenon
<1>6. \A i \in 1 .. Len(seen) :
         /\ more[i].name = seen[i].name
         /\ ~e => more[i].content = seen[i].content \/ more[i].name \in NamesBefore(n + 1)
  BY <1>2, NamesGrow, Zenon DEF DirView
<1>7. \A i \in 1 .. Len(more) : i > Len(seen) => more[i].name \in Foreign \cup NamesBefore(n + 1)
  <2>1. SUFFICES ASSUME NEW i \in 1 .. Len(more), i > Len(seen)
                 PROVE  more[i].name \in Foreign \cup NamesBefore(n + 1)
    BY Zenon
  <2>2. NamesBefore(n) \subseteq NamesBefore(n + 1) /\ Seed[n][1] \in NamesBefore(n + 1)
    BY NamesGrow, Zenon
  <2>3. CASE i \in 1 .. Len(dirs)
    BY <1>2, <2>1, <2>2, <2>3, Zenon DEF DirView
  <2>4. CASE i = Len(dirs) + 1
    BY <1>1, <1>2, <2>2, <2>4, Zenon
  <2>5. QED
    BY <1>2, <2>3, <2>4, Zenon
<1>8. DirView(more, seen, n + 1, e)
  BY <1>0, <1>2, <1>5, <1>6, <1>7, Zenon DEF DirView
<1>9. QED
  BY <1>2, <1>4, <1>8, Zenon DEF more, new

\* What a pass makes of the directive it found.
LEMMA DirUpdated ==
  ASSUME MemorySyncAssumption, NEW dirs \in Seq(Dirs), NEW seen, NEW n \in 1 .. Len(Seed),
         NEW e \in BOOLEAN, DirView(dirs, seen, n, e), NoTwice(dirs),
         NEW id \in 1 .. Len(seen), seen[id].name = Seed[n][1],
         NEW more,
         \/ more = dirs /\ seen[id].content = Seed[n][2]
         \/ more = [dirs EXCEPT ![id].content = Seed[n][2]]
  PROVE  more \in Seq(Dirs) /\ NoTwice(more) /\ DirView(more, seen, n + 1, e)
<1>0. /\ Len(dirs) \in Nat /\ seen \in Seq(Dirs) /\ Len(seen) \in Nat /\ Len(seen) <= Len(dirs)
      /\ n + 1 \in 1 .. Len(Seed) + 1 /\ n \in Nat /\ Len(Seed) \in Nat
      /\ \A i \in 1 .. Len(seen) : i \in 1 .. Len(dirs)
  BY SeedIs DEF DirView
<1>1. more \in Seq(Dirs) /\ Len(more) = Len(dirs) /\ \A i \in 1 .. Len(dirs) : more[i].name = dirs[i].name
  <2>1. CASE more = dirs /\ seen[id].content = Seed[n][2]
    BY <2>1
  <2>2. CASE more = [dirs EXCEPT ![id].content = Seed[n][2]]
    <3>1. \A d \in Dirs : [d EXCEPT !.content = Seed[n][2]] \in Dirs /\ [d EXCEPT !.content = Seed[n][2]].name = d.name
      BY SeedIs DEF Dirs
    <3>2. dirs[id] \in Dirs /\ more = [dirs EXCEPT ![id] = [dirs[id] EXCEPT !.content = Seed[n][2]]]
      BY <1>0, <2>2
    <3> DEFINE new == [dirs[id] EXCEPT !.content = Seed[n][2]]
    <3>3. new \in Dirs /\ new.name = dirs[id].name
      BY <3>1, <3>2, Zenon
    <3> HIDE DEF new
    <3>4. more = [dirs EXCEPT ![id] = new]
      BY <3>2, Zenon DEF new
    <3>5. more \in Seq(Dirs) /\ Len(more) = Len(dirs) /\ \A i \in 1 .. Len(dirs) : more[i] = IF i = id THEN new ELSE dirs[i]
      BY <1>0, <3>3, <3>4
    <3>6. QED
      BY <3>3, <3>5, Zenon
  <2>3. QED
    BY <2>1, <2>2, Zenon
<1>2. \A i \in 1 .. Len(dirs) : i # id => more[i] = dirs[i]
  BY <1>0
<1>3. dirs[id].name = Seed[n][1] /\ more[id].name = Seed[n][1]
  BY <1>0, <1>1, Zenon DEF DirView
<1>4. ~e => more[id].content = Seed[n][2]
  <2>1. CASE more = dirs /\ seen[id].content = Seed[n][2]
    BY <1>3, <2>1, NamesGrow, Zenon DEF DirView
  <2>2. CASE more = [dirs EXCEPT ![id].content = Seed[n][2]]
    BY <1>0, <2>2 DEF Dirs
  <2>3. QED
    BY <2>1, <2>2, Zenon
<1>5. NoTwice(more)
  BY <1>1, Zenon DEF NoTwice
<1>6. ~e => Seeded(more, n + 1)
  <2>1. SUFFICES ASSUME ~e, NEW k \in 1 .. Len(Seed), k < n + 1
                 PROVE  \E d \in 1 .. Len(more) : more[d].name = Seed[k][1] /\ more[d].content = Seed[k][2]
    BY Zenon DEF Seeded
  <2>2. k = n \/ (k < n /\ k # n)
    BY <1>0, <2>1
  <2>3. CASE k < n /\ k # n
    <3>1. PICK d \in 1 .. Len(dirs) : dirs[d].name = Seed[k][1] /\ dirs[d].content = Seed[k][2]
      BY <2>1, <2>3, Zenon DEF DirView, Seeded
    <3>2. d # id
      BY <1>3, <2>3, <3>1, SeedIs, Zenon
    <3>3. QED
      BY <1>1, <1>2, <3>1, <3>2, Zenon
  <2>4. CASE k = n
    BY <1>0, <1>1, <1>3, <1>4, <2>1, <2>4, Zenon
  <2>5. QED
    BY <2>2, <2>3, <2>4, Zenon
<1>7. \A i \in 1 .. Len(seen) :
         /\ more[i].name = seen[i].name
         /\ ~e => more[i].content = seen[i].content \/ more[i].name \in NamesBefore(n + 1)
  BY <1>0, <1>1, <1>2, <1>3, NamesGrow, ZenonT(30) DEF DirView
<1>8. \A i \in 1 .. Len(more) : i > Len(seen) => more[i].name \in Foreign \cup NamesBefore(n + 1)
  BY <1>1, NamesGrow, Zenon DEF DirView
<1>9. DirView(more, seen, n + 1, e)
  BY <1>0, <1>1, <1>6, <1>7, <1>8, Zenon DEF DirView
<1>10. QED
  BY <1>1, <1>5, <1>9, Zenon

\* A directive added by other means.
LEMMA DirAdded ==
  ASSUME NEW dirs \in Seq(Dirs), NEW new \in Dirs, new.name \in Foreign
  PROVE  /\ Append(dirs, new) \in Seq(Dirs)
         /\ NoTwice(dirs) => NoTwice(Append(dirs, new))
         /\ \A seen, n, e : DirView(dirs, seen, n, e) => DirView(Append(dirs, new), seen, n, TRUE)
<1> DEFINE more == Append(dirs, new)
<1>1. /\ more \in Seq(Dirs) /\ Len(more) = Len(dirs) + 1 /\ more[Len(dirs) + 1] = new
      /\ \A i \in 1 .. Len(dirs) : more[i] = dirs[i] /\ i \in 1 .. Len(more)
      /\ \A i \in 1 .. Len(more) : i \in 1 .. Len(dirs) \/ i = Len(dirs) + 1
      /\ \A n \in Nat : n <= Len(dirs) => n <= Len(more)
  BY OneMore
<1> HIDE DEF more
<1>2. ASSUME NoTwice(dirs)
      PROVE  NoTwice(more)
  <2>1. SUFFICES ASSUME NEW i \in 1 .. Len(more), NEW j \in 1 .. Len(more), i # j, more[i].name = more[j].name
                 PROVE  more[i].name \in Foreign
    BY Zenon DEF NoTwice
  <2>2. CASE i = Len(dirs) + 1 \/ j = Len(dirs) + 1
    BY <1>1, <2>1, <2>2, Zenon
  <2>3. CASE i \in 1 .. Len(dirs) /\ j \in 1 .. Len(dirs)
    BY <1>1, <1>2, <2>1, <2>3, Zenon DEF NoTwice
  <2>4. QED
    BY <1>1, <2>2, <2>3, Zenon
<1>3. ASSUME NEW seen, NEW n, NEW e, DirView(dirs, seen, n, e)
      PROVE  DirView(more, seen, n, TRUE)
  <2>1. /\ n \in 1 .. Len(Seed) + 1 /\ seen \in Seq(Dirs) /\ Len(seen) <= Len(dirs)
        /\ \A i \in 1 .. Len(seen) : dirs[i].name = seen[i].name
        /\ \A i \in 1 .. Len(dirs) : i > Len(seen) => dirs[i].name \in Foreign \cup NamesBefore(n)
    BY <1>3, Zenon DEF DirView
  <2>2. Len(seen) \in Nat /\ \A i \in 1 .. Len(seen) : i \in 1 .. Len(dirs)
    BY <2>1, Shorter, Zenon
  <2>3. Len(seen) <= Len(more)
    BY <1>1, <2>1, <2>2, Zenon
  <2>4. \A i \in 1 .. Len(more) : i > Len(seen) => more[i].name \in Foreign \cup NamesBefore(n)
    BY <1>1, <2>1, Zenon
  <2>5. \A i \in 1 .. Len(seen) : more[i].name = seen[i].name
    BY <1>1, <2>1, <2>2, Zenon
  <2>6. QED
    BY <2>1, <2>3, <2>4, <2>5, Zenon DEF DirView
<1>4. QED
  BY <1>1, <1>2, <1>3, Zenon DEF more

\* A content changed by other means.
LEMMA DirChanged ==
  ASSUME NEW dirs \in Seq(Dirs), NEW v \in Values, NEW id \in 1 .. Len(dirs)
  PROVE  /\ [dirs EXCEPT ![id].content = v] \in Seq(Dirs)
         /\ NoTwice(dirs) => NoTwice([dirs EXCEPT ![id].content = v])
         /\ \A seen, n, e : DirView(dirs, seen, n, e)
                            => DirView([dirs EXCEPT ![id].content = v], seen, n, TRUE)
<1> DEFINE new == [dirs[id] EXCEPT !.content = v]
           more == [dirs EXCEPT ![id] = new]
<1>0. dirs[id] \in Dirs
  OBVIOUS
<1>1. \A d \in Dirs : [d EXCEPT !.content = v] \in Dirs /\ [d EXCEPT !.content = v].name = d.name
  BY DEF Dirs
<1>2. new \in Dirs /\ new.name = dirs[id].name
  BY <1>0, <1>1, Zenon
<1> HIDE DEF new
<1>3. more \in Seq(Dirs) /\ Len(more) = Len(dirs) /\ \A i \in 1 .. Len(dirs) : more[i] = IF i = id THEN new ELSE dirs[i]
  BY <1>2, OneReplaced
<1>4. [dirs EXCEPT ![id].content = v] = more
  BY DEF new
<1> HIDE DEF more
<1>5. \A i \in 1 .. Len(dirs) : more[i].name = dirs[i].name
  BY <1>2, <1>3, Zenon
<1>6. NoTwice(dirs) => NoTwice(more)
  BY <1>3, <1>5, Zenon DEF NoTwice
<1>7. ASSUME NEW seen, NEW n, NEW e, DirView(dirs, seen, n, e)
      PROVE  DirView(more, seen, n, TRUE)
  <2>1. /\ n \in 1 .. Len(Seed) + 1 /\ seen \in Seq(Dirs) /\ Len(seen) <= Len(dirs)
        /\ \A i \in 1 .. Len(seen) : dirs[i].name = seen[i].name
        /\ \A i \in 1 .. Len(dirs) : i > Len(seen) => dirs[i].name \in Foreign \cup NamesBefore(n)
    BY <1>7, Zenon DEF DirView
  <2>2. \A i \in 1 .. Len(seen) : i \in 1 .. Len(dirs)
    BY <2>1, Shorter, Zenon
  <2>3. QED
    BY <1>3, <1>5, <2>1, <2>2, Zenon DEF DirView
<1>8. QED
  BY <1>3, <1>4, <1>6, <1>7, Zenon

\* The two endpoints, and those a pass is through with.
LEMMA UrlsGrow ==
  /\ \A k \in 1 .. 2 : Targets[k] \in {"retain", "consolidation"}
  /\ \A k, l \in 1 .. 2 : Targets[k] = Targets[l] => k = l
  /\ \A n \in 1 .. 2 : /\ UrlsBefore(n + 1) = UrlsBefore(n) \cup {Targets[n]}
                      /\ Targets[n] \notin UrlsBefore(n)
<1>1. \A k \in 1 .. 2 : k = 1 \/ k = 2
  OBVIOUS
<1>2. Targets[1] = "retain" /\ Targets[2] = "consolidation"
  BY DEF Targets
<1>3. \A k, l \in 1 .. 2 : Targets[k] = Targets[l] => k = l
  BY <1>1, <1>2
<1>4. \A n \in 1 .. 2 : {j \in 1 .. 2 : j < n + 1} = {j \in 1 .. 2 : j < n} \cup {n}
  OBVIOUS
<1>5. \A n \in 1 .. 2 : n \notin {j \in 1 .. 2 : j < n}
  OBVIOUS
<1>6. \A n \in 1 .. 2 : UrlsBefore(n + 1) = UrlsBefore(n) \cup {Targets[n]}
  BY <1>4, Zenon DEF UrlsBefore
<1>7. \A n \in 1 .. 2 : Targets[n] \notin UrlsBefore(n)
  BY <1>3, <1>5, Zenon DEF UrlsBefore
<1>8. \A k \in 1 .. 2 : Targets[k] \in {"retain", "consolidation"}
  BY <1>1, <1>2, Zenon
<1>9. QED
  BY <1>3, <1>6, <1>7, <1>8, Zenon

\* The webhook RegisterWebhooks finds for an endpoint.
HookIds(seen, n) == {i \in DOMAIN seen : seen[i].url = Targets[n]}
HookId(seen, n) == CHOOSE i \in HookIds(seen, n) : \A j \in HookIds(seen, n) : i <= j

LEMMA HookFound ==
  ASSUME NEW hooks \in Seq(Hooks), NEW seen, NEW n \in 1 .. 2, NEW e,
         HookView(hooks, seen, n, e), HooksDiffer(hooks)
  PROVE  /\ HookIds(seen, n) = {} => \A i \in 1 .. Len(seen) : seen[i].url # Targets[n]
         /\ HookIds(seen, n) # {} => HookId(seen, n) \in 1 .. Len(seen) /\ seen[HookId(seen, n)].url = Targets[n]
<1> DEFINE ids == {i \in DOMAIN seen : seen[i].url = Targets[n]}
           id == CHOOSE i \in ids : \A j \in ids : i <= j
<1>1. /\ Len(hooks) \in Nat /\ Len(seen) \in Nat /\ DOMAIN seen = 1 .. Len(seen) /\ Len(seen) <= Len(hooks)
      /\ \A i \in 1 .. Len(seen) : i <= i
  BY DEF HookView
<1>2. \A i \in 1 .. Len(seen) : i \in 1 .. Len(hooks)
  BY <1>1
<1>3. \A i, j \in ids : i = j
  <2>1. SUFFICES ASSUME NEW i \in ids, NEW j \in ids
                 PROVE  i = j
    BY Zenon
  <2>2. i \in 1 .. Len(seen) /\ j \in 1 .. Len(seen) /\ seen[i].url = Targets[n] /\ seen[j].url = Targets[n]
    BY <1>1, Zenon
  <2>3. hooks[i].url = hooks[j].url
    BY <2>2, Zenon DEF HookView
  <2>4. QED
    BY <1>2, <2>2, <2>3, Zenon DEF HooksDiffer
<1>4. ASSUME NEW i \in ids
      PROVE  id \in ids
  <2>1. \A j \in ids : i <= j
    BY <1>1, <1>3, <1>4, Zenon
  <2>2. QED
    BY <1>4, <2>1, Zenon
<1>5. ids = {} => \A i \in 1 .. Len(seen) : seen[i].url # Targets[n]
  BY <1>1
<1>6. ids # {} => id \in ids
  BY <1>4, Zenon
<1>7. \A i \in ids : i \in 1 .. Len(seen) /\ seen[i].url = Targets[n]
  BY <1>1
<1>8. QED
  BY <1>5, <1>6, <1>7, Zenon DEF HookIds, HookId

\* A webhook created for an endpoint that had none.
LEMMA HookCreated ==
  ASSUME NEW hooks \in Seq(Hooks), NEW seen, NEW n \in 1 .. 2, NEW e \in BOOLEAN, NEW x \in Secrets,
         HookView(hooks, seen, n, e), HooksDiffer(hooks),
         \A i \in 1 .. Len(seen) : seen[i].url # Targets[n]
  PROVE  LET more == Append(hooks, [url |-> Targets[n], enabled |-> TRUE, secret |-> x])
         IN  more \in Seq(Hooks) /\ HooksDiffer(more) /\ HookView(more, seen, n + 1, e)
<1> DEFINE new == [url |-> Targets[n], enabled |-> TRUE, secret |-> x]
           more == Append(hooks, new)
<1>1. new \in Hooks /\ new.url = Targets[n] /\ new.enabled
  BY UrlsGrow, Zenon DEF Hooks
<1> HIDE DEF new
<1>2. /\ more \in Seq(Hooks) /\ Len(more) = Len(hooks) + 1 /\ more[Len(hooks) + 1] = new
      /\ \A i \in 1 .. Len(hooks) : more[i] = hooks[i] /\ i \in 1 .. Len(more)
      /\ \A i \in 1 .. Len(more) : i \in 1 .. Len(hooks) \/ i = Len(hooks) + 1
      /\ Len(hooks) + 1 \in 1 .. Len(more)
      /\ \A m \in Nat : m <= Len(hooks) => m <= Len(more)
  BY <1>1, OneMore
<1> HIDE DEF more
<1>0. /\ seen \in Seq(Hooks) /\ Len(seen) <= Len(hooks)
      /\ \A i \in 1 .. Len(seen) : hooks[i].url = seen[i].url /\ (~e => hooks[i].enabled = seen[i].enabled \/ hooks[i].url \in UrlsBefore(n))
      /\ \A i \in 1 .. Len(hooks) : i > Len(seen) => hooks[i].url \in UrlsBefore(n)
      /\ ~e => Hooked(hooks, n)
  BY Zenon DEF HookView
<1>3. /\ Len(seen) \in Nat
      /\ \A i \in 1 .. Len(seen) : i \in 1 .. Len(hooks)
      /\ \A i \in 1 .. Len(hooks) : i \in 1 .. Len(seen) \/ i > Len(seen)
  BY <1>0, Shorter, Zenon
<1>4. /\ UrlsBefore(n) \subseteq UrlsBefore(n + 1) /\ Targets[n] \in UrlsBefore(n + 1)
      /\ Targets[n] \notin UrlsBefore(n)
  BY UrlsGrow, Zenon
<1>5. \A i \in 1 .. Len(hooks) : hooks[i].url # Targets[n]
  BY <1>0, <1>3, <1>4, Zenon
<1>6. HooksDiffer(more)
  <2>1. SUFFICES ASSUME NEW i \in 1 .. Len(more), NEW j \in 1 .. Len(more), i # j
                 PROVE  more[i].url # more[j].url
    BY Zenon DEF HooksDiffer
  <2>2. \A k \in 1 .. Len(hooks) : more[k].url # more[Len(hooks) + 1].url
    BY <1>1, <1>2, <1>5, Zenon
  <2>3. CASE i \in 1 .. Len(hooks) /\ j \in 1 .. Len(hooks)
    BY <1>2, <2>1, <2>3, Zenon DEF HooksDiffer
  <2>4. QED
    BY <1>2, <2>1, <2>2, <2>3, Zenon
<1>7. ASSUME ~e, NEW k \in 1 .. 2, k < n + 1
      PROVE  \E w \in 1 .. Len(more) : more[w].url = Targets[k] /\ more[w].enabled
  <2>1. k < n \/ k = n
    BY <1>7
  <2>2. CASE k < n
    <3>1. PICK w \in 1 .. Len(hooks) : hooks[w].url = Targets[k] /\ hooks[w].enabled
      BY <1>0, <1>7, <2>2, Zenon DEF Hooked
    <3>2. QED
      BY <1>2, <3>1, Zenon
  <2>3. CASE k = n
    BY <1>1, <1>2, <2>3, Zenon
  <2>4. QED
    BY <2>1, <2>2, <2>3, Zenon
<1>8. ~e => Hooked(more, n + 1)
  BY <1>7, Zenon DEF Hooked
<1>9. \A i \in 1 .. Len(seen) :
         /\ more[i].url = seen[i].url
         /\ ~e => more[i].enabled = seen[i].enabled \/ more[i].url \in UrlsBefore(n + 1)
  BY <1>0, <1>2, <1>3, <1>4, Zenon
<1>10. \A i \in 1 .. Len(more) : i > Len(seen) => more[i].url \in UrlsBefore(n + 1)
  BY <1>0, <1>1, <1>2, <1>4, Zenon
<1>11. n + 1 \in 1 .. 3 /\ Len(seen) <= Len(more)
  <2>1. n + 1 \in 1 .. 3
    OBVIOUS
  <2>2. QED
    BY <1>0, <1>2, <1>3, <2>1, Zenon
<1>12. HookView(more, seen, n + 1, e)
  BY <1>0, <1>8, <1>9, <1>10, <1>11, Zenon DEF HookView
<1>13. QED
  BY <1>2, <1>6, <1>12, Zenon DEF more, new

\* What a pass makes of the webhook it found.
LEMMA HookEnabled ==
  ASSUME NEW hooks \in Seq(Hooks), NEW seen, NEW n \in 1 .. 2, NEW e \in BOOLEAN,
         HookView(hooks, seen, n, e), HooksDiffer(hooks),
         NEW id \in 1 .. Len(seen), seen[id].url = Targets[n],
         NEW more,
         \/ more = hooks /\ seen[id].enabled
         \/ more = [hooks EXCEPT ![id].enabled = TRUE]
  PROVE  more \in Seq(Hooks) /\ HooksDiffer(more) /\ HookView(more, seen, n + 1, e)
<1>0. /\ seen \in Seq(Hooks) /\ Len(seen) <= Len(hooks)
      /\ \A i \in 1 .. Len(seen) : hooks[i].url = seen[i].url /\ (~e => hooks[i].enabled = seen[i].enabled \/ hooks[i].url \in UrlsBefore(n))
      /\ \A i \in 1 .. Len(hooks) : i > Len(seen) => hooks[i].url \in UrlsBefore(n)
      /\ ~e => Hooked(hooks, n)
  BY Zenon DEF HookView
<1>1. /\ Len(seen) \in Nat
      /\ \A i \in 1 .. Len(seen) : i \in 1 .. Len(hooks)
      /\ \A i \in 1 .. Len(hooks) : hooks[i] \in Hooks
  BY <1>0, Shorter, Zenon
<1>2. /\ UrlsBefore(n) \subseteq UrlsBefore(n + 1) /\ Targets[n] \in UrlsBefore(n + 1)
      /\ Targets[n] \notin UrlsBefore(n)
  BY UrlsGrow, Zenon
<1>3. id \in 1 .. Len(hooks) /\ hooks[id].url = Targets[n]
  BY <1>0, <1>1, Zenon
<1>4. /\ more \in Seq(Hooks) /\ Len(more) = Len(hooks)
      /\ \A i \in 1 .. Len(hooks) : more[i].url = hooks[i].url /\ (i # id => more[i] = hooks[i])
      /\ ~e => more[id].enabled
  <2>1. CASE more = hooks /\ seen[id].enabled
    BY <1>0, <1>2, <1>3, <2>1, Zenon
  <2>2. CASE more = [hooks EXCEPT ![id].enabled = TRUE]
    <3> DEFINE new == [hooks[id] EXCEPT !.enabled = TRUE]
    <3>1. \A w \in Hooks : /\ [w EXCEPT !.enabled = TRUE] \in Hooks
                           /\ [w EXCEPT !.enabled = TRUE].url = w.url /\ [w EXCEPT !.enabled = TRUE].enabled
      BY Zenon DEF Hooks
    <3>2. new \in Hooks /\ new.url = hooks[id].url /\ new.enabled
      BY <1>1, <1>3, <3>1, Zenon
    <3>3. more = [hooks EXCEPT ![id] = new]
      BY <1>3, <2>2
    <3> HIDE DEF new
    <3>4. more \in Seq(Hooks) /\ Len(more) = Len(hooks) /\ \A i \in 1 .. Len(hooks) : more[i] = IF i = id THEN new ELSE hooks[i]
      BY <1>3, <3>2, <3>3, OneReplaced
    <3>5. QED
      BY <1>3, <3>2, <3>4, Zenon
  <2>3. QED
    BY <2>1, <2>2, Zenon
<1>5. HooksDiffer(more)
  <2>1. \A i \in 1 .. Len(hooks) : more[i].url = hooks[i].url
    BY <1>4, Zenon
  <2>2. Len(more) = Len(hooks)
    BY <1>4, Zenon
  <2>3. QED
    BY <2>1, <2>2 DEF HooksDiffer
<1>6. ASSUME ~e, NEW k \in 1 .. 2, k < n + 1
      PROVE  \E w \in 1 .. Len(more) : more[w].url = Targets[k] /\ more[w].enabled
  <2>1. k = n \/ (k < n /\ k # n)
    BY <1>6
  <2>2. CASE k < n /\ k # n
    <3>1. PICK w \in 1 .. Len(hooks) : hooks[w].url = Targets[k] /\ hooks[w].enabled
      BY <1>0, <1>6, <2>2, Zenon DEF Hooked
    <3>2. w # id
      BY <1>3, <2>2, <3>1, UrlsGrow, Zenon
    <3>3. QED
      BY <1>4, <3>1, <3>2, Zenon
  <2>3. CASE k = n
    BY <1>3, <1>4, <1>6, <2>3, Zenon
  <2>4. QED
    BY <2>1, <2>2, <2>3, Zenon
<1>7. ~e => Hooked(more, n + 1)
  BY <1>6, Zenon DEF Hooked
<1>8. \A i \in 1 .. Len(seen) :
         /\ more[i].url = seen[i].url
         /\ ~e => more[i].enabled = seen[i].enabled \/ more[i].url \in UrlsBefore(n + 1)
  BY <1>0, <1>1, <1>2, <1>3, <1>4, Zenon
<1>9. \A i \in 1 .. Len(more) : i > Len(seen) => more[i].url \in UrlsBefore(n + 1)
  BY <1>0, <1>2, <1>4, Zenon
<1>10. n + 1 \in 1 .. 3
  OBVIOUS
<1>11. HookView(more, seen, n + 1, e)
  BY <1>0, <1>4, <1>7, <1>8, <1>9, <1>10, Zenon DEF HookView
<1>12. QED
  BY <1>4, <1>5, <1>11, Zenon

\* A webhook disabled by other means.
LEMMA HookDisabled ==
  ASSUME NEW hooks \in Seq(Hooks), NEW id \in 1 .. Len(hooks)
  PROVE  /\ [hooks EXCEPT ![id].enabled = FALSE] \in Seq(Hooks)
         /\ HooksDiffer(hooks) => HooksDiffer([hooks EXCEPT ![id].enabled = FALSE])
         /\ \A seen, n, e : HookView(hooks, seen, n, e)
                            => HookView([hooks EXCEPT ![id].enabled = FALSE], seen, n, TRUE)
<1> DEFINE new == [hooks[id] EXCEPT !.enabled = FALSE]
           more == [hooks EXCEPT ![id] = new]
<1>0. hooks[id] \in Hooks
  OBVIOUS
<1>1. \A w \in Hooks : [w EXCEPT !.enabled = FALSE] \in Hooks /\ [w EXCEPT !.enabled = FALSE].url = w.url
  BY Zenon DEF Hooks
<1>2. new \in Hooks /\ new.url = hooks[id].url
  BY <1>0, <1>1, Zenon
<1> HIDE DEF new
<1>3. more \in Seq(Hooks) /\ Len(more) = Len(hooks) /\ \A i \in 1 .. Len(hooks) : more[i] = IF i = id THEN new ELSE hooks[i]
  BY <1>2, OneReplaced
<1>4. [hooks EXCEPT ![id].enabled = FALSE] = more
  BY DEF new
<1> HIDE DEF more
<1>5. \A i \in 1 .. Len(hooks) : more[i].url = hooks[i].url
  BY <1>2, <1>3, Zenon
<1>6. HooksDiffer(hooks) => HooksDiffer(more)
  BY <1>3, <1>5, Zenon DEF HooksDiffer
<1>7. ASSUME NEW seen, NEW n, NEW e, HookView(hooks, seen, n, e)
      PROVE  HookView(more, seen, n, TRUE)
  <2>1. /\ n \in 1 .. 3 /\ seen \in Seq(Hooks) /\ Len(seen) <= Len(hooks)
        /\ \A i \in 1 .. Len(seen) : hooks[i].url = seen[i].url
        /\ \A i \in 1 .. Len(hooks) : i > Len(seen) => hooks[i].url \in UrlsBefore(n)
    BY <1>7, Zenon DEF HookView
  <2>2. \A i \in 1 .. Len(seen) : i \in 1 .. Len(hooks)
    BY <2>1, Shorter, Zenon
  <2>3. QED
    BY <1>3, <1>5, <2>1, <2>2, Zenon DEF HookView
<1>8. QED
  BY <1>3, <1>4, <1>6, <1>7, Zenon

\* The goroutine after it read the configuration, and after it listed something.
Patching(s, p, u) == [s EXCEPT !.pc = p, !.updates = u]
Listing(s, p, q) == [s EXCEPT !.pc = p, !.next = 1, !.seen = q]

\* What the goroutine knows after it moved on.
LEMMA SvcAt ==
  ASSUME NEW s \in Svcs, NEW p \in Points
  PROVE  /\ s.pc \in Points /\ s.next \in Nat /\ s.updates \subseteq Fields
         /\ [s EXCEPT !.pc = p] \in Svcs /\ [s EXCEPT !.pc = p].pc = p
         /\ [s EXCEPT !.pc = p].next = s.next /\ [s EXCEPT !.pc = p].updates = s.updates
         /\ [s EXCEPT !.pc = p].seen = s.seen
  BY DEF Svcs

LEMMA SvcFurther ==
  ASSUME NEW s \in Svcs, NEW t, t = [s EXCEPT !.next = @ + 1]
  PROVE  t \in Svcs /\ t.pc = s.pc /\ t.next = s.next + 1 /\ t.updates = s.updates /\ t.seen = s.seen
  BY DEF Svcs

LEMMA SvcListed ==
  ASSUME NEW s \in Svcs, NEW p \in Points, NEW q \in Seq(Dirs) \cup Seq(Hooks)
  PROVE  /\ Listing(s, p, q) \in Svcs /\ Listing(s, p, q).pc = p
         /\ Listing(s, p, q).next = 1 /\ Listing(s, p, q).seen = q
  BY Zenon DEF Svcs, Listing

LEMMA SvcUpdates ==
  ASSUME NEW s \in Svcs, NEW p \in Points, NEW u \in SUBSET Fields
  PROVE  /\ Patching(s, p, u) \in Svcs /\ Patching(s, p, u).pc = p
         /\ Patching(s, p, u).next = s.next /\ Patching(s, p, u).updates = u
  BY Zenon DEF Svcs, Patching

LEMMA SvcStart ==
  LET t == [StartPass EXCEPT !.pc = "banks"]
  IN  /\ StartPass \in Svcs /\ StartPass.pc = "load" /\ StartPass.next = 1
      /\ t \in Svcs /\ t.pc = "banks" /\ t.next = 1
<1>1. <<>> \in Seq(Dirs)
  OBVIOUS
<1>2. QED
  BY <1>1, Zenon DEF StartPass, Svcs, Points

\* NoDuplicates says this of the two sequences.
LEMMA NoDuplicatesIs ==
  ASSUME SyncTypes
  PROVE  NoDuplicates <=> NoTwice(directives) /\ HooksDiffer(webhooks)
<1>1. DOMAIN directives = 1 .. Len(directives) /\ DOMAIN webhooks = 1 .. Len(webhooks)
  BY DEF SyncTypes
<1>2. QED
  BY <1>1, Zenon DEF NoDuplicates, NoTwice, HooksDiffer

LEMMA NoDuplicatesNext ==
  ASSUME SyncTypes', NoTwice(directives'), HooksDiffer(webhooks')
  PROVE  NoDuplicates'
<1>1. DOMAIN directives' = 1 .. Len(directives') /\ DOMAIN webhooks' = 1 .. Len(webhooks')
  BY DEF SyncTypes
<1>2. QED
  BY <1>1, Zenon DEF NoDuplicates, NoTwice, HooksDiffer

\* What SyncProgress says of the state after a step.
LEMMA ProgressNext ==
  ASSUME /\ svc'.next \in 1 .. Len(Seed) + 3
         /\ svc'.pc \in PastBank => bank'
         /\ svc'.pc = "patch" => svc'.updates # {}
         /\ svc'.pc = "patch" /\ ~edited' => \A f \in Fields : config'[f] # Wanted[f] => f \in svc'.updates
         /\ svc'.pc \in PastConfig /\ ~edited' => config' = Wanted
         /\ svc'.pc = "directive" => DirView(directives', svc'.seen, svc'.next, edited')
         /\ svc'.pc \in PastDirectives /\ ~edited' => Seeded(directives', Len(Seed) + 1)
         /\ svc'.pc = "hook" => HookView(webhooks', svc'.seen, svc'.next, edited')
         /\ svc'.pc = "done" /\ ~edited' => Hooked(webhooks', 3)
  PROVE  SyncProgress'
  BY Zenon DEF SyncProgress

\* A pass that starts over has nothing to show yet.
LEMMA StartsOver ==
  ASSUME svc'.next \in 1 .. Len(Seed) + 3, svc'.pc \in {"load", "banks", "create", "wait"}
  PROVE  SyncProgress'
<1>1. /\ svc'.pc \notin PastBank /\ svc'.pc \notin PastConfig /\ svc'.pc \notin PastDirectives
      /\ svc'.pc # "patch" /\ svc'.pc # "directive" /\ svc'.pc # "hook" /\ svc'.pc # "done"
  BY DEF PastBank, PastConfig, PastDirectives
<1>2. QED
  BY <1>1, ProgressNext, Zenon

\* A pass that fails.
LEMMA PassFailed ==
  ASSUME SyncIInv, FailPass
  PROVE  svc' \in Svcs /\ reachable' \in BOOLEAN /\ SyncProgress'
<1>1. svc \in Svcs /\ svc.next \in 1 .. Len(Seed) + 3 /\ "wait" \in Points
  BY Zenon DEF SyncIInv, SyncTypes, SyncProgress, Points
<1>2. svc' = [svc EXCEPT !.pc = "wait"] /\ reachable' = FALSE
  BY Zenon DEF FailPass, Goto
<1>3. svc' \in Svcs /\ svc'.pc = "wait" /\ svc'.next = svc.next
  BY <1>1, <1>2, SvcAt, Zenon
<1>4. QED
  BY <1>1, <1>2, <1>3, StartsOver, Zenon

\* A call that changes something, when it went through and when it did not.
LEMMA AfterCall ==
  ASSUME SyncIInv, NEW next \in Svcs, Outcome(next), svc' = next => SyncProgress',
         bank' \in BOOLEAN, config' \in [Fields -> Values \cup {"absent"}], up' = up,
         directives' \in Seq(Dirs), webhooks' \in Seq(Hooks),
         NoTwice(directives'), HooksDiffer(webhooks')
  PROVE  SyncIInv'
<1>1. svc' \in Svcs /\ reachable' \in BOOLEAN /\ SyncProgress'
  <2>1. CASE svc' = next /\ UNCHANGED <<reachable, syncFaults>>
    BY <2>1, Zenon DEF SyncIInv, SyncTypes
  <2>2. CASE FailPass
    BY <2>2, PassFailed, Zenon
  <2>3. QED
    BY <2>1, <2>2, Zenon DEF Outcome
<1>2. secret' = secret /\ edited' = edited /\ edits' = edits
  BY Zenon DEF Outcome
<1>3. SyncTypes'
  BY <1>1, <1>2, Zenon DEF SyncIInv, SyncTypes
<1>4. QED
  BY <1>1, <1>3, NoDuplicatesNext, Zenon DEF SyncIInv

\* A step that changes nothing in Hindsight.
LEMMA NothingChanged ==
  ASSUME SyncIInv, bank' = bank, config' = config, directives' = directives, webhooks' = webhooks,
         up' \in BOOLEAN, svc' \in Svcs, reachable' \in BOOLEAN, secret' \in Secrets,
         edited' \in BOOLEAN, edits' = edits, SyncProgress'
  PROVE  SyncIInv'
<1>1. SyncTypes'
  BY Zenon DEF SyncIInv, SyncTypes
<1>2. NoTwice(directives') /\ HooksDiffer(webhooks')
  BY NoDuplicatesIs, Zenon DEF SyncIInv
<1>3. QED
  BY <1>1, <1>2, NoDuplicatesNext, Zenon DEF SyncIInv

LEMMA LoadStep ==
  ASSUME SyncIInv, LoadSeed
  PROVE  SyncIInv'
<1>1. /\ up' = up /\ bank' = bank /\ config' = config /\ directives' = directives /\ webhooks' = webhooks
      /\ edited' = FALSE /\ secret' = secret /\ edits' = edits
  BY Zenon DEF LoadSeed, hindsight
<1>2. svc' \in Svcs /\ reachable' \in BOOLEAN /\ SyncProgress'
  <2>1. CASE svc' = [StartPass EXCEPT !.pc = "banks"] /\ UNCHANGED <<reachable, syncFaults>>
    <3>1. svc' \in Svcs /\ svc'.pc = "banks" /\ svc'.next = 1
      BY <2>1, SvcStart, Zenon
    <3>2. 1 \in 1 .. Len(Seed) + 3
      BY DEF SyncIInv, SyncProgress
    <3>3. QED
      BY <2>1, <3>1, <3>2, StartsOver, Zenon DEF SyncIInv, SyncTypes
  <2>2. CASE FailPass
    BY <2>2, PassFailed, Zenon
  <2>3. QED
    BY <2>1, <2>2, Zenon DEF LoadSeed
<1>3. QED
  BY <1>1, <1>2, NothingChanged, Zenon DEF SyncIInv, SyncTypes

LEMMA BanksStep ==
  ASSUME SyncIInv, ListBanks \/ CreateBank
  PROVE  SyncIInv'
<1>0. /\ svc \in Svcs /\ svc.next \in 1 .. Len(Seed) + 3 /\ bank \in BOOLEAN
      /\ NoTwice(directives) /\ HooksDiffer(webhooks)
      /\ "config" \in Points /\ "create" \in Points
  BY NoDuplicatesIs, Zenon DEF SyncIInv, SyncTypes, SyncProgress, Points
<1>1. ASSUME svc' = [svc EXCEPT !.pc = "config"], bank' = TRUE
      PROVE  SyncProgress'
  <2>1. svc'.pc = "config" /\ svc'.next = svc.next
    BY <1>0, <1>1, SvcAt, Zenon
  <2>2. /\ svc'.pc \notin PastConfig /\ svc'.pc \notin PastDirectives
        /\ svc'.pc # "patch" /\ svc'.pc # "directive" /\ svc'.pc # "hook" /\ svc'.pc # "done"
    BY <2>1 DEF PastConfig, PastDirectives
  <2>3. QED
    BY <1>0, <1>1, <2>1, <2>2, ProgressNext, Zenon
<1>2. CASE ListBanks
  <2>1. /\ up' = up /\ bank' = bank /\ config' = config /\ directives' = directives /\ webhooks' = webhooks
        /\ edited' = edited /\ secret' = secret /\ edits' = edits /\ reachable' = reachable
        /\ svc' = [svc EXCEPT !.pc = IF bank THEN "config" ELSE "create"]
    BY <1>2, Zenon DEF ListBanks, Reads, hindsight, bounds
  <2>2. svc' \in Svcs
    BY <1>0, <2>1, SvcAt, Zenon
  <2>3. CASE bank
    BY <1>1, <2>1, <2>2, <2>3, NothingChanged, Zenon DEF SyncIInv, SyncTypes
  <2>4. CASE ~bank
    <3>1. svc'.pc = "create" /\ svc'.next = svc.next
      <4>1. svc' = [svc EXCEPT !.pc = "create"]
        BY <2>1, <2>4, Zenon
      <4>2. QED
        BY <1>0, <4>1, SvcAt, Zenon
    <3>2. SyncProgress'
      BY <1>0, <3>1, StartsOver, Zenon
    <3>3. QED
      BY <2>1, <2>2, <3>2, NothingChanged, Zenon DEF SyncIInv, SyncTypes
  <2>5. QED
    BY <2>3, <2>4, Zenon
<1>3. CASE CreateBank
  <2>1. /\ up' = up /\ bank' = TRUE /\ config' = config /\ directives' = directives /\ webhooks' = webhooks
        /\ Outcome([svc EXCEPT !.pc = "config"])
    BY <1>3, Zenon DEF CreateBank
  <2>2. [svc EXCEPT !.pc = "config"] \in Svcs
    BY <1>0, SvcAt, Zenon
  <2>3. /\ bank' \in BOOLEAN /\ config' \in [Fields -> Values \cup {"absent"}]
        /\ directives' \in Seq(Dirs) /\ webhooks' \in Seq(Hooks)
        /\ NoTwice(directives') /\ HooksDiffer(webhooks')
    BY <1>0, <2>1, Zenon DEF SyncIInv, SyncTypes
  <2>4. svc' = [svc EXCEPT !.pc = "config"] => SyncProgress'
    BY <1>1, <2>1, Zenon
  <2>5. QED
    BY <2>1, <2>2, <2>3, <2>4, AfterCall, Zenon
<1>4. QED
  BY <1>2, <1>3, Zenon

\* A pass that is through with the configuration.
LEMMA ConfigDone ==
  ASSUME SyncIInv, svc.pc \in PastBank, bank' = bank, svc'.pc = "list", svc'.next = svc.next,
         edited' = edited, ~edited => config' = Wanted
  PROVE  SyncProgress'
<1>1. /\ svc'.pc \notin PastDirectives /\ svc'.pc # "patch" /\ svc'.pc # "directive"
      /\ svc'.pc # "hook" /\ svc'.pc # "done"
  BY DEF PastDirectives
<1>2. svc'.next \in 1 .. Len(Seed) + 3 /\ bank'
  BY Zenon DEF SyncIInv, SyncProgress
<1>3. QED
  BY <1>1, <1>2, ProgressNext, Zenon

LEMMA ConfigStep ==
  ASSUME MemorySyncAssumption, SyncIInv, GetConfig \/ PatchConfig
  PROVE  SyncIInv'
<1>0. /\ svc \in Svcs /\ svc.next \in 1 .. Len(Seed) + 3
      /\ NoTwice(directives) /\ HooksDiffer(webhooks)
      /\ config \in [Fields -> Values \cup {"absent"}] /\ Wanted \in [Fields -> Values]
      /\ "list" \in Points /\ "patch" \in Points /\ "config" \in PastBank /\ "patch" \in PastBank
  BY NoDuplicatesIs, Zenon DEF SyncIInv, SyncTypes, SyncProgress, Points, PastBank, MemorySyncAssumption
<1>1. CASE GetConfig
  <2>1. /\ up' = up /\ bank' = bank /\ config' = config /\ directives' = directives /\ webhooks' = webhooks
        /\ edited' = edited /\ secret' = secret /\ edits' = edits /\ reachable' = reachable
        /\ svc' = Patching(svc, AfterConfig, Updates) /\ svc.pc = "config"
    BY <1>1, Zenon DEF GetConfig, Reads, hindsight, bounds, At, Patching
  <2>2. Updates \in SUBSET Fields /\ AfterConfig \in Points
    BY <1>0, Zenon DEF Updates, AfterConfig
  <2>3. svc' \in Svcs /\ svc'.pc = AfterConfig /\ svc'.next = svc.next /\ svc'.updates = Updates
    <3>1. Patching(svc, AfterConfig, Updates) \in Svcs /\ Patching(svc, AfterConfig, Updates).pc = AfterConfig /\ Patching(svc, AfterConfig, Updates).next = svc.next /\ Patching(svc, AfterConfig, Updates).updates = Updates
      BY <1>0, <2>2, SvcUpdates
    <3>2. QED
      BY <2>1, <3>1, Zenon
  <2>4. \A f \in Fields : config[f] # Wanted[f] => f \in Updates
    BY Zenon DEF Updates
  <2>5. CASE Updates = {}
    <3>1. config = Wanted
      BY <1>0, <2>4, <2>5
    <3>2. svc'.pc = "list"
      BY <2>3, <2>5, Zenon DEF AfterConfig
    <3>3. SyncProgress'
      BY <1>0, <2>1, <2>3, <3>1, <3>2, ConfigDone, Zenon
    <3>4. QED
      BY <2>1, <2>3, <3>3, NothingChanged, Zenon DEF SyncIInv, SyncTypes
  <2>6. CASE Updates # {}
    <3>1. svc'.pc = "patch"
      BY <2>3, <2>6, Zenon DEF AfterConfig
    <3>2. /\ svc'.pc \notin PastConfig /\ svc'.pc \notin PastDirectives
          /\ svc'.pc # "directive" /\ svc'.pc # "hook" /\ svc'.pc # "done"
      BY <3>1 DEF PastConfig, PastDirectives
    <3>3. bank'
      BY <1>0, <2>1, Zenon DEF SyncIInv, SyncProgress
    <3>4. SyncProgress'
      BY <1>0, <2>1, <2>3, <2>4, <2>6, <3>2, <3>3, ProgressNext, Zenon
    <3>5. QED
      BY <2>1, <2>3, <3>4, NothingChanged, Zenon DEF SyncIInv, SyncTypes
  <2>7. QED
    BY <2>5, <2>6, Zenon
<1>2. CASE PatchConfig
  <2>1. /\ up' = up /\ bank' = bank /\ directives' = directives /\ webhooks' = webhooks
        /\ config' = [f \in Fields |-> IF f \in svc.updates THEN Wanted[f] ELSE config[f]]
        /\ Outcome(Patching(svc, "list", {})) /\ svc.pc = "patch"
    BY <1>2, Zenon DEF PatchConfig, At, Patching
  <2>2. Patching(svc, "list", {}) \in Svcs
    BY <1>0, SvcUpdates, Zenon
  <2>3. config' \in [Fields -> Values \cup {"absent"}]
    BY <1>0, <2>1
  <2>4. ~edited => config' = Wanted
    <3>1. ~edited => \A f \in Fields : config[f] # Wanted[f] => f \in svc.updates
      BY <2>1, Zenon DEF SyncIInv, SyncProgress
    <3>2. QED
      BY <1>0, <2>1, <3>1
  <2>5. ASSUME svc' = Patching(svc, "list", {})
        PROVE  SyncProgress'
    <3>1. svc'.pc = "list" /\ svc'.next = svc.next
      <4>1. Patching(svc, "list", {}) \in Svcs /\ Patching(svc, "list", {}).pc = "list" /\ Patching(svc, "list", {}).next = svc.next /\ Patching(svc, "list", {}).updates = {}
        BY <1>0, SvcUpdates
      <4>2. QED
        BY <2>5, <4>1, Zenon
    <3>2. edited' = edited
      BY <2>1, Zenon DEF Outcome
    <3>3. QED
      BY <1>0, <2>1, <2>4, <3>1, <3>2, ConfigDone, Zenon
  <2>6. bank' \in BOOLEAN /\ directives' \in Seq(Dirs) /\ webhooks' \in Seq(Hooks)
    BY <2>1, Zenon DEF SyncIInv, SyncTypes
  <2>7. QED
    BY <1>0, <2>1, <2>2, <2>3, <2>5, <2>6, AfterCall, Zenon
<1>3. QED
  BY <1>1, <1>2, Zenon

\* The directives as a pass reads them, and the webhooks.
LEMMA ListStep ==
  ASSUME MemorySyncAssumption, SyncIInv, ListDirectives
  PROVE  SyncIInv'
<1>0. /\ svc \in Svcs /\ directives \in Seq(Dirs) /\ "directive" \in Points /\ "list" \in PastConfig /\ "list" \in PastBank
  BY Zenon DEF SyncIInv, SyncTypes, Points, PastConfig, PastBank
<1>1. /\ up' = up /\ bank' = bank /\ config' = config /\ directives' = directives /\ webhooks' = webhooks
      /\ edited' = edited /\ secret' = secret /\ edits' = edits /\ reachable' = reachable
      /\ svc' = Listing(svc, "directive", directives) /\ svc.pc = "list"
  BY Zenon DEF ListDirectives, Reads, hindsight, bounds, At, Listing
<1>2. svc' \in Svcs /\ svc'.pc = "directive" /\ svc'.next = 1 /\ svc'.seen = directives
  <2>1. Listing(svc, "directive", directives) \in Svcs /\ Listing(svc, "directive", directives).pc = "directive" /\ Listing(svc, "directive", directives).next = 1 /\ Listing(svc, "directive", directives).seen = directives
    BY <1>0, SvcListed
  <2>2. QED
    BY <1>1, <2>1, Zenon
<1>3. /\ svc'.pc \notin PastDirectives /\ svc'.pc # "patch" /\ svc'.pc # "hook" /\ svc'.pc # "done"
  BY <1>2 DEF PastDirectives
<1>4. bank /\ (~edited => config = Wanted)
  BY <1>0, <1>1, Zenon DEF SyncIInv, SyncProgress
<1>5. /\ 1 \in 1 .. Len(Seed) + 1 /\ 1 \in 1 .. Len(Seed) + 3 /\ Len(directives) <= Len(directives)
      /\ \A k \in 1 .. Len(Seed) : ~(k < 1)
      /\ \A i \in 1 .. Len(directives) : ~(i > Len(directives))
  BY <1>0, SeedIs
<1>6. Seeded(directives, 1)
  BY <1>5, Zenon DEF Seeded
<1>7. DirView(directives, directives, 1, edited)
  BY <1>0, <1>5, <1>6, Zenon DEF DirView
<1>8. SyncProgress'
  BY <1>1, <1>2, <1>3, <1>4, <1>5, <1>7, ProgressNext, Zenon
<1>9. QED
  BY <1>1, <1>2, <1>8, NothingChanged, Zenon DEF SyncIInv, SyncTypes

LEMMA ListHooksStep ==
  ASSUME MemorySyncAssumption, SyncIInv, ListWebhooks
  PROVE  SyncIInv'
<1>0. /\ svc \in Svcs /\ webhooks \in Seq(Hooks) /\ "hook" \in Points
      /\ "hooks" \in PastConfig /\ "hooks" \in PastBank /\ "hooks" \in PastDirectives
  BY Zenon DEF SyncIInv, SyncTypes, Points, PastConfig, PastBank, PastDirectives
<1>1. /\ up' = up /\ bank' = bank /\ config' = config /\ directives' = directives /\ webhooks' = webhooks
      /\ edited' = edited /\ secret' = secret /\ edits' = edits /\ reachable' = reachable
      /\ svc' = Listing(svc, "hook", webhooks) /\ svc.pc = "hooks"
  BY Zenon DEF ListWebhooks, Reads, hindsight, bounds, At, Listing
<1>2. svc' \in Svcs /\ svc'.pc = "hook" /\ svc'.next = 1 /\ svc'.seen = webhooks
  <2>1. Listing(svc, "hook", webhooks) \in Svcs /\ Listing(svc, "hook", webhooks).pc = "hook" /\ Listing(svc, "hook", webhooks).next = 1 /\ Listing(svc, "hook", webhooks).seen = webhooks
    BY <1>0, SvcListed
  <2>2. QED
    BY <1>1, <2>1, Zenon
<1>3. svc'.pc # "patch" /\ svc'.pc # "directive" /\ svc'.pc # "done"
  BY <1>2
<1>4. bank /\ (~edited => config = Wanted) /\ (~edited => Seeded(directives, Len(Seed) + 1))
  BY <1>0, <1>1, Zenon DEF SyncIInv, SyncProgress
<1>5. /\ 1 \in 1 .. 3 /\ 1 \in 1 .. Len(Seed) + 3 /\ Len(webhooks) <= Len(webhooks)
      /\ \A k \in 1 .. 2 : ~(k < 1)
      /\ \A i \in 1 .. Len(webhooks) : ~(i > Len(webhooks))
  BY <1>0, SeedIs
<1>6. Hooked(webhooks, 1)
  BY <1>5, Zenon DEF Hooked
<1>7. HookView(webhooks, webhooks, 1, edited)
  BY <1>0, <1>5, <1>6, Zenon DEF HookView
<1>8. SyncProgress'
  BY <1>1, <1>2, <1>3, <1>4, <1>5, <1>7, ProgressNext, Zenon
<1>9. QED
  BY <1>1, <1>2, <1>8, NothingChanged, Zenon DEF SyncIInv, SyncTypes

\* The next directive.
LEMMA NextDirective ==
  ASSUME MemorySyncAssumption, SyncIInv, svc.pc = "directive", svc.next \in 1 .. Len(Seed),
         svc' = [svc EXCEPT !.next = @ + 1], bank' = bank, config' = config, edited' = edited,
         DirView(directives', svc.seen, svc.next + 1, edited)
  PROVE  SyncProgress'
<1>1. svc \in Svcs /\ bank /\ (~edited => config = Wanted)
  <2>1. "directive" \in PastBank /\ "directive" \in PastConfig
    BY Zenon DEF PastBank, PastConfig
  <2>2. QED
    BY <2>1, Zenon DEF SyncIInv, SyncTypes, SyncProgress
<1>2. svc'.pc = "directive" /\ svc'.next = svc.next + 1 /\ svc'.seen = svc.seen
  BY <1>1, SvcFurther
<1>3. svc'.pc \notin PastDirectives /\ svc'.pc # "patch" /\ svc'.pc # "hook" /\ svc'.pc # "done"
  BY <1>2 DEF PastDirectives
<1>4. svc.next + 1 \in 1 .. Len(Seed) + 3
  BY SeedIs
<1>5. QED
  BY <1>1, <1>2, <1>3, <1>4, ProgressNext, Zenon

LEMMA DirectiveStep ==
  ASSUME MemorySyncAssumption, SyncIInv, SyncDirective
  PROVE  SyncIInv'
<1> DEFINE want == Seed[svc.next]
           id == byName(svc.seen, want[1])
           after == [svc EXCEPT !.next = @ + 1]
<1>0. /\ svc \in Svcs /\ svc.pc = "directive" /\ edited \in BOOLEAN
      /\ directives \in Seq(Dirs) /\ webhooks \in Seq(Hooks)
      /\ config \in [Fields -> Values \cup {"absent"}] /\ bank \in BOOLEAN
      /\ NoTwice(directives) /\ HooksDiffer(webhooks)
      /\ DirView(directives, svc.seen, svc.next, edited)
  BY NoDuplicatesIs, Zenon DEF SyncIInv, SyncTypes, SyncProgress, SyncDirective, At
<1>1. after \in Svcs
  BY <1>0, SvcFurther
<1>2. svc.seen \in Seq(Dirs) /\ svc.next \in 1 .. Len(Seed) + 1
  BY <1>0, Zenon DEF DirView
<1>3. svc.next <= Len(Seed) => svc.next \in 1 .. Len(Seed)
  BY <1>2, SeedIs
<1>4. ASSUME svc.next \in 1 .. Len(Seed)
      PROVE  \/ id = 0 /\ \A i \in 1 .. Len(svc.seen) : svc.seen[i].name # Seed[svc.next][1]
             \/ id \in 1 .. Len(svc.seen) /\ id # 0 /\ svc.seen[id].name = Seed[svc.next][1]
  <2>1. \A i, j \in 1 .. Len(svc.seen) :
            svc.seen[i].name = Seed[svc.next][1] /\ svc.seen[j].name = Seed[svc.next][1] => i = j
    BY <1>0, <1>4, SeenOnce, Zenon
  <2>2. QED
    BY <1>2, <2>1, NameFound, Zenon
<1> HIDE DEF id, after
<1>5. ASSUME svc.next \in 1 .. Len(Seed), directives' \in Seq(Dirs), NoTwice(directives'),
             DirView(directives', svc.seen, svc.next + 1, edited), Outcome(after),
             UNCHANGED <<up, bank, config, webhooks>>
      PROVE  SyncIInv'
  <2>1. edited' = edited /\ up' = up /\ bank' = bank /\ config' = config /\ webhooks' = webhooks
    BY <1>5, Zenon DEF Outcome
  <2>2. svc' = after => SyncProgress'
    BY <1>0, <1>5, <2>1, NextDirective, Zenon DEF after
  <2>3. QED
    BY <1>0, <1>1, <1>5, <2>1, <2>2, AfterCall, Zenon
<1>6. CASE /\ svc.next <= Len(Seed) /\ id = 0
           /\ directives' = Append(directives, [name |-> want[1], content |-> want[2]])
           /\ Outcome(after)
           /\ UNCHANGED <<up, bank, config, webhooks>>
  <2>1. svc.next \in 1 .. Len(Seed) /\ \A i \in 1 .. Len(svc.seen) : svc.seen[i].name # Seed[svc.next][1]
    BY <1>3, <1>4, <1>6, Zenon
  <2>2. directives' \in Seq(Dirs) /\ NoTwice(directives') /\ DirView(directives', svc.seen, svc.next + 1, edited)
    BY <1>0, <1>6, <2>1, DirCreated, Zenon
  <2>3. QED
    BY <1>5, <1>6, <2>1, <2>2, Zenon
<1>7. CASE /\ svc.next <= Len(Seed) /\ id # 0 /\ svc.seen[id].content # want[2]
           /\ directives' = [directives EXCEPT ![id].content = want[2]]
           /\ Outcome(after)
           /\ UNCHANGED <<up, bank, config, webhooks>>
  <2>1. svc.next \in 1 .. Len(Seed) /\ id \in 1 .. Len(svc.seen) /\ svc.seen[id].name = Seed[svc.next][1]
    BY <1>3, <1>4, <1>7, Zenon
  <2>3. directives' \in Seq(Dirs) /\ NoTwice(directives') /\ DirView(directives', svc.seen, svc.next + 1, edited)
    BY <1>0, <1>7, <2>1, DirUpdated, ZenonT(30)
  <2>4. QED
    BY <1>5, <1>7, <2>1, <2>3, Zenon
<1>8. CASE /\ svc.next <= Len(Seed) /\ id # 0 /\ svc.seen[id].content = want[2]
           /\ svc' = after
           /\ UNCHANGED <<hindsight, reachable, secret, edited, bounds>>
  <2>1. svc.next \in 1 .. Len(Seed) /\ id \in 1 .. Len(svc.seen) /\ svc.seen[id].name = Seed[svc.next][1]
    BY <1>3, <1>4, <1>8, Zenon
  <2>2. DirView(directives, svc.seen, svc.next + 1, edited)
    BY <1>0, <1>8, <2>1, DirUpdated, Zenon
  <2>3. /\ up' = up /\ bank' = bank /\ config' = config /\ directives' = directives /\ webhooks' = webhooks
        /\ edited' = edited /\ secret' = secret /\ edits' = edits /\ reachable' = reachable
    BY <1>8, Zenon DEF hindsight, bounds
  <2>4. SyncProgress'
    BY <1>0, <1>8, <2>1, <2>2, <2>3, NextDirective, Zenon DEF after
  <2>5. QED
    BY <1>1, <1>8, <2>3, <2>4, NothingChanged, Zenon DEF SyncIInv, SyncTypes
<1>9. CASE /\ svc.next > Len(Seed)
           /\ Goto("hooks")
           /\ UNCHANGED <<hindsight, reachable, secret, edited, bounds>>
  <2>1. svc.next = Len(Seed) + 1
    BY <1>2, <1>9, SeedIs
  <2>2. ~edited => Seeded(directives, Len(Seed) + 1)
    BY <1>0, <2>1, Zenon DEF DirView
  <2>3. /\ up' = up /\ bank' = bank /\ config' = config /\ directives' = directives /\ webhooks' = webhooks
        /\ edited' = edited /\ secret' = secret /\ edits' = edits /\ reachable' = reachable
    BY <1>9, Zenon DEF hindsight, bounds
  <2>4. svc' \in Svcs /\ svc'.pc = "hooks" /\ svc'.next = svc.next
    <3>1. "hooks" \in Points
      BY Zenon DEF Points
    <3>2. QED
      BY <1>0, <1>9, <3>1, SvcAt, Zenon DEF Goto
  <2>5. svc'.pc # "patch" /\ svc'.pc # "directive" /\ svc'.pc # "hook" /\ svc'.pc # "done"
    BY <2>4
  <2>6. "directive" \in PastBank /\ "directive" \in PastConfig
    BY Zenon DEF PastBank, PastConfig
  <2>7. svc.next \in 1 .. Len(Seed) + 3 /\ bank /\ (~edited => config = Wanted)
    BY <1>0, <2>6, Zenon DEF SyncIInv, SyncProgress
  <2>8. SyncProgress'
    BY <2>2, <2>3, <2>4, <2>5, <2>7, ProgressNext, Zenon
  <2>9. QED
    BY <2>3, <2>4, <2>8, NothingChanged, Zenon DEF SyncIInv, SyncTypes
<1>10. QED
  BY <1>6, <1>7, <1>8, <1>9, Zenon DEF SyncDirective, id, after

\* The next endpoint.
LEMMA NextHook ==
  ASSUME MemorySyncAssumption, SyncIInv, svc.pc = "hook", svc.next \in 1 .. 2,
         svc' = [svc EXCEPT !.next = @ + 1], bank' = bank, config' = config, edited' = edited,
         directives' = directives, HookView(webhooks', svc.seen, svc.next + 1, edited)
  PROVE  SyncProgress'
<1>1. svc \in Svcs /\ bank /\ (~edited => config = Wanted) /\ (~edited => Seeded(directives, Len(Seed) + 1))
  <2>1. "hook" \in PastBank /\ "hook" \in PastConfig /\ "hook" \in PastDirectives
    BY Zenon DEF PastBank, PastConfig, PastDirectives
  <2>2. QED
    BY <2>1, Zenon DEF SyncIInv, SyncTypes, SyncProgress
<1>2. svc'.pc = "hook" /\ svc'.next = svc.next + 1 /\ svc'.seen = svc.seen
  BY <1>1, SvcFurther
<1>3. svc'.pc # "patch" /\ svc'.pc # "directive" /\ svc'.pc # "done"
  BY <1>2
<1>4. svc.next + 1 \in 1 .. Len(Seed) + 3
  BY SeedIs
<1>5. QED
  BY <1>1, <1>2, <1>3, <1>4, ProgressNext, Zenon

LEMMA HookStep ==
  ASSUME MemorySyncAssumption, SyncIInv, RegisterWebhook
  PROVE  SyncIInv'
<1> DEFINE url == Targets[svc.next]
           ids == {i \in DOMAIN svc.seen : svc.seen[i].url = url}
           id == CHOOSE i \in ids : \A j \in ids : i <= j
           after == [svc EXCEPT !.next = @ + 1]
<1>0. /\ svc \in Svcs /\ svc.pc = "hook" /\ edited \in BOOLEAN /\ secret \in Secrets
      /\ directives \in Seq(Dirs) /\ webhooks \in Seq(Hooks)
      /\ config \in [Fields -> Values \cup {"absent"}] /\ bank \in BOOLEAN
      /\ NoTwice(directives) /\ HooksDiffer(webhooks)
      /\ HookView(webhooks, svc.seen, svc.next, edited)
  BY NoDuplicatesIs, Zenon DEF SyncIInv, SyncTypes, SyncProgress, RegisterWebhook, At
<1>1. after \in Svcs
  BY <1>0, SvcFurther
<1>2. svc.seen \in Seq(Hooks) /\ svc.next \in 1 .. 3
  BY <1>0, Zenon DEF HookView
<1>3. svc.next <= 2 => svc.next \in 1 .. 2
  BY <1>2
<1>4. ASSUME svc.next \in 1 .. 2
      PROVE  /\ ids = {} => \A i \in 1 .. Len(svc.seen) : svc.seen[i].url # Targets[svc.next]
             /\ ids # {} => id \in 1 .. Len(svc.seen) /\ svc.seen[id].url = Targets[svc.next]
  <2>1. ids = HookIds(svc.seen, svc.next) /\ id = HookId(svc.seen, svc.next)
    BY Zenon DEF HookIds, HookId
  <2> HIDE DEF ids, id
  <2>2. QED
    BY <1>0, <1>4, <2>1, HookFound, ZenonT(30)
<1> HIDE DEF ids, id, after
<1>5. ASSUME svc.next \in 1 .. 2, webhooks' \in Seq(Hooks), HooksDiffer(webhooks'),
             HookView(webhooks', svc.seen, svc.next + 1, edited), Outcome(after),
             UNCHANGED <<up, bank, config, directives>>
      PROVE  SyncIInv'
  <2>1. edited' = edited /\ up' = up /\ bank' = bank /\ config' = config /\ directives' = directives
    BY <1>5, Zenon DEF Outcome
  <2>2. svc' = after => SyncProgress'
    BY <1>0, <1>5, <2>1, NextHook, Zenon DEF after
  <2>3. QED
    BY <1>0, <1>1, <1>5, <2>1, <2>2, AfterCall, Zenon
<1>6. CASE /\ svc.next <= 2 /\ ids = {}
           /\ webhooks' = Append(webhooks, [url |-> url, enabled |-> TRUE, secret |-> secret])
           /\ Outcome(after)
           /\ UNCHANGED <<up, bank, config, directives>>
  <2>1. svc.next \in 1 .. 2 /\ \A i \in 1 .. Len(svc.seen) : svc.seen[i].url # Targets[svc.next]
    BY <1>3, <1>4, <1>6, Zenon
  <2>2. webhooks' \in Seq(Hooks) /\ HooksDiffer(webhooks') /\ HookView(webhooks', svc.seen, svc.next + 1, edited)
    BY <1>0, <1>6, <2>1, HookCreated, Zenon
  <2>3. QED
    BY <1>5, <1>6, <2>1, <2>2, Zenon
<1>7. CASE /\ svc.next <= 2 /\ ids # {} /\ ~svc.seen[id].enabled
           /\ webhooks' = [webhooks EXCEPT ![id].enabled = TRUE]
           /\ Outcome(after)
           /\ UNCHANGED <<up, bank, config, directives>>
  <2>1. svc.next \in 1 .. 2 /\ id \in 1 .. Len(svc.seen) /\ svc.seen[id].url = Targets[svc.next]
    BY <1>3, <1>4, <1>7, Zenon
  <2>2. webhooks' \in Seq(Hooks) /\ HooksDiffer(webhooks') /\ HookView(webhooks', svc.seen, svc.next + 1, edited)
    BY <1>0, <1>7, <2>1, HookEnabled, ZenonT(30)
  <2>3. QED
    BY <1>5, <1>7, <2>1, <2>2, Zenon
<1>8. CASE /\ svc.next <= 2 /\ ids # {} /\ svc.seen[id].enabled
           /\ svc' = after
           /\ UNCHANGED <<hindsight, reachable, secret, edited, bounds>>
  <2>1. svc.next \in 1 .. 2 /\ id \in 1 .. Len(svc.seen) /\ svc.seen[id].url = Targets[svc.next]
    BY <1>3, <1>4, <1>8, Zenon
  <2>2. HookView(webhooks, svc.seen, svc.next + 1, edited)
    BY <1>0, <1>8, <2>1, HookEnabled, Zenon
  <2>3. /\ up' = up /\ bank' = bank /\ config' = config /\ directives' = directives /\ webhooks' = webhooks
        /\ edited' = edited /\ secret' = secret /\ edits' = edits /\ reachable' = reachable
    BY <1>8, Zenon DEF hindsight, bounds
  <2>4. SyncProgress'
    BY <1>0, <1>8, <2>1, <2>2, <2>3, NextHook, Zenon DEF after
  <2>5. QED
    BY <1>1, <1>8, <2>3, <2>4, NothingChanged, Zenon DEF SyncIInv, SyncTypes
<1>9. CASE /\ svc.next > 2
           /\ Goto("done")
           /\ reachable' = TRUE
           /\ UNCHANGED <<hindsight, secret, edited, bounds>>
  <2>1. svc.next = 3
    BY <1>2, <1>9
  <2>2. ~edited => Hooked(webhooks, 3)
    BY <1>0, <2>1, Zenon DEF HookView
  <2>3. /\ up' = up /\ bank' = bank /\ config' = config /\ directives' = directives /\ webhooks' = webhooks
        /\ edited' = edited /\ secret' = secret /\ edits' = edits /\ reachable' = TRUE
    BY <1>9, Zenon DEF hindsight, bounds
  <2>4. svc' \in Svcs /\ svc'.pc = "done" /\ svc'.next = svc.next
    <3>1. "done" \in Points
      BY Zenon DEF Points
    <3>2. QED
      BY <1>0, <1>9, <3>1, SvcAt, Zenon DEF Goto
  <2>5. svc'.pc # "patch" /\ svc'.pc # "directive" /\ svc'.pc # "hook"
    BY <2>4
  <2>6. "hook" \in PastBank /\ "hook" \in PastConfig /\ "hook" \in PastDirectives
    BY Zenon DEF PastBank, PastConfig, PastDirectives
  <2>7. /\ svc.next \in 1 .. Len(Seed) + 3 /\ bank /\ (~edited => config = Wanted)
        /\ ~edited => Seeded(directives, Len(Seed) + 1)
    BY <1>0, <2>6, Zenon DEF SyncIInv, SyncProgress
  <2>8. SyncProgress'
    BY <2>2, <2>3, <2>4, <2>5, <2>7, ProgressNext, Zenon
  <2>9. QED
    BY <2>3, <2>4, <2>8, NothingChanged, Zenon DEF SyncIInv, SyncTypes
<1>10. QED
  BY <1>6, <1>7, <1>8, <1>9, Zenon DEF RegisterWebhook, ids, id, after

\* A call that failed, the waiting, Hindsight coming and going, and a restart.
LEMMA QuietStep ==
  ASSUME SyncIInv, CallFails \/ Retry \/ GoDown \/ ComeUp \/ SyncRestart
  PROVE  SyncIInv'
<1>0. svc \in Svcs /\ svc.next \in 1 .. Len(Seed) + 3 /\ up \in BOOLEAN /\ secret \in Secrets
  BY Zenon DEF SyncIInv, SyncTypes, SyncProgress
<1>1. CASE CallFails
  <2>1. /\ up' = up /\ bank' = bank /\ config' = config /\ directives' = directives /\ webhooks' = webhooks
        /\ edited' = edited /\ secret' = secret /\ edits' = edits /\ FailPass
    BY <1>1, Zenon DEF CallFails, hindsight
  <2>2. svc' \in Svcs /\ reachable' \in BOOLEAN /\ SyncProgress'
    BY <2>1, PassFailed, Zenon
  <2>3. QED
    BY <2>1, <2>2, NothingChanged, Zenon DEF SyncIInv, SyncTypes
<1>2. CASE Retry
  <2>1. /\ up' = up /\ bank' = bank /\ config' = config /\ directives' = directives /\ webhooks' = webhooks
        /\ edited' = edited /\ secret' = secret /\ edits' = edits /\ reachable' = reachable
        /\ svc' = [svc EXCEPT !.pc = "load"]
    BY <1>2, Zenon DEF Retry, hindsight, bounds, Goto
  <2>2. "load" \in Points
    BY Zenon DEF Points
  <2>3. svc' \in Svcs /\ svc'.pc = "load" /\ svc'.next = svc.next
    BY <1>0, <2>1, <2>2, SvcAt, Zenon
  <2>4. SyncProgress'
    BY <1>0, <2>3, StartsOver, Zenon
  <2>5. QED
    BY <2>1, <2>3, <2>4, NothingChanged, Zenon DEF SyncIInv, SyncTypes
<1>3. CASE GoDown \/ ComeUp
  <2>1. /\ up' \in BOOLEAN /\ bank' = bank /\ config' = config /\ directives' = directives /\ webhooks' = webhooks
        /\ edited' = edited /\ secret' = secret /\ edits' = edits /\ reachable' = reachable /\ svc' = svc
    BY <1>3, Zenon DEF GoDown, ComeUp, bounds
  <2>2. SyncProgress'
    BY <2>1, Zenon DEF SyncIInv, SyncProgress
  <2>3. QED
    BY <1>0, <2>1, <2>2, NothingChanged, Zenon DEF SyncIInv, SyncTypes
<1>4. CASE SyncRestart
  <2>1. /\ up' = up /\ bank' = bank /\ config' = config /\ directives' = directives /\ webhooks' = webhooks
        /\ edited' = edited /\ secret' \in Secrets /\ edits' = edits /\ reachable' = TRUE /\ svc' = StartPass
    BY <1>4, Zenon DEF SyncRestart, hindsight
  <2>2. svc' \in Svcs /\ svc'.pc = "load" /\ svc'.next = 1
    BY <2>1, SvcStart, Zenon
  <2>3. 1 \in 1 .. Len(Seed) + 3
    BY <1>0
  <2>4. SyncProgress'
    BY <2>2, <2>3, StartsOver, Zenon
  <2>5. QED
    BY <1>0, <2>1, <2>2, <2>4, NothingChanged, Zenon DEF SyncIInv, SyncTypes
<1>5. QED
  BY <1>1, <1>2, <1>3, <1>4, Zenon

\* An edit by other means.
LEMMA EditStep ==
  ASSUME SyncIInv, Edit
  PROVE  SyncIInv'
<1>0. /\ NoTwice(directives) /\ HooksDiffer(webhooks)
      /\ directives \in Seq(Dirs) /\ webhooks \in Seq(Hooks) /\ config \in [Fields -> Values \cup {"absent"}]
      /\ edits \in Nat
  BY NoDuplicatesIs, Zenon DEF SyncIInv, SyncTypes
<1>1. /\ up' = up /\ bank' = bank /\ svc' = svc /\ reachable' = reachable /\ secret' = secret
      /\ edited' = TRUE /\ edits' = edits + 1
  BY Zenon DEF Edit
<1>2. /\ config' \in [Fields -> Values \cup {"absent"}]
      /\ \/ config' = config
         \/ directives' = directives /\ webhooks' = webhooks
  <2>1. ASSUME NEW f \in Fields, NEW v \in Values, config' = [config EXCEPT ![f] = v]
        PROVE  config' \in [Fields -> Values \cup {"absent"}]
    BY <1>0, <2>1
  <2>2. QED
    BY <1>0, <2>1, Zenon DEF Edit
<1>3. /\ directives' \in Seq(Dirs) /\ NoTwice(directives')
      /\ \A seen, n, e : DirView(directives, seen, n, e) => DirView(directives', seen, n, TRUE)
  <2>1. CASE directives' = directives
    BY <1>0, <2>1, Zenon DEF DirView
  <2>2. CASE \E n \in Foreign, v \in Values : directives' = Append(directives, [name |-> n, content |-> v])
    <3>1. PICK n \in Foreign, v \in Values : directives' = Append(directives, [name |-> n, content |-> v])
      BY <2>2, Zenon
    <3>2. [name |-> n, content |-> v] \in Dirs /\ [name |-> n, content |-> v].name \in Foreign
      BY Zenon DEF Dirs
    <3>3. QED
      BY <1>0, <3>1, <3>2, DirAdded, Zenon
  <2>3. CASE \E i \in DOMAIN directives, v \in Values : directives' = [directives EXCEPT ![i].content = v]
    <3>1. PICK i \in DOMAIN directives, v \in Values : directives' = [directives EXCEPT ![i].content = v]
      BY <2>3, Zenon
    <3>2. i \in 1 .. Len(directives)
      BY <1>0
    <3>3. QED
      BY <1>0, <3>1, <3>2, DirChanged, Zenon
  <2>4. QED
    BY <2>1, <2>2, <2>3, Zenon DEF Edit
<1>4. /\ webhooks' \in Seq(Hooks) /\ HooksDiffer(webhooks')
      /\ \A seen, n, e : HookView(webhooks, seen, n, e) => HookView(webhooks', seen, n, TRUE)
  <2>1. CASE webhooks' = webhooks
    BY <1>0, <2>1, Zenon DEF HookView
  <2>2. CASE \E i \in DOMAIN webhooks : webhooks' = [webhooks EXCEPT ![i].enabled = FALSE]
    <3>1. PICK i \in DOMAIN webhooks : webhooks' = [webhooks EXCEPT ![i].enabled = FALSE]
      BY <2>2, Zenon
    <3>2. i \in 1 .. Len(webhooks)
      BY <1>0
    <3>3. QED
      BY <1>0, <3>1, <3>2, HookDisabled, Zenon
  <2>3. QED
    BY <2>1, <2>2, Zenon DEF Edit
<1>5. SyncProgress'
  <2>1. /\ svc.next \in 1 .. Len(Seed) + 3
        /\ svc.pc \in PastBank => bank
        /\ svc.pc = "patch" => svc.updates # {}
        /\ svc.pc = "directive" => DirView(directives, svc.seen, svc.next, edited)
        /\ svc.pc = "hook" => HookView(webhooks, svc.seen, svc.next, edited)
    BY Zenon DEF SyncIInv, SyncProgress
  <2>2. svc.pc = "directive" => DirView(directives', svc.seen, svc.next, TRUE)
    BY <1>3, <2>1, Zenon
  <2>3. svc.pc = "hook" => HookView(webhooks', svc.seen, svc.next, TRUE)
    BY <1>4, <2>1, Zenon
  <2>4. QED
    BY <1>1, <2>1, <2>2, <2>3, ProgressNext, Zenon
<1>6. edits' \in Nat
  BY <1>0, <1>1
<1>7. SyncTypes'
  BY <1>1, <1>2, <1>3, <1>4, <1>6, Zenon DEF SyncIInv, SyncTypes
<1>8. QED
  BY <1>3, <1>4, <1>5, <1>7, NoDuplicatesNext, Zenon DEF SyncIInv

\* Every step keeps the invariant.
LEMMA SyncStep ==
  ASSUME MemorySyncAssumption, SyncIInv, [SyncNext]_syncVars
  PROVE  SyncIInv'
<1>1. CASE Pass
  BY <1>1, LoadStep, BanksStep, ConfigStep, ListStep, DirectiveStep, ListHooksStep, HookStep, QuietStep, Zenon
     DEF Pass
<1>2. CASE UNCHANGED syncVars
  BY <1>2, Zenon DEF syncVars, hindsight, bounds, SyncIInv, SyncTypes, NoDuplicates, SyncProgress
<1>3. QED
  BY <1>1, <1>2, QuietStep, EditStep, Zenon DEF SyncNext

LEMMA SyncStarts ==
  ASSUME MemorySyncAssumption, SyncInit
  PROVE  SyncIInv
<1>1. /\ <<>> \in Seq(Dirs) /\ <<>> \in Seq(Hooks) /\ 0 \in Nat /\ 1 \in 1 .. Len(Seed) + 3
      /\ [f \in Fields |-> "absent"] \in [Fields -> Values \cup {"absent"}]
      /\ DOMAIN <<>> = {}
  BY SeedIs
<1>2. SyncTypes
  BY <1>1, SvcStart, Zenon DEF SyncInit, SyncTypes
<1>3. NoDuplicates
  BY <1>1, Zenon DEF SyncInit, NoDuplicates
<1>4. /\ svc.pc = "load" /\ svc.pc \notin PastBank /\ svc.pc \notin PastConfig /\ svc.pc \notin PastDirectives
      /\ svc.pc # "patch" /\ svc.pc # "directive" /\ svc.pc # "hook" /\ svc.pc # "done"
  <2>1. svc.pc = "load"
    BY SvcStart, Zenon DEF SyncInit
  <2>2. QED
    BY <2>1 DEF PastBank, PastConfig, PastDirectives
<1>5. svc.next \in 1 .. Len(Seed) + 3
  BY <1>1, SvcStart, Zenon DEF SyncInit
<1>6. SyncProgress
  BY <1>4, <1>5, Zenon DEF SyncProgress
<1>7. QED
  BY <1>2, <1>3, <1>6, Zenon DEF SyncIInv

\* What the invariant says to a reader of the bank.
LEMMA SyncTells ==
  ASSUME MemorySyncAssumption, SyncIInv
  PROVE  SyncTypeOK /\ NoDuplicates /\ SyncedMeansSeeded
<1>1. SyncTypeOK
  <2>1. svc.pc \in Points /\ svc.updates \subseteq Fields
    BY SvcAt, Zenon DEF SyncIInv, SyncTypes, Points
  <2>2. QED
    BY <2>1, Zenon DEF SyncIInv, SyncTypes, SyncProgress, SyncTypeOK, Dirs, Hooks, Points
<1>2. SyncedMeansSeeded
  <2>1. SUFFICES ASSUME svc.pc = "done", ~edited
                 PROVE  /\ bank /\ config = Wanted
                        /\ \A i \in DOMAIN Seed : \E d \in DOMAIN directives :
                              directives[d] = [name |-> Seed[i][1], content |-> Seed[i][2]]
                        /\ \A i \in 1 .. 2 : \E w \in DOMAIN webhooks :
                              webhooks[w].url = Targets[i] /\ webhooks[w].enabled
    BY Zenon DEF SyncedMeansSeeded, At
  <2>2. "done" \in PastBank /\ "done" \in PastConfig /\ "done" \in PastDirectives
    BY Zenon DEF PastBank, PastConfig, PastDirectives
  <2>3. bank /\ config = Wanted /\ Seeded(directives, Len(Seed) + 1) /\ Hooked(webhooks, 3)
    BY <2>1, <2>2, Zenon DEF SyncIInv, SyncProgress
  <2>4. /\ DOMAIN directives = 1 .. Len(directives) /\ DOMAIN webhooks = 1 .. Len(webhooks)
        /\ DOMAIN Seed = 1 .. Len(Seed) /\ \A d \in 1 .. Len(directives) : directives[d] \in Dirs
    <3>1. directives \in Seq(Dirs) /\ webhooks \in Seq(Hooks) /\ Seed \in Seq(Names \X Values)
      BY Zenon DEF SyncIInv, SyncTypes, MemorySyncAssumption
    <3>2. QED
      BY <3>1
  <2>5. (\A i \in 1 .. Len(Seed) : i < Len(Seed) + 1) /\ (\A i \in 1 .. 2 : i < 3)
    BY SeedIs
  <2>6. \A d \in Dirs : d = [name |-> d.name, content |-> d.content]
    BY DEF Dirs
  <2>7. \A i \in DOMAIN Seed : \E d \in DOMAIN directives :
            directives[d] = [name |-> Seed[i][1], content |-> Seed[i][2]]
    <3>1. SUFFICES ASSUME NEW i \in DOMAIN Seed
                   PROVE  \E d \in DOMAIN directives :
                              directives[d] = [name |-> Seed[i][1], content |-> Seed[i][2]]
      BY Zenon
    <3>2. PICK d \in 1 .. Len(directives) : directives[d].name = Seed[i][1] /\ directives[d].content = Seed[i][2]
      BY <2>3, <2>4, <2>5, Zenon DEF Seeded
    <3>3. directives[d] = [name |-> directives[d].name, content |-> directives[d].content]
      BY <2>4, <2>6, Zenon
    <3>4. QED
      BY <2>4, <3>2, <3>3, Zenon
  <2>8. \A i \in 1 .. 2 : \E w \in DOMAIN webhooks : webhooks[w].url = Targets[i] /\ webhooks[w].enabled
    BY <2>3, <2>4, <2>5, Zenon DEF Hooked
  <2>9. QED
    BY <2>3, <2>7, <2>8, Zenon
<1>3. QED
  BY <1>1, <1>2, Zenon DEF SyncIInv

\* A pass leaves the directives of other people alone.
LEMMA ForeignStays ==
  ASSUME MemorySyncAssumption, SyncIInv, [SyncNext]_syncVars, edits' = edits,
         NEW i \in DOMAIN directives, directives[i].name \in Foreign
  PROVE  directives'[i] = directives[i]
<1>0. /\ directives \in Seq(Dirs) /\ NoTwice(directives) /\ edits \in Nat /\ svc \in Svcs
  BY NoDuplicatesIs, Zenon DEF SyncIInv, SyncTypes
<1>1. i \in 1 .. Len(directives)
  BY <1>0
<1>2. ~Edit
  <2>1. edits + 1 # edits
    BY <1>0
  <2>2. QED
    BY <2>1, Zenon DEF Edit
<1>3. CASE directives' = directives
  BY <1>3, Zenon
<1>4. CASE SyncDirective
  <2> DEFINE want == Seed[svc.next]
             id == byName(svc.seen, want[1])
  <2>1. DirView(directives, svc.seen, svc.next, edited)
    BY <1>4, Zenon DEF SyncIInv, SyncProgress, SyncDirective, At
  <2>2. svc.seen \in Seq(Dirs) /\ svc.next \in 1 .. Len(Seed) + 1 /\ Len(svc.seen) <= Len(directives)
        /\ \A k \in 1 .. Len(svc.seen) : directives[k].name = svc.seen[k].name
    BY <2>1, Zenon DEF DirView
  <2>3. svc.next <= Len(Seed) => svc.next \in 1 .. Len(Seed)
    BY <2>2, SeedIs
  <2>4. CASE svc.next <= Len(Seed) /\ directives' = Append(directives, [name |-> want[1], content |-> want[2]])
    <3>1. [name |-> want[1], content |-> want[2]] \in Dirs
      BY <2>3, <2>4, SeedIs, Zenon DEF Dirs
    <3>2. QED
      BY <1>0, <1>1, <2>4, <3>1, OneMore
  <2>5. CASE svc.next <= Len(Seed) /\ id # 0 /\ directives' = [directives EXCEPT ![id].content = want[2]]
    <3>1. \A k, l \in 1 .. Len(svc.seen) :
              svc.seen[k].name = Seed[svc.next][1] /\ svc.seen[l].name = Seed[svc.next][1] => k = l
      BY <1>0, <2>1, <2>3, <2>5, SeenOnce, Zenon DEF SyncIInv, SyncTypes
    <3>2. id \in 1 .. Len(svc.seen) /\ svc.seen[id].name = Seed[svc.next][1]
      BY <2>2, <2>5, <3>1, NameFound, Zenon
    <3>3. directives[id].name \notin Foreign
      BY <2>2, <2>3, <2>5, <3>2, SeedIs, Zenon
    <3> HIDE DEF id
    <3>4. id # i
      BY <3>3, Zenon
    <3>5. QED
      BY <1>0, <1>1, <2>5, <3>4
  <2>6. QED
    BY <1>3, <1>4, <2>4, <2>5, Zenon DEF SyncDirective, hindsight
<1>5. CASE [SyncNext]_syncVars /\ ~SyncDirective
  <2>1. directives' = directives
    BY <1>2, <1>5, Zenon DEF SyncNext, Pass, LoadSeed, ListBanks, CreateBank, GetConfig, PatchConfig, ListDirectives,
      ListWebhooks, RegisterWebhook, CallFails, Retry, GoDown, ComeUp, SyncRestart, Reads, hindsight, syncVars
  <2>2. QED
    BY <2>1, Zenon
<1>6. QED
  BY <1>4, <1>5, Zenon

\* Whatever fails, is repeated or is edited meanwhile, a name of the YAML files
\* has one directive and an endpoint one webhook; a pass that succeeded without
\* an edit left the bank as the files say; directives of others are kept
\* (sync.go, syncDirectives and Apply; server.go, RegisterWebhooks).
THEOREM SyncIsSound == MemorySyncAssumption => (SyncSpec => []SyncSound /\ ForeignKept)
<1>1. SUFFICES ASSUME MemorySyncAssumption PROVE SyncSpec => []SyncSound /\ ForeignKept
  BY Zenon
<1>2. SyncInit => SyncIInv
  BY <1>1, SyncStarts, Zenon
<1>3. SyncIInv /\ [SyncNext]_syncVars => SyncIInv'
  BY <1>1, SyncStep, Zenon
<1>4. SyncIInv => SyncSound
  BY <1>1, SyncTells, Zenon DEF SyncSound
<1>5. SyncIInv /\ [SyncNext]_syncVars =>
        [edits' = edits => \A i \in DOMAIN directives : directives[i].name \in Foreign => directives'[i] = directives[i]]_syncVars
  BY <1>1, ForeignStays, Zenon
<1>6. QED
  BY <1>2, <1>3, <1>4, <1>5, PTL DEF SyncSpec, ForeignKept

=============================================================================
