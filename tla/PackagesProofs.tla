--------------------------- MODULE PackagesProofs ---------------------------
(***************************************************************************)
(* Proofs about Configuration: about Packages, for any number of programs, *)
(* names and sources, any settings, and any bounds on changes, jobs and    *)
(* faults; about Compaction, for any models, settings and messages; and    *)
(* about Settings, for any programs, permissions and changes.              *)
(***************************************************************************)
EXTENDS
  Configuration, SequenceTheorems, FunctionTheorems, FiniteSetTheorems, WellFoundedInduction, TLAPS

-----------------------------------------------------------------------------
(* The inductive invariant.                                                *)

Resting(p) == prog[p].pc \in {"off", "idle"}

Focus(p) == <<prog[p].store, prog[p].peek.name>>

\* The stages in which a package of the store is not as its record says.
Halfway == {"cleared", "copied", "read", "dropped"}

\* A program has the project it was started in, and a job the store that it works on.  What
\* a start installs goes where that program looks.
JobOf(p) ==
  /\ DOMAIN prog[p] = DOMAIN Off
  /\ prog[p].pc # "off" => prog[p].project \in Stores
  /\ ~Resting(p) => prog[p].store \in Stores
  /\ prog[p].pc \in {"off", "idle", "listed", "dropped"} => prog[p].job # "start"
  /\ prog[p].job = "start" => prog[p].project = prog[p].store
  /\ prog[p].pc \in {"peeked", "cleared"} => Loads(prog[p].peek)

\* Two programs that work are in different stores, and one that is alone is the only one
\* with a job.
AloneInv ==
  /\ ~mixed => \A p, q \in Programs :
       p # q /\ Works(p) /\ Works(q) => prog[p].store # prog[q].store
  /\ \A p, q \in Programs : p # q /\ prog[p].alone /\ ~Resting(p) => Resting(q)

\* Then the records are still those that were read.
ReadOf(p) ==
  (~mixed \/ prog[p].alone) /\ prog[p].pc \in {"read", "listed"} =>
    prog[p].read = records[prog[p].store]

\* What the stages of an operation leave in the one place that it changes, ...
StageOf(p) ==
  LET store == prog[p].store
      n == prog[p].peek.name
  IN ~mixed =>
       /\ prog[p].pc = "cleared" => n \notin DOMAIN files[store]
       /\ prog[p].pc \in {"copied", "read"} =>
            /\ n \in DOMAIN files[store]
            /\ files[store][n] = prog[p].peek \/ <<store, n>> \in hurt
       /\ prog[p].pc = "dropped" => n \notin DOMAIN records[store]

\* A package in its store: listed as it is there, or hurt, ...
Matches(store, n) ==
  \/ <<store, n>> \in hurt
  \/ /\ n \in DOMAIN records[store] /\ n \in DOMAIN files[store]
     /\ files[store][n].version = records[store][n].version /\ files[store][n].name = n

\* ... unless a program is about to change it.
PlacesOf(store) ==
  ~mixed => \A n \in DOMAIN records[store] \cup DOMAIN files[store] :
    Matches(store, n) \/ \E p \in Programs : prog[p].pc \in Halfway /\ Focus(p) = <<store, n>>

\* What the start of a program that is alone has found or installed, but for the package
\* that it installs now.
CatalogOf(p) ==
  prog[p].job = "start" /\ prog[p].alone =>
    \A store \in {"global", prog[p].project} :
      \A n \in DOMAIN records[store] \cap DOMAIN files[store] :
        Loads(files[store][n]) =>
          \/ <<store, n>> \in prog[p].catalog \cup prog[p].fetched
          \/ prog[p].pc \in Halfway /\ Focus(p) = <<store, n>>

ProgramInv(p) == JobOf(p) /\ ReadOf(p) /\ StageOf(p) /\ CatalogOf(p)

\* A store lists what was installed in it.
ListedIn(store) ==
  ~mixed => \A one \in installed : one[1] = store => one[2] \in DOMAIN records[store]

StoreInv(store) == PlacesOf(store) /\ ListedIn(store)

IInv ==
  /\ DOMAIN records = Stores /\ DOMAIN files = Stores /\ DOMAIN prog = Programs
  /\ \A one \in installed : one[1] \in Stores /\ one = <<one[1], one[2]>>
  /\ AloneInv
  /\ \A p \in Programs : ProgramInv(p)
  /\ \A store \in Stores : StoreInv(store)

-----------------------------------------------------------------------------
(* Files and records.                                                      *)

\* What a start finds is what CatalogOf speaks of.
LEMMA FoundIs ==
  ASSUME NEW store
  PROVE  \A one : one \in Found(store) <=>
           \E n \in DOMAIN records[store] \cap DOMAIN files[store] :
             Loads(files[store][n]) /\ one = <<store, n>>
BY DEF Found

-----------------------------------------------------------------------------
(* The frame of a step.                                                    *)

\* In the store that a program works on, only the place of its package is not in order.
LEMMA WorksAlone ==
  ASSUME IInv, ~mixed, NEW p \in Programs, Works(p),
         NEW n \in DOMAIN records[prog[p].store] \cup DOMAIN files[prog[p].store],
         n # prog[p].peek.name \/ prog[p].pc \notin Halfway
  PROVE  Matches(prog[p].store, n)
<1>1. prog[p].store \in Stores
  BY DEF IInv, ProgramInv, JobOf, Resting, Works
<1>2. ASSUME NEW q \in Programs, prog[q].pc \in Halfway, Focus(q) = <<prog[p].store, n>>
      PROVE  FALSE
  <2>1. prog[q].store = prog[p].store /\ prog[q].peek.name = n /\ Works(q)
    BY <1>2 DEF Focus, Halfway, Works
  <2>2. q = p
    BY <2>1 DEF IInv, AloneInv
  <2>3. QED BY <1>2, <2>1, <2>2
<1>3. QED BY <1>1, <1>2 DEF IInv, StoreInv, PlacesOf

\* A step of one program in the store it works on, if it keeps what is its own and what
\* is in that store.
LEMMA StepKeeps ==
  ASSUME IInv, NEW p \in Programs, NEW s, s = prog[p].store,
         DOMAIN prog' = Programs, \A q \in Programs \ {p} : prog'[q] = prog[q],
         \/ Resting(p)'
         \/ ~Resting(p) /\ prog'[p].store = s /\ (prog'[p].alone => prog[p].alone),
         mixed => mixed',
         \/ Works(p)
         \/ /\ prog'[p].pc \in {"off", "idle", "next", "peeked"}
            /\ UNCHANGED <<records, files, installed, hurt>>,
         prog'[p].pc = "peeked" =>
           mixed' \/ \A q \in Programs \ {p} : Works(q) => prog[q].store # s,
         DOMAIN records' = Stores, DOMAIN files' = Stores,
         \A one \in installed' : one[1] \in Stores /\ one = <<one[1], one[2]>>,
         \A store \in Stores \ {s} :
           /\ records'[store] = records[store] /\ files'[store] = files[store]
           /\ \A n : <<store, n>> \in hurt' <=> <<store, n>> \in hurt
           /\ \A n : <<store, n>> \in installed' <=> <<store, n>> \in installed,
         ProgramInv(p)',
         Works(p) => StoreInv(s)'
  PROVE  IInv'
<1>1. DOMAIN prog' = Programs /\ \A q \in Programs \ {p} : prog'[q] = prog[q]
  OBVIOUS
<1>2. AloneInv'
  <2>1. ASSUME ~mixed', NEW q \in Programs, NEW r \in Programs, q # r, Works(q)', Works(r)'
        PROVE  prog'[q].store # prog'[r].store
    <3>1. CASE q # p /\ r # p
      BY <1>1, <2>1, <3>1 DEF IInv, AloneInv, Works
    <3>2. ASSUME NEW o \in Programs \ {p}, Works(o), Works(p)' PROVE prog[o].store # prog'[p].store
      <4>1. CASE Works(p)
        BY <1>1, <2>1, <3>2, <4>1 DEF IInv, AloneInv, Works, Resting
      <4>2. CASE ~Works(p)
        BY <1>1, <2>1, <3>2, <4>2 DEF Works, Resting
      <4>3. QED BY <4>1, <4>2
    <3>3. QED BY <1>1, <2>1, <3>1, <3>2 DEF Works
  <2>2. ASSUME NEW q \in Programs, NEW r \in Programs, q # r, prog'[q].alone, ~Resting(q)'
        PROVE  Resting(r)'
    BY <1>1, <2>2 DEF IInv, AloneInv, Resting
  <2>3. QED BY <2>1, <2>2 DEF AloneInv
<1>3. ASSUME NEW q \in Programs \ {p} PROVE ProgramInv(q)'
  <2>1. prog'[q] = prog[q] /\ ProgramInv(q) /\ JobOf(q)
    BY <1>1 DEF IInv, ProgramInv
  <2>2. JobOf(q)'
    BY <2>1 DEF JobOf, Resting
  <2>3. ASSUME ~mixed' \/ prog[q].alone, ~Resting(q), Works(q)
        PROVE  /\ records'[prog[q].store] = records[prog[q].store]
               /\ files'[prog[q].store] = files[prog[q].store]
               /\ \A n : <<prog[q].store, n>> \in hurt' <=> <<prog[q].store, n>> \in hurt
    <3>1. CASE Works(p)
      <4>1. ~Resting(p) /\ prog[q].store \in Stores
        BY <2>1, <2>3, <3>1 DEF JobOf, Works, Resting
      <4>2. prog[q].store # prog[p].store
        BY <2>3, <3>1, <4>1 DEF IInv, AloneInv
      <4>3. QED BY <4>1, <4>2
    <3>2. CASE ~Works(p)
      BY <3>2
    <3>3. QED BY <3>1, <3>2
  <2>4. ReadOf(q)'
    BY <2>1, <2>3 DEF ProgramInv, ReadOf, Works, Resting
  <2>5. StageOf(q)'
    BY <2>1, <2>3 DEF ProgramInv, StageOf, Works, Resting
  <2>6. CatalogOf(q)'
    <3>1. CASE prog[q].job = "start" /\ prog[q].alone
      <4>1. Resting(p)
        BY <2>1, <3>1 DEF IInv, AloneInv, JobOf, Resting
      <4>2. UNCHANGED <<records, files>>
        BY <4>1 DEF Works, Resting
      <4>3. QED BY <2>1, <4>2 DEF ProgramInv, CatalogOf, Focus
    <3>2. CASE ~(prog[q].job = "start" /\ prog[q].alone)
      BY <2>1, <3>2 DEF CatalogOf
    <3>3. QED BY <3>1, <3>2
  <2>7. QED BY <2>2, <2>4, <2>5, <2>6 DEF ProgramInv
<1>4. ASSUME NEW store \in Stores, ~(store = s /\ Works(p)) PROVE StoreInv(store)'
  <2>1. /\ StoreInv(store)
        /\ records'[store] = records[store] /\ files'[store] = files[store]
        /\ \A n : <<store, n>> \in hurt' <=> <<store, n>> \in hurt
        /\ \A n : <<store, n>> \in installed' <=> <<store, n>> \in installed
    BY <1>4 DEF IInv
  <2>2. ListedIn(store)'
    BY <2>1 DEF StoreInv, ListedIn
  <2>3. \A q \in Programs : \A n :
          prog[q].pc \in Halfway /\ Focus(q) = <<store, n>> =>
            prog'[q].pc \in Halfway /\ Focus(q)' = <<store, n>>
    BY <1>1, <1>4 DEF Focus, Halfway, Works
  <2>4. \A n : Matches(store, n)' <=> Matches(store, n)
    BY <2>1 DEF Matches
  <2>5. PlacesOf(store)'
    <3>1. ASSUME ~mixed', NEW n \in DOMAIN records[store] \cup DOMAIN files[store],
                 ~Matches(store, n)
          PROVE  \E q \in Programs : prog'[q].pc \in Halfway /\ Focus(q)' = <<store, n>>
      <4>1. \E q \in Programs : prog[q].pc \in Halfway /\ Focus(q) = <<store, n>>
        BY <2>1, <3>1 DEF StoreInv, PlacesOf
      <4>2. QED BY <2>3, <4>1
    <3>2. QED BY <2>1, <2>4, <3>1 DEF PlacesOf
  <2>6. QED BY <2>2, <2>5 DEF StoreInv
<1>5. QED BY <1>1, <1>2, <1>3, <1>4 DEF IInv

-----------------------------------------------------------------------------
(* The steps.                                                              *)

LEMMA OffIs ==
  /\ Off.pc = "off" /\ Off.job = "" /\ DOMAIN Off = {"pc", "job", "project", "store", "todo",
       "source", "peek", "read", "catalog", "fetched", "alone"}
BY DEF Off

\* A program that has no job has nothing to keep.
LEMMA RestKeeps ==
  ASSUME NEW p \in Programs, DOMAIN prog'[p] = DOMAIN Off, Resting(p)', prog'[p].job # "start",
         prog'[p].pc = "idle" => prog'[p].project \in Stores
  PROVE  ProgramInv(p)'
BY DEF ProgramInv, JobOf, ReadOf, StageOf, CatalogOf, Resting

\* What a program has when it ends its job, well or not.
LEMMA EndsJob ==
  ASSUME IInv, NEW p \in Programs, ~Resting(p),
         prog'[p] \in {Off, [Off EXCEPT !.pc = "idle", !.project = prog[p].project]}
  PROVE  ProgramInv(p)' /\ Resting(p)'
<1>1. CASE prog'[p] = Off
  BY <1>1, OffIs, RestKeeps DEF Resting
<1>2. prog[p].project \in Stores
  BY DEF IInv, ProgramInv, JobOf, Resting
<1>3. CASE prog'[p] = [Off EXCEPT !.pc = "idle", !.project = prog[p].project]
  <2>1. /\ DOMAIN prog'[p] = DOMAIN Off /\ prog'[p].pc = "idle" /\ prog'[p].job = ""
        /\ prog'[p].project = prog[p].project
    BY <1>3, OffIs
  <2>2. QED BY <1>2, <2>1, RestKeeps DEF Resting
<1>4. QED BY <1>1, <1>3

\* The store of a program that works, if its step changes it in one place.
LEMMA OthersMatch ==
  ASSUME IInv, NEW p \in Programs, Works(p), NEW s, s = prog[p].store, UNCHANGED mixed,
         ~mixed => \A m : m # prog[p].peek.name =>
           /\ m \in DOMAIN records'[s] <=> m \in DOMAIN records[s]
           /\ m \in DOMAIN records[s] => records'[s][m] = records[s][m]
           /\ m \in DOMAIN files'[s] <=> m \in DOMAIN files[s]
           /\ m \in DOMAIN files[s] => files'[s][m] = files[s][m]
           /\ <<s, m>> \in hurt' <=> <<s, m>> \in hurt,
         ~mixed => \A n \in DOMAIN records'[s] \cup DOMAIN files'[s] : n = prog[p].peek.name =>
           Matches(s, n)' \/ (prog'[p].pc \in Halfway /\ Focus(p)' = <<s, n>>)
  PROVE  PlacesOf(s)'
<1>1. ASSUME ~mixed, NEW m \in DOMAIN records'[s] \cup DOMAIN files'[s], m # prog[p].peek.name
      PROVE  Matches(s, m)'
  <2>1. Matches(s, m)
    BY <1>1, WorksAlone
  <2>2. QED BY <1>1, <2>1 DEF Matches
<1>2. QED BY <1>1 DEF PlacesOf

LEMMA QuietSteps ==
  ASSUME IInv, NEW p \in Programs, Skip(p) \/ PeekFails(p) \/ Done(p) \/ Quit(p)
  PROVE  IInv'
<1>1. UNCHANGED <<records, files, installed, hurt, mixed>>
  BY DEF Skip, PeekFails, Done, Quit
<1>2. ProgramInv(p) /\ DOMAIN prog = Programs /\ DOMAIN prog[p] = DOMAIN Off
  BY DEF IInv, ProgramInv, JobOf
<1>3. PICK s : s = prog[p].store
  OBVIOUS
<1>4. DOMAIN prog' = Programs /\ (\A q \in Programs \ {p} : prog'[q] = prog[q]) /\ ProgramInv(p)'
      /\ \/ Resting(p)'
         \/ prog'[p].pc = "next" /\ prog[p].pc = "next" /\ prog'[p].store = s /\ (prog'[p].alone => prog[p].alone)
  <2>1. CASE Skip(p)
    <3>1. /\ prog' = [prog EXCEPT ![p].todo = Tail(@)] /\ prog[p].pc = "next"
      BY <2>1 DEF Skip
    <3>2. /\ DOMAIN prog' = Programs /\ \A q \in Programs \ {p} : prog'[q] = prog[q]
          /\ DOMAIN prog'[p] = DOMAIN Off
          /\ \A f \in DOMAIN Off \ {"todo"} : prog'[p][f] = prog[p][f]
      BY <1>2, <3>1, OffIs
    <3>3. ProgramInv(p)'
      BY <1>1, <1>2, <3>1, <3>2, OffIs
         DEF ProgramInv, JobOf, ReadOf, StageOf, CatalogOf, Resting, Halfway, Focus
    <3>4. QED BY <1>3, <3>1, <3>2, <3>3, OffIs
  <2>2. CASE PeekFails(p) \/ Done(p)
    <3>1. /\ prog[p].pc = "next"
          /\ \/ prog' = Failed(p)
             \/ prog' = [prog EXCEPT ![p] = [Off EXCEPT !.pc = "idle", !.project = prog[p].project]]
      BY <2>2 DEF PeekFails, Done
    <3>2. /\ DOMAIN prog' = Programs /\ \A q \in Programs \ {p} : prog'[q] = prog[q]
          /\ prog'[p] \in {Off, [Off EXCEPT !.pc = "idle", !.project = prog[p].project]}
      BY <1>2, <3>1 DEF Failed
    <3>3. ~Resting(p)
      BY <3>1 DEF Resting
    <3>4. QED BY <3>2, <3>3, EndsJob
  <2>3. CASE Quit(p)
    <3>1. /\ DOMAIN prog' = Programs /\ \A q \in Programs \ {p} : prog'[q] = prog[q]
          /\ prog'[p] = Off
      BY <1>2, <2>3 DEF Quit
    <3>2. ProgramInv(p)' /\ Resting(p)'
      BY <3>1, OffIs, RestKeeps DEF Resting
    <3>3. QED BY <3>1, <3>2
  <2>4. QED BY <2>1, <2>2, <2>3
<1>5. ~Works(p)
  BY DEF Works, Skip, PeekFails, Done, Quit
<1>6. QED BY <1>1, <1>3, <1>4, <1>5, StepKeeps DEF IInv, Resting

\* What is known of a program that has a job, and of its store.
LEMMA WorkerIs ==
  ASSUME IInv, NEW p \in Programs, ~Resting(p)
  PROVE  /\ DOMAIN prog = Programs /\ DOMAIN records = Stores /\ DOMAIN files = Stores
         /\ prog[p].store \in Stores /\ DOMAIN prog[p] = DOMAIN Off
         /\ prog[p].project \in Stores /\ "global" \in Stores
         /\ ProgramInv(p) /\ JobOf(p) /\ ReadOf(p) /\ StageOf(p) /\ CatalogOf(p)
         /\ PlacesOf(prog[p].store) /\ ListedIn(prog[p].store)
<1>1. ProgramInv(p)
  BY DEF IInv
<1>2. JobOf(p) /\ ReadOf(p) /\ StageOf(p) /\ CatalogOf(p)
  BY <1>1 DEF ProgramInv
<1>3. prog[p].store \in Stores /\ prog[p].project \in Stores /\ DOMAIN prog[p] = DOMAIN Off
  BY <1>1, <1>2 DEF JobOf, Resting
<1>4. "global" \in Stores
  BY DEF Stores
<1>5. QED BY <1>1, <1>2, <1>3, <1>4 DEF IInv, StoreInv

\* What a step of a job leaves as it is in the program.
Kept(p) ==
  /\ DOMAIN prog' = Programs /\ \A q \in Programs \ {p} : prog'[q] = prog[q]
  /\ DOMAIN prog'[p] = DOMAIN Off
  /\ prog'[p].job = prog[p].job /\ prog'[p].alone = prog[p].alone
  /\ prog'[p].project = prog[p].project /\ prog'[p].store = prog[p].store
  /\ prog'[p].catalog = prog[p].catalog

\* The step changes at most the place of the package.
LEMMA CatalogKept ==
  ASSUME IInv, NEW p \in Programs, ~Resting(p), Kept(p), prog[p].fetched \subseteq prog'[p].fetched,
         \A store \in Stores \ {prog[p].store} :
           records'[store] = records[store] /\ files'[store] = files[store],
         prog[p].alone => \A m : m # prog[p].peek.name =>
           /\ m \in DOMAIN records'[prog[p].store] => m \in DOMAIN records[prog[p].store]
           /\ m \in DOMAIN files'[prog[p].store] => m \in DOMAIN files[prog[p].store]
           /\ m \in DOMAIN files[prog[p].store] =>
                files'[prog[p].store][m] = files[prog[p].store][m],
         \/ Focus(p) \in prog'[p].fetched
         \/ prog'[p].pc \in Halfway /\ Focus(p)' = Focus(p)
         \/ prog[p].pc \notin Halfway /\ UNCHANGED <<records, files>>
  PROVE  CatalogOf(p)'
<1>0. PICK s, n : s = prog[p].store /\ n = prog[p].peek.name /\ Focus(p) = <<s, n>>
  BY DEF Focus
<1>1. CatalogOf(p) /\ "global" \in Stores /\ prog[p].project \in Stores
  BY WorkerIs
<1>2. SUFFICES ASSUME prog[p].job = "start", prog[p].alone,
                      NEW store \in {"global", prog[p].project},
                      NEW m \in DOMAIN records'[store] \cap DOMAIN files'[store],
                      Loads(files'[store][m])
               PROVE  \/ <<store, m>> \in prog'[p].catalog \cup prog'[p].fetched
                      \/ prog'[p].pc \in Halfway /\ Focus(p)' = <<store, m>>
  BY DEF Kept, CatalogOf
<1>3. CASE store # s \/ m # n
  <2>1. m \in DOMAIN records[store] \cap DOMAIN files[store] /\ files'[store][m] = files[store][m]
    BY <1>0, <1>1, <1>2, <1>3
  <2>2. \/ <<store, m>> \in prog[p].catalog \cup prog[p].fetched
        \/ prog[p].pc \in Halfway /\ Focus(p) = <<store, m>>
    BY <1>1, <1>2, <2>1 DEF CatalogOf
  <2>3. Focus(p) # <<store, m>>
    BY <1>0, <1>3
  <2>4. QED BY <2>2, <2>3 DEF Kept
<1>4. CASE store = s /\ m = n
  BY <1>0, <1>1, <1>2, <1>4 DEF CatalogOf, Kept
<1>5. QED BY <1>3, <1>4

LEMMA PeekKeeps ==
  ASSUME IInv, NEW p \in Programs, Peek(p)
  PROVE  IInv'
<1>1. /\ prog[p].pc = "next" /\ UNCHANGED <<records, files, installed, hurt>>
      /\ mixed' = (mixed \/ \E q \in Programs \ {p} : Works(q) /\ prog[q].store = prog[p].store)
  BY DEF Peek
<1>2. ~Resting(p) /\ ~Works(p) /\ prog[p].pc \notin Halfway
  BY <1>1 DEF Resting, Works, Halfway
<1>3. PICK peek, source : /\ prog' = [prog EXCEPT ![p].pc = "peeked", ![p].source = source,
                                               ![p].peek = peek, ![p].todo = Tail(@)]
                          /\ Loads(peek)
  BY DEF Peek, Loads
<1>4. PICK s, n : s = prog[p].store /\ n = prog[p].peek.name
  OBVIOUS
<1>5. Kept(p) /\ prog'[p].pc = "peeked" /\ prog'[p].peek = peek /\ prog'[p].fetched = prog[p].fetched
  <2>1. DOMAIN prog = Programs /\ DOMAIN prog[p] = DOMAIN Off
    BY <1>2, WorkerIs
  <2>2. /\ DOMAIN prog' = Programs /\ \A q \in Programs \ {p} : prog'[q] = prog[q]
        /\ prog'[p] = [prog[p] EXCEPT !.pc = "peeked", !.source = source, !.peek = peek,
                                      !.todo = Tail(@)]
    BY <1>3, <2>1
  <2>3. QED BY <2>1, <2>2, OffIs DEF Kept
<1>6. ProgramInv(p)'
  <2>1. JobOf(p)'
    BY <1>1, <1>2, <1>3, <1>5, WorkerIs DEF JobOf, Resting, Kept
  <2>2. ReadOf(p)' /\ StageOf(p)'
    BY <1>5 DEF ReadOf, StageOf
  <2>3. CatalogOf(p)'
    BY <1>1, <1>2, <1>4, <1>5, CatalogKept
  <2>4. QED BY <2>1, <2>2, <2>3 DEF ProgramInv
<1>7. QED
  BY <1>1, <1>2, <1>4, <1>5, <1>6, StepKeeps DEF Kept, IInv, Resting

\* An operation that is cut off leaves its mark on the place it was at.
LEMMA JobFails ==
  ASSUME IInv, NEW p \in Programs, ~Resting(p), Works(p),
         prog' = Failed(p) \/ prog' = [prog EXCEPT ![p] = Off], UNCHANGED <<records, installed, mixed>>,
         hurt' = hurt \cup {Focus(p)} \/ (hurt' = hurt /\ files' = files /\ prog[p].pc \notin Halfway),
         DOMAIN files' = Stores,
         \A store \in Stores \ {prog[p].store} : files'[store] = files[store],
         \A m : m # prog[p].peek.name =>
           /\ m \in DOMAIN files'[prog[p].store] <=> m \in DOMAIN files[prog[p].store]
           /\ m \in DOMAIN files[prog[p].store] =>
                files'[prog[p].store][m] = files[prog[p].store][m]
  PROVE  IInv'
<1>1. PICK s, n : s = prog[p].store /\ n = prog[p].peek.name /\ Focus(p) = <<s, n>>
  BY DEF Focus
<1>2. DOMAIN prog = Programs /\ DOMAIN records = Stores /\ s \in Stores
  BY <1>1, WorkerIs
<1>3. /\ DOMAIN prog' = Programs /\ \A q \in Programs \ {p} : prog'[q] = prog[q]
      /\ prog'[p] \in {Off, [Off EXCEPT !.pc = "idle", !.project = prog[p].project]}
  BY <1>2 DEF Failed
<1>4. ProgramInv(p)' /\ Resting(p)'
  BY <1>3, EndsJob
<1>5. ASSUME ~mixed, n \in DOMAIN records'[s] \cup DOMAIN files'[s]
      PROVE  Matches(s, n)'
  <2>1. CASE hurt' = hurt \cup {Focus(p)}
    BY <1>1, <2>1 DEF Matches
  <2>2. CASE hurt' = hurt /\ files' = files /\ prog[p].pc \notin Halfway
    <3>1. Matches(s, n)
      BY <1>1, <1>5, <2>2, WorksAlone
    <3>2. QED BY <2>2, <3>1 DEF Matches
  <2>3. QED BY <2>1, <2>2
<1>6. PlacesOf(s)'
  BY <1>1, <1>5, OthersMatch
<1>7. ListedIn(s)'
  BY <1>1, WorkerIs DEF ListedIn
<1>8. QED
  BY <1>1, <1>2, <1>3, <1>4, <1>6, <1>7, StepKeeps DEF IInv, StoreInv, Resting

\* The steps of an installation, in the one place of its store.
LEMMA ClearKeeps ==
  ASSUME IInv, NEW p \in Programs, Clear(p)
  PROVE  IInv'
<1>1. prog[p].pc = "peeked" /\ UNCHANGED <<records, installed, hurt, mixed>>
  BY DEF Clear
<1>2. ~Resting(p) /\ Works(p)
  BY <1>1 DEF Resting, Works
<1>3. PICK s, n : s = prog[p].store /\ n = prog[p].peek.name
  OBVIOUS
<1>4. /\ Kept(p) /\ prog'[p].pc = "cleared" /\ prog'[p].peek = prog[p].peek
      /\ prog'[p].fetched = prog[p].fetched
  BY <1>2, WorkerIs, OffIs DEF Clear, Kept
<1>5. /\ DOMAIN files' = Stores /\ \A store \in Stores \ {s} : files'[store] = files[store]
      /\ files'[s] = Without(files[s], n)
  BY <1>2, <1>3, WorkerIs DEF Clear
<1>6. /\ n \notin DOMAIN files'[s]
      /\ \A m : m # n =>
           /\ m \in DOMAIN files'[s] <=> m \in DOMAIN files[s]
           /\ m \in DOMAIN files[s] => files'[s][m] = files[s][m]
  BY <1>5 DEF Without
<1>7. prog'[p].pc \in Halfway /\ Focus(p)' = <<s, n>> /\ Focus(p) = <<s, n>>
  BY <1>3, <1>4 DEF Halfway, Focus, Kept
<1>8. ProgramInv(p)'
  <2>1. JobOf(p)'
    BY <1>1, <1>2, <1>4, WorkerIs DEF JobOf, Resting, Kept
  <2>2. ReadOf(p)' /\ StageOf(p)'
    BY <1>3, <1>4, <1>6 DEF ReadOf, StageOf, Kept
  <2>3. CatalogOf(p)'
    BY <1>1, <1>2, <1>3, <1>4, <1>5, <1>6, <1>7, CatalogKept
  <2>4. QED BY <2>1, <2>2, <2>3 DEF ProgramInv
<1>9. StoreInv(s)'
  <2>1. PlacesOf(s)'
    BY <1>1, <1>2, <1>3, <1>6, <1>7, OthersMatch
  <2>2. ListedIn(s)'
    BY <1>1, <1>2, <1>3, WorkerIs DEF ListedIn
  <2>3. QED BY <2>1, <2>2 DEF StoreInv
<1>10. QED
  BY <1>1, <1>2, <1>3, <1>4, <1>5, <1>8, <1>9, StepKeeps DEF Kept, IInv

LEMMA CopyKeeps ==
  ASSUME IInv, NEW p \in Programs, Copy(p)
  PROVE  IInv'
<1>1. prog[p].pc = "cleared" /\ UNCHANGED <<records, installed, mixed>>
  BY DEF Copy
<1>2. ~Resting(p) /\ Works(p)
  BY <1>1 DEF Resting, Works
<1>3. PICK s, n, now : /\ s = prog[p].store /\ n = prog[p].peek.name /\ now = sources[prog[p].source]
                       /\ Focus(p) = <<s, n>>
  BY DEF Focus
<1>4. s \in Stores /\ DOMAIN files = Stores /\ Loads(prog[p].peek)
  BY <1>1, <1>2, <1>3, WorkerIs DEF JobOf
<1>5. hurt' = IF now = prog[p].peek THEN hurt ELSE hurt \cup {<<s, n>>}
  BY <1>3 DEF Copy
<1>6. CASE Loads(now)
  <2>1. files' = [files EXCEPT ![s] = With(@, n, now)] /\ prog' = [prog EXCEPT ![p].pc = "copied"]
    BY <1>3, <1>6 DEF Copy
  <2>2. /\ Kept(p) /\ prog'[p].pc = "copied" /\ prog'[p].peek = prog[p].peek
        /\ prog'[p].fetched = prog[p].fetched
    BY <1>2, <2>1, WorkerIs, OffIs DEF Kept
  <2>3. /\ DOMAIN files' = Stores /\ \A store \in Stores \ {s} : files'[store] = files[store]
        /\ files'[s] = With(files[s], n, now)
    BY <1>4, <2>1
  <2>4. /\ n \in DOMAIN files'[s] /\ files'[s][n] = now
        /\ \A m : m # n =>
             /\ m \in DOMAIN files'[s] <=> m \in DOMAIN files[s]
             /\ m \in DOMAIN files[s] => files'[s][m] = files[s][m]
    BY <2>3 DEF With
  <2>5. prog'[p].pc \in Halfway /\ Focus(p)' = <<s, n>>
    BY <1>3, <2>2 DEF Halfway, Focus, Kept
  <2>6. JobOf(p)'
    BY <1>1, <1>2, <2>2, WorkerIs DEF JobOf, Resting, Kept
  <2>7. ReadOf(p)' /\ StageOf(p)'
    BY <1>3, <1>5, <2>2, <2>4 DEF ReadOf, StageOf, Kept
  <2>8. CatalogOf(p)'
    BY <1>1, <1>2, <1>3, <2>2, <2>3, <2>4, <2>5, CatalogKept
  <2>9. PlacesOf(s)'
    BY <1>1, <1>2, <1>3, <1>5, <2>4, <2>5, OthersMatch
  <2>10. ListedIn(s)'
    BY <1>1, <1>2, <1>3, WorkerIs DEF ListedIn
  <2>11. QED
    BY <1>1, <1>2, <1>3, <1>5, <2>2, <2>3, <2>6, <2>7, <2>8, <2>9, <2>10, StepKeeps
       DEF Kept, IInv, StoreInv, ProgramInv
<1>7. CASE ~Loads(now)
  <2>1. files' = [files EXCEPT ![s] = Without(@, n)] /\ prog' = Failed(p)
    BY <1>3, <1>7 DEF Copy
  <2>2. hurt' = hurt \cup {<<s, n>>}
    BY <1>4, <1>5, <1>7
  <2>3. /\ DOMAIN files' = Stores /\ \A store \in Stores \ {s} : files'[store] = files[store]
        /\ files'[s] = Without(files[s], n)
    BY <1>4, <2>1
  <2>4. \A m : m # n =>
          /\ m \in DOMAIN files'[s] <=> m \in DOMAIN files[s]
          /\ m \in DOMAIN files[s] => files'[s][m] = files[s][m]
    BY <2>3 DEF Without
  <2>5. QED BY <1>1, <1>2, <1>3, <2>1, <2>2, <2>3, <2>4, JobFails
<1>8. QED BY <1>6, <1>7

LEMMA CutOffKeeps ==
  ASSUME IInv, NEW p \in Programs, CopyFails(p) \/ Killed(p)
  PROVE  IInv'
<1>1. Works(p) /\ ~Resting(p) /\ UNCHANGED <<records, installed, mixed>>
  BY DEF CopyFails, Killed, Works, Resting
<1>2. PICK s, n : s = prog[p].store /\ n = prog[p].peek.name /\ Focus(p) = <<s, n>>
  BY DEF Focus
<1>3. s \in Stores /\ DOMAIN files = Stores
  BY <1>1, <1>2, WorkerIs
<1>4. CASE Killed(p)
  BY <1>1, <1>3, <1>4, JobFails DEF Killed, Focus, Halfway
<1>5. CASE CopyFails(p)
  <2>1. prog' = Failed(p) /\ hurt' = hurt \cup {Focus(p)}
    BY <1>5 DEF CopyFails, Focus
  <2>2. CASE UNCHANGED files
    BY <1>1, <1>3, <2>1, <2>2, JobFails
  <2>3. CASE files' = [files EXCEPT ![s] = With(@, n, Manifest("none", n, 0))]
    <3>1. /\ DOMAIN files' = Stores /\ \A store \in Stores \ {s} : files'[store] = files[store]
          /\ files'[s] = With(files[s], n, Manifest("none", n, 0))
      BY <1>3, <2>3
    <3>2. \A m : m # n =>
            /\ m \in DOMAIN files'[s] <=> m \in DOMAIN files[s]
            /\ m \in DOMAIN files[s] => files'[s][m] = files[s][m]
      BY <3>1 DEF With
    <3>3. QED BY <1>1, <1>2, <2>1, <3>1, <3>2, JobFails
  <2>4. QED BY <1>2, <1>5, <2>2, <2>3 DEF CopyFails
<1>6. QED BY <1>4, <1>5

LEMMA ReadKeeps ==
  ASSUME IInv, NEW p \in Programs, ReadState(p)
  PROVE  IInv'
<1>1. prog[p].pc = "copied" /\ UNCHANGED <<records, files, installed, hurt, mixed>>
  BY DEF ReadState
<1>2. ~Resting(p) /\ Works(p)
  BY <1>1 DEF Resting, Works
<1>3. PICK s, n : s = prog[p].store /\ n = prog[p].peek.name /\ Focus(p) = <<s, n>>
  BY DEF Focus
<1>4. /\ Kept(p) /\ prog'[p].pc = "read" /\ prog'[p].peek = prog[p].peek
      /\ prog'[p].fetched = prog[p].fetched /\ prog'[p].read = records[s]
  <2>1. DOMAIN prog = Programs /\ DOMAIN prog[p] = DOMAIN Off
    BY <1>2, WorkerIs
  <2>2. /\ DOMAIN prog' = Programs /\ \A q \in Programs \ {p} : prog'[q] = prog[q]
        /\ prog'[p] = [prog[p] EXCEPT !.pc = "read", !.read = records[s]]
    BY <1>3, <2>1 DEF ReadState
  <2>3. QED BY <2>1, <2>2, OffIs DEF Kept
<1>5. prog'[p].pc \in Halfway /\ Focus(p)' = <<s, n>>
  BY <1>3, <1>4 DEF Halfway, Focus, Kept
<1>6. JobOf(p)'
  BY <1>2, <1>1, <1>4, WorkerIs DEF JobOf, Resting, Kept
<1>7. ReadOf(p)'
  BY <1>1, <1>3, <1>4 DEF ReadOf, Kept
<1>8. StageOf(p)'
  BY <1>1, <1>2, <1>3, <1>4, WorkerIs DEF StageOf, Kept
<1>9. CatalogOf(p)'
  BY <1>1, <1>2, <1>3, <1>4, <1>5, CatalogKept
<1>10. PlacesOf(s)' /\ ListedIn(s)'
  <2>1. PlacesOf(s)'
    BY <1>1, <1>2, <1>3, <1>5, OthersMatch
  <2>2. ListedIn(s)'
    BY <1>1, <1>2, <1>3, WorkerIs DEF ListedIn
  <2>3. QED BY <2>1, <2>2
<1>11. QED
  BY <1>1, <1>2, <1>3, <1>4, <1>6, <1>7, <1>8, <1>9, <1>10, StepKeeps
     DEF Kept, IInv, StoreInv, ProgramInv

\* The record is written over what was read: nobody wrote in between.
LEMMA WriteKeeps ==
  ASSUME IInv, NEW p \in Programs, WriteState(p)
  PROVE  IInv'
<1>1. prog[p].pc = "read" /\ UNCHANGED <<files, mixed>>
  BY DEF WriteState
<1>2. ~Resting(p) /\ Works(p)
  BY <1>1 DEF Resting, Works
<1>3. PICK s, n : s = prog[p].store /\ n = prog[p].peek.name /\ Focus(p) = <<s, n>>
  BY DEF Focus
<1>4. /\ Kept(p) /\ prog'[p].pc = "next" /\ prog'[p].fetched = prog[p].fetched \cup {<<s, n>>}
  <2>1. DOMAIN prog = Programs /\ DOMAIN prog[p] = DOMAIN Off
    BY <1>2, WorkerIs
  <2>2. /\ DOMAIN prog' = Programs /\ \A q \in Programs \ {p} : prog'[q] = prog[q]
        /\ prog'[p] = [prog[p] EXCEPT !.pc = "next", !.peek = Nothing, !.read = <<>>, !.source = "",
                                      !.fetched = @ \cup {<<s, n>>}]
    BY <1>3, <2>1 DEF WriteState
  <2>3. QED BY <2>1, <2>2, OffIs DEF Kept
<1>5. /\ s \in Stores /\ DOMAIN records = Stores
      /\ ~mixed \/ prog[p].alone => prog[p].read = records[s]
      /\ ~mixed => n \in DOMAIN files[s] /\ (files[s][n] = prog[p].peek \/ <<s, n>> \in hurt)
  BY <1>1, <1>2, <1>3, WorkerIs DEF ReadOf, StageOf
<1>6. /\ records' = [records EXCEPT ![s] = With(prog[p].read, n, Record(p))]
      /\ installed' = installed \cup {<<s, n>>}
      /\ hurt' = IF n \in DOMAIN files[s] /\ files[s][n] = prog[p].peek
                 THEN hurt \ {<<s, n>>} ELSE hurt
  BY <1>3 DEF WriteState, Recorded
<1>7. /\ DOMAIN records' = Stores /\ \A store \in Stores \ {s} : records'[store] = records[store]
      /\ records'[s] = With(prog[p].read, n, Record(p))
  BY <1>5, <1>6
<1>8. /\ n \in DOMAIN records'[s] /\ records'[s][n] = Record(p)
      /\ ~mixed \/ prog[p].alone => \A m : m # n =>
           /\ m \in DOMAIN records'[s] <=> m \in DOMAIN records[s]
           /\ m \in DOMAIN records[s] => records'[s][m] = records[s][m]
  BY <1>5, <1>7 DEF With
<1>9. JobOf(p)' /\ ReadOf(p)' /\ StageOf(p)'
  <2>1. JobOf(p)'
    BY <1>1, <1>2, <1>4, WorkerIs DEF JobOf, Resting, Kept
  <2>2. ReadOf(p)' /\ StageOf(p)'
    BY <1>4 DEF ReadOf, StageOf
  <2>3. QED BY <2>1, <2>2
<1>10. CatalogOf(p)'
  BY <1>1, <1>2, <1>3, <1>4, <1>7, <1>8, CatalogKept
<1>11. PlacesOf(s)'
  <2>1. ASSUME ~mixed PROVE Matches(s, n)'
    <3>1. CASE files[s][n] = prog[p].peek
      <4>1. records'[s][n].version = prog[p].peek.version
        BY <1>8 DEF Record
      <4>2. QED BY <1>1, <1>3, <1>5, <1>8, <2>1, <3>1, <4>1 DEF Matches
    <3>2. CASE files[s][n] # prog[p].peek
      BY <1>5, <1>6, <2>1, <3>2 DEF Matches
    <3>3. QED BY <3>1, <3>2
  <2>2. QED BY <1>1, <1>2, <1>3, <1>6, <1>8, <2>1, OthersMatch
<1>12. ListedIn(s)'
  <2>1. ASSUME ~mixed, NEW one \in installed', one[1] = s PROVE one[2] \in DOMAIN records'[s]
    <3>1. CASE one \in installed
      <4>1. one[2] \in DOMAIN records[s]
        BY <1>2, <1>3, <2>1, <3>1, WorkerIs DEF ListedIn
      <4>2. QED BY <1>8, <2>1, <4>1
    <3>2. CASE one = <<s, n>>
      BY <1>8, <3>2
    <3>3. QED BY <1>6, <2>1, <3>1, <3>2
  <2>2. QED BY <1>1, <2>1 DEF ListedIn
<1>13. \A one \in installed' : one[1] \in Stores /\ one = <<one[1], one[2]>>
  BY <1>5, <1>6 DEF IInv
<1>14. \A store \in Stores \ {s} : \A m :
         /\ <<store, m>> \in hurt' <=> <<store, m>> \in hurt
         /\ <<store, m>> \in installed' <=> <<store, m>> \in installed
  BY <1>6
<1>15. QED
  BY <1>1, <1>2, <1>3, <1>4, <1>7, <1>9, <1>10, <1>11, <1>12, <1>13, <1>14, StepKeeps
     DEF Kept, IInv, StoreInv, ProgramInv

\* A removal takes the package from what was listed, ...
LEMMA RemoveRecordKeeps ==
  ASSUME IInv, NEW p \in Programs, RemoveRecord(p)
  PROVE  IInv'
<1>1. prog[p].pc = "listed" /\ UNCHANGED <<files, hurt, mixed>>
  BY DEF RemoveRecord
<1>2. ~Resting(p) /\ Works(p)
  BY <1>1 DEF Resting, Works
<1>3. PICK s, n : s = prog[p].store /\ n = prog[p].peek.name /\ Focus(p) = <<s, n>>
  BY DEF Focus
<1>4. /\ Kept(p) /\ prog'[p].pc = "dropped" /\ prog'[p].peek = prog[p].peek
      /\ prog'[p].fetched = prog[p].fetched
  BY <1>2, WorkerIs, OffIs DEF RemoveRecord, Kept
<1>5. /\ s \in Stores /\ DOMAIN records = Stores
      /\ ~mixed \/ prog[p].alone => prog[p].read = records[s]
  BY <1>1, <1>2, <1>3, WorkerIs DEF ReadOf
<1>6. /\ records' = [records EXCEPT ![s] = Without(prog[p].read, n)]
      /\ installed' = installed \ {<<s, n>>}
  BY <1>3 DEF RemoveRecord
<1>7. /\ DOMAIN records' = Stores /\ \A store \in Stores \ {s} : records'[store] = records[store]
      /\ records'[s] = Without(prog[p].read, n)
  BY <1>5, <1>6
<1>8. /\ n \notin DOMAIN records'[s]
      /\ ~mixed \/ prog[p].alone => \A m : m # n =>
           /\ m \in DOMAIN records'[s] <=> m \in DOMAIN records[s]
           /\ m \in DOMAIN records[s] => records'[s][m] = records[s][m]
  BY <1>5, <1>7 DEF Without
<1>9. prog'[p].pc \in Halfway /\ Focus(p)' = <<s, n>>
  BY <1>3, <1>4 DEF Halfway, Focus, Kept
<1>10. JobOf(p)' /\ ReadOf(p)' /\ StageOf(p)'
  <2>1. JobOf(p)'
    BY <1>1, <1>2, <1>4, WorkerIs DEF JobOf, Resting, Kept
  <2>2. ReadOf(p)' /\ StageOf(p)'
    BY <1>3, <1>4, <1>8 DEF ReadOf, StageOf, Kept
  <2>3. QED BY <2>1, <2>2
<1>11. CatalogOf(p)'
  BY <1>1, <1>2, <1>3, <1>4, <1>7, <1>8, <1>9, CatalogKept
<1>12. PlacesOf(s)'
  BY <1>1, <1>2, <1>3, <1>6, <1>8, <1>9, OthersMatch
<1>13. ListedIn(s)'
  <2>1. ASSUME ~mixed, NEW one \in installed', one[1] = s PROVE one[2] \in DOMAIN records'[s]
    <3>1. one \in installed /\ one[2] # n
      BY <1>6, <2>1 DEF IInv
    <3>2. one[2] \in DOMAIN records[s]
      BY <1>2, <1>3, <2>1, <3>1, WorkerIs DEF ListedIn
    <3>3. QED BY <1>8, <2>1, <3>1, <3>2
  <2>2. QED BY <1>1, <2>1 DEF ListedIn
<1>14. QED
  BY <1>1, <1>2, <1>3, <1>4, <1>6, <1>7, <1>10, <1>11, <1>12, <1>13, StepKeeps
     DEF Kept, IInv, StoreInv, ProgramInv

\* ... and then its directory.
LEMMA RemoveFilesKeeps ==
  ASSUME IInv, NEW p \in Programs, RemoveFiles(p)
  PROVE  IInv'
<1>1. prog[p].pc = "dropped" /\ UNCHANGED <<records, installed, mixed>>
  BY DEF RemoveFiles
<1>2. ~Resting(p) /\ Works(p)
  BY <1>1 DEF Resting, Works
<1>3. PICK s, n : s = prog[p].store /\ n = prog[p].peek.name /\ Focus(p) = <<s, n>>
  BY DEF Focus
<1>4. /\ DOMAIN prog = Programs /\ DOMAIN files = Stores /\ s \in Stores
      /\ ~mixed => n \notin DOMAIN records[s]
  BY <1>1, <1>2, <1>3, WorkerIs DEF StageOf
<1>5. /\ DOMAIN prog' = Programs /\ \A q \in Programs \ {p} : prog'[q] = prog[q]
      /\ prog'[p] \in {Off, [Off EXCEPT !.pc = "idle", !.project = prog[p].project]}
  BY <1>4 DEF RemoveFiles
<1>6. ProgramInv(p)' /\ Resting(p)'
  BY <1>2, <1>5, EndsJob
<1>7. /\ files' = [files EXCEPT ![s] = Without(@, n)] /\ hurt' = hurt \ {<<s, n>>}
  BY <1>3 DEF RemoveFiles
<1>8. /\ DOMAIN files' = Stores /\ \A store \in Stores \ {s} : files'[store] = files[store]
      /\ files'[s] = Without(files[s], n)
  BY <1>4, <1>7
<1>9. /\ n \notin DOMAIN files'[s]
      /\ \A m : m # n =>
           /\ m \in DOMAIN files'[s] <=> m \in DOMAIN files[s]
           /\ m \in DOMAIN files[s] => files'[s][m] = files[s][m]
  BY <1>8 DEF Without
<1>10. PlacesOf(s)'
  BY <1>1, <1>2, <1>3, <1>4, <1>7, <1>9, OthersMatch
<1>11. ListedIn(s)'
  BY <1>1, <1>2, <1>3, WorkerIs DEF ListedIn
<1>12. QED
  BY <1>1, <1>2, <1>3, <1>5, <1>6, <1>7, <1>8, <1>10, <1>11, StepKeeps
     DEF IInv, StoreInv, Resting

-----------------------------------------------------------------------------
(* Steps of the others.                                                    *)

\* A program that changes in nothing but that it is no longer alone.
LEMMA Disturbed ==
  ASSUME NEW q \in Programs, ProgramInv(q), UNCHANGED <<records, files, hurt>>, mixed => mixed',
         prog'[q] = prog[q] \/ (prog'[q] = [prog[q] EXCEPT !.alone = FALSE] /\ ~Resting(q))
  PROVE  /\ ProgramInv(q)' /\ prog'[q].pc = prog[q].pc /\ prog'[q].store = prog[q].store
         /\ Focus(q)' = Focus(q) /\ (prog'[q].alone => prog[q].alone)
<1>1. DOMAIN prog[q] = DOMAIN Off /\ JobOf(q)
  BY DEF ProgramInv, JobOf
<1>2. CASE prog'[q] = prog[q]
  BY <1>2 DEF ProgramInv, JobOf, ReadOf, StageOf, CatalogOf, Focus, Resting
<1>3. CASE prog'[q] = [prog[q] EXCEPT !.alone = FALSE]
  <2>1. /\ DOMAIN prog'[q] = DOMAIN Off /\ ~prog'[q].alone
        /\ prog'[q].pc = prog[q].pc /\ prog'[q].job = prog[q].job /\ prog'[q].store = prog[q].store
        /\ prog'[q].project = prog[q].project /\ prog'[q].peek = prog[q].peek
        /\ prog'[q].read = prog[q].read
    BY <1>1, <1>3, OffIs
  <2>2. JobOf(q)'
    BY <1>1, <2>1 DEF JobOf, Resting
  <2>3. ReadOf(q)' /\ StageOf(q)' /\ CatalogOf(q)'
    BY <2>1 DEF ProgramInv, ReadOf, StageOf, CatalogOf
  <2>4. QED BY <2>1, <2>2, <2>3 DEF ProgramInv, Focus
<1>4. QED BY <1>2, <1>3

\* What is true of a store depends on no more of the programs than their places.
LEMMA StoreUndisturbed ==
  ASSUME NEW store \in Stores, StoreInv(store), UNCHANGED <<records, files, hurt, installed>>,
         mixed => mixed',
         \A q \in Programs :
           prog[q].pc \in Halfway => prog'[q].pc = prog[q].pc /\ Focus(q)' = Focus(q)
  PROVE  StoreInv(store)'
<1>1. ListedIn(store)'
  BY DEF StoreInv, ListedIn
<1>2. ASSUME ~mixed', NEW n \in DOMAIN records[store] \cup DOMAIN files[store], ~Matches(store, n)
      PROVE  \E q \in Programs : prog'[q].pc \in Halfway /\ Focus(q)' = <<store, n>>
  <2>1. \E q \in Programs : prog[q].pc \in Halfway /\ Focus(q) = <<store, n>>
    BY <1>2 DEF StoreInv, PlacesOf
  <2>2. QED BY <2>1
<1>3. \A n : Matches(store, n)' <=> Matches(store, n)
  BY DEF Matches
<1>4. QED BY <1>1, <1>2, <1>3 DEF StoreInv, PlacesOf

LEMMA BeginsKeeps ==
  ASSUME IInv, NEW p \in Programs, Resting(p), NEW job, DOMAIN job = DOMAIN Off,
         Begins(p, job), UNCHANGED <<records, files, installed, hurt>>, mixed => mixed',
         job.pc \in {"next", "listed"}, job.project \in Stores, job.store \in Stores,
         job.pc = "listed" =>
           /\ job.job # "start" /\ job.read = records[job.store]
           /\ mixed' \/ \A q \in Programs \ {p} : Works(q) => prog[q].store # job.store,
         job.job = "start" => job.project = job.store /\ FoundBy(job.project) \subseteq job.catalog
  PROVE  IInv'
<1>1. /\ DOMAIN prog' = Programs
      /\ prog'[p] = [job EXCEPT !.alone = \A r \in Programs \ {p} : Resting(r)]
      /\ \A q \in Programs \ {p} :
           prog'[q] = IF Resting(q) THEN prog[q] ELSE [prog[q] EXCEPT !.alone = FALSE]
  BY DEF Begins, Resting
<1>2. /\ DOMAIN prog'[p] = DOMAIN Off /\ prog'[p].pc = job.pc /\ prog'[p].job = job.job
      /\ prog'[p].project = job.project /\ prog'[p].store = job.store
      /\ prog'[p].peek = job.peek /\ prog'[p].read = job.read
      /\ prog'[p].catalog = job.catalog
      /\ prog'[p].alone = (\A r \in Programs \ {p} : Resting(r))
  BY <1>1, OffIs
<1>3. \A q \in Programs \ {p} :
        /\ ProgramInv(q)' /\ prog'[q].pc = prog[q].pc /\ prog'[q].store = prog[q].store
        /\ Focus(q)' = Focus(q)
        /\ ~Resting(q) => ~prog'[q].alone
  <2> TAKE q \in Programs \ {p}
  <2>1. ProgramInv(q)
    BY DEF IInv
  <2>2. CASE Resting(q)
    BY <1>1, <2>1, <2>2, Disturbed
  <2>3. CASE ~Resting(q)
    <3>1. prog'[q] = [prog[q] EXCEPT !.alone = FALSE]
      BY <1>1, <2>3
    <3>2. ~prog'[q].alone
      BY <2>1, <3>1, OffIs DEF ProgramInv, JobOf
    <3>3. QED BY <2>1, <2>3, <3>1, <3>2, Disturbed
  <2>4. QED BY <2>2, <2>3
<1>4. ProgramInv(p)'
  <2>1. JobOf(p)'
    BY <1>2 DEF JobOf, Resting
  <2>2. ReadOf(p)' /\ StageOf(p)'
    BY <1>2 DEF ReadOf, StageOf
  <2>3. CatalogOf(p)'
    BY <1>2 DEF CatalogOf, FoundBy, Found
  <2>4. QED BY <2>1, <2>2, <2>3 DEF ProgramInv
<1>5. AloneInv'
  <2>1. ASSUME ~mixed', NEW q \in Programs, NEW r \in Programs, q # r, Works(q)', Works(r)'
        PROVE  prog'[q].store # prog'[r].store
    <3>1. CASE q = p \/ r = p
      BY <1>2, <1>3, <2>1, <3>1 DEF Works
    <3>2. CASE q # p /\ r # p
      BY <1>3, <2>1, <3>2 DEF IInv, AloneInv, Works
    <3>3. QED BY <3>1, <3>2
  <2>2. ASSUME NEW q \in Programs, NEW r \in Programs, q # r, prog'[q].alone, ~Resting(q)'
        PROVE  Resting(r)'
    BY <1>2, <1>3, <2>2 DEF Resting
  <2>3. QED BY <2>1, <2>2 DEF AloneInv
<1>6. \A store \in Stores : StoreInv(store)'
  BY <1>3, StoreUndisturbed DEF IInv, Halfway, Resting
<1>7. QED BY <1>1, <1>3, <1>4, <1>5, <1>6 DEF IInv

LEMMA StartKeeps ==
  ASSUME IInv, NEW p \in Programs, Start(p)
  PROVE  IInv'
<1> DEFINE job == [Off EXCEPT !.pc = "next", !.job = "start", !.project = ProjectStore,
                             !.store = ProjectStore, !.todo = configured,
                             !.catalog = FoundBy(ProjectStore)]
<1>1. Begins(p, job) /\ prog[p].pc = "off" /\ UNCHANGED <<records, files, installed, hurt, mixed>>
  BY DEF Start
<1>2. ProjectStore \in Stores
  BY DEF ProjectStore, Stores
<1>3. /\ DOMAIN job = DOMAIN Off /\ job.pc = "next" /\ job.job = "start"
      /\ job.project = ProjectStore /\ job.store = ProjectStore
      /\ job.catalog = FoundBy(ProjectStore)
  BY OffIs
<1> HIDE DEF job
<1>4. QED BY <1>1, <1>2, <1>3, BeginsKeeps DEF Resting

\* A command takes a program that is idle.
LEMMA CommandKeeps ==
  ASSUME IInv, NEW p \in Programs, NEW kind, kind # "start", NEW store, NEW todo,
         Command(p, kind, store, todo)
  PROVE  IInv'
<1> DEFINE job == [prog[p] EXCEPT !.pc = "next", !.job = kind, !.store = store, !.todo = todo]
<1>1. /\ prog[p].pc = "idle" /\ store \in {"global", prog[p].project} /\ Begins(p, job)
      /\ UNCHANGED <<records, files, installed, hurt, mixed>>
  BY DEF Command
<1>2. DOMAIN prog[p] = DOMAIN Off /\ prog[p].project \in Stores /\ store \in Stores
  BY <1>1 DEF IInv, ProgramInv, JobOf, Stores
<1>3. /\ DOMAIN job = DOMAIN Off /\ job.pc = "next" /\ job.job = kind
      /\ job.project = prog[p].project /\ job.store = store
  BY <1>2, OffIs
<1> HIDE DEF job
<1>4. QED BY <1>1, <1>2, <1>3, BeginsKeeps DEF Resting

LEMMA CommandsKeep ==
  ASSUME IInv, NEW p \in Programs, NEW store \in Stores,
         \/ \E s \in Sources : Install(p, store, s)
         \/ \E n \in Names : UpdateOne(p, store, n)
         \/ UpdateAll(p, store)
  PROVE  IInv'
<1>1. ASSUME NEW kind \in {"install", "update", "all"}, NEW todo, Command(p, kind, store, todo)
      PROVE  IInv'
  BY <1>1, CommandKeeps
<1>2. QED BY <1>1 DEF Install, UpdateOne, UpdateAll

\* A removal reads the records as it begins.
LEMMA RemovePackageKeeps ==
  ASSUME IInv, NEW p \in Programs, NEW store, NEW n, RemovePackage(p, store, n)
  PROVE  IInv'
<1> DEFINE job == [prog[p] EXCEPT !.pc = "listed", !.job = "remove", !.store = store,
                                  !.peek = Manifest("package", n, 0), !.read = records[store]]
<1>1. /\ prog[p].pc = "idle" /\ store \in {"global", prog[p].project} /\ Begins(p, job)
      /\ mixed' = (mixed \/ \E q \in Programs \ {p} : Works(q) /\ prog[q].store = store)
      /\ UNCHANGED <<records, files, installed, hurt>>
  BY DEF RemovePackage
<1>2. DOMAIN prog[p] = DOMAIN Off /\ prog[p].project \in Stores /\ store \in Stores
  BY <1>1 DEF IInv, ProgramInv, JobOf, Stores
<1>3. /\ DOMAIN job = DOMAIN Off /\ job.pc = "listed" /\ job.job = "remove"
      /\ job.project = prog[p].project /\ job.store = store /\ job.read = records[store]
  BY <1>2, OffIs
<1> HIDE DEF job
<1>4. QED BY <1>1, <1>2, <1>3, BeginsKeeps DEF Resting

\* When a source changes no program with a job is alone any more.
LEMMA ChangeKeeps ==
  ASSUME IInv, NEW s, NEW kind, NEW n, Change(s, kind, n)
  PROVE  IInv'
<1>1. /\ UNCHANGED <<records, files, installed, hurt, mixed>> /\ DOMAIN prog' = Programs
      /\ \A q \in Programs :
           prog'[q] = IF Resting(q) THEN prog[q] ELSE [prog[q] EXCEPT !.alone = FALSE]
  BY DEF Change, Resting
<1>2. \A q \in Programs :
        /\ ProgramInv(q)' /\ prog'[q].pc = prog[q].pc /\ prog'[q].store = prog[q].store
        /\ Focus(q)' = Focus(q) /\ (prog'[q].alone => prog[q].alone)
  <2> TAKE q \in Programs
  <2>1. ProgramInv(q)
    BY DEF IInv
  <2>2. QED BY <1>1, <2>1, Disturbed
<1>3. AloneInv'
  BY <1>1, <1>2 DEF IInv, AloneInv, Works, Resting
<1>4. \A store \in Stores : StoreInv(store)'
  BY <1>1, <1>2, StoreUndisturbed DEF IInv
<1>5. QED BY <1>1, <1>2, <1>3, <1>4 DEF IInv

-----------------------------------------------------------------------------
(* The theorem.                                                            *)

LEMMA InitIs ==
  Init => IInv
<1> SUFFICES ASSUME Init PROVE IInv
  OBVIOUS
<1>1. /\ records = [s \in Stores |-> <<>>] /\ files = [s \in Stores |-> <<>>]
      /\ prog = [p \in Programs |-> Off] /\ installed = {} /\ ~mixed
  BY DEF Init
<1>2. \A p \in Programs : prog[p].pc = "off" /\ prog[p].job = "" /\ DOMAIN prog[p] = DOMAIN Off
  BY <1>1, OffIs
<1>3. AloneInv
  BY <1>2 DEF AloneInv, Works, Resting
<1>4. \A p \in Programs : ProgramInv(p)
  BY <1>2 DEF ProgramInv, JobOf, ReadOf, StageOf, CatalogOf, Resting
<1>5. \A s \in Stores : DOMAIN records[s] = {} /\ DOMAIN files[s] = {}
  BY <1>1
<1>6. \A s \in Stores : StoreInv(s)
  BY <1>1, <1>5 DEF StoreInv, PlacesOf, ListedIn
<1>7. QED BY <1>1, <1>3, <1>4, <1>6 DEF IInv

LEMMA NextKeeps ==
  IInv /\ [Next]_vars => IInv'
<1> SUFFICES ASSUME IInv, [Next]_vars PROVE IInv'
  OBVIOUS
<1>1. ASSUME NEW p \in Programs, Skip(p) \/ PeekFails(p) \/ Done(p) \/ Quit(p) PROVE IInv'
  BY <1>1, QuietSteps
<1>2. ASSUME NEW p \in Programs, Start(p) \/ Peek(p) \/ Clear(p) \/ Copy(p) PROVE IInv'
  BY <1>2, StartKeeps, PeekKeeps, ClearKeeps, CopyKeeps
<1>3. ASSUME NEW p \in Programs, CopyFails(p) \/ Killed(p) PROVE IInv'
  BY <1>3, CutOffKeeps
<1>4. ASSUME NEW p \in Programs, ReadState(p) \/ WriteState(p) PROVE IInv'
  BY <1>4, ReadKeeps, WriteKeeps
<1>5. ASSUME NEW p \in Programs, RemoveRecord(p) \/ RemoveFiles(p) PROVE IInv'
  BY <1>5, RemoveRecordKeeps, RemoveFilesKeeps
<1>6. ASSUME NEW p \in Programs, NEW store \in Stores,
             \/ \E s \in Sources : Install(p, store, s)
             \/ \E n \in Names : UpdateOne(p, store, n) \/ RemovePackage(p, store, n)
             \/ UpdateAll(p, store)
      PROVE  IInv'
  BY <1>6, CommandsKeep, RemovePackageKeeps
<1>7. ASSUME NEW s, NEW kind, NEW n, Change(s, kind, n) PROVE IInv'
  BY <1>7, ChangeKeeps
<1>8. CASE UNCHANGED vars
  <2>1. UNCHANGED <<records, files, prog, installed, hurt, mixed>>
    BY <1>8 DEF vars
  <2>2. AloneInv'
    BY <2>1 DEF IInv, AloneInv, Works, Resting
  <2>3. \A p \in Programs : ProgramInv(p)'
    BY <2>1, Disturbed DEF IInv
  <2>4. \A store \in Stores : StoreInv(store)'
    BY <2>1, StoreUndisturbed DEF IInv, Focus
  <2>5. QED BY <2>1, <2>2, <2>3, <2>4 DEF IInv
<1>9. QED BY <1>1, <1>2, <1>3, <1>4, <1>5, <1>6, <1>7, <1>8 DEF Next

LEMMA IInvKeepsStores ==
  IInv => StoresKept
<1> SUFFICES ASSUME IInv PROVE StoresKept
  OBVIOUS
<1>1. RecordsMatchFiles
  <2>1. ASSUME ~mixed, NEW store \in Stores,
               \A p \in Programs : Works(p) => prog[p].store # store,
               NEW n \in DOMAIN records[store] \cup DOMAIN files[store]
        PROVE  Matches(store, n)
    <3>1. ASSUME NEW p \in Programs, prog[p].pc \in Halfway, Focus(p) = <<store, n>> PROVE FALSE
      BY <2>1, <3>1 DEF Focus, Halfway, Works
    <3>2. QED BY <2>1, <3>1 DEF IInv, StoreInv, PlacesOf
  <2>2. QED BY <2>1 DEF RecordsMatchFiles, Matches
<1>2. InstalledIsListed
  BY DEF IInv, StoreInv, ListedIn, InstalledIsListed
<1>3. CatalogIsWhole
  <2>1. ASSUME NEW p \in Programs, prog[p].pc = "next", prog[p].job = "start", prog[p].alone,
               NEW store \in {"global", prog[p].project}, NEW one \in Found(store)
        PROVE  one \in prog[p].catalog \cup prog[p].fetched
    <3>1. PICK n \in DOMAIN records[store] \cap DOMAIN files[store] :
            Loads(files[store][n]) /\ one = <<store, n>>
      BY FoundIs
    <3>2. CatalogOf(p)
      BY DEF IInv, ProgramInv
    <3>3. QED BY <2>1, <3>1, <3>2 DEF CatalogOf, Halfway
  <2>2. QED BY <2>1 DEF CatalogIsWhole, FoundBy
<1>4. QED BY <1>1, <1>2, <1>3 DEF StoresKept

\* What Manager.Install, Update and Remove leave behind, whatever fails and wherever a
\* program is killed: the directories of a store are those that its state.json lists, which
\* has what was said to be installed, unless two programs changed that store at the same
\* time; and the start of a program that is alone gives the extensions what it gave
\* discovery before, and what it installed in between.
THEOREM StoresAreKept == Spec => []StoresKept
<1>1. QED BY InitIs, NextKeeps, IInvKeepsStores, PTL DEF Spec

-----------------------------------------------------------------------------
(* What jobs bring about: the inductive invariant, on top of the one above. *)

\* The stages from the manifest of a package to its record.
Installing == {"peeked", "cleared", "copied", "read"}

\* What a program still has to install, and what it installs, are sources; nothing changes
\* the one of a program that is alone.
TodoOf(p) ==
  /\ prog[p].todo \in Seq(Sources)
  /\ IsFiniteSet(DOMAIN prog[p].read)
  /\ \A n \in DOMAIN prog[p].read : prog[p].read[n].source \in Sources
  /\ prog[p].pc \in Installing =>
       /\ prog[p].source \in Sources
       /\ prog[p].alone => prog[p].peek = sources[prog[p].source]

\* As long as no source changed, a package has the name of its source.
NamesOf(p) ==
  changes = 0 =>
    /\ \A n \in DOMAIN prog[p].read : sources[prog[p].read[n].source].name = n
    /\ prog[p].pc \in Installing => sources[prog[p].source].name = prog[p].peek.name

RecordsOf(store) ==
  /\ IsFiniteSet(DOMAIN records[store])
  /\ \A n \in DOMAIN records[store] :
       /\ records[store][n].source \in Sources
       /\ changes = 0 => sources[records[store][n].source].name = n

\* No two of the configured sources have one name, and none has changed.
Distinct == IsInjective([i \in DOMAIN configured |-> sources[configured[i]].name]) /\ changes = 0

\* A start that is alone has recorded what it no longer has to install.
StartOf(p) ==
  prog[p].job = "start" /\ prog[p].alone /\ Distinct =>
    /\ ToSet(prog[p].todo) \subseteq ToSet(configured)
    /\ prog[p].pc \in Installing => prog[p].source \in ToSet(configured)
    /\ \A s \in ToSet(configured) :
         \/ s \in ToSet(prog[p].todo)
         \/ prog[p].pc \in Installing /\ s = prog[p].source
         \/ \E n \in DOMAIN records[prog[p].store] : records[prog[p].store][n].source = s

\* A package that was recorded under the name of its source is what the source is, ...
Current(store, n) ==
  LET s == records[store][n].source
  IN sources[s].name = n => files[store][n].version = sources[s].version

\* ... or an update of all packages that is alone has still to install that source, or does.
UpdateOf(p) ==
  prog[p].job = "all" /\ prog[p].alone =>
    LET store == prog[p].store
        name == prog[p].peek.name
    IN /\ prog[p].pc \in {"copied", "read"} =>
            name \in DOMAIN files[store] /\ files[store][name] = prog[p].peek
       /\ \A n \in DOMAIN records[store] \cap DOMAIN files[store] :
            \/ Current(store, n)
            \/ records[store][n].source \in ToSet(prog[p].todo)
            \/ prog[p].pc \in Installing /\ n = name

JobInv(p) == TodoOf(p) /\ NamesOf(p) /\ StartOf(p) /\ UpdateOf(p)

JobsInv ==
  /\ changes \in Nat /\ configured \in Configs /\ DOMAIN sources = Sources
  /\ \A p \in Programs : prog[p].pc \in {"off", "idle"} => prog[p].job = ""
  /\ \A p \in Programs : JobInv(p)
  /\ \A store \in Stores : RecordsOf(store)

-----------------------------------------------------------------------------
(* Sequences of sources.                                                   *)

LEMMA ToSetIs ==
  ASSUME NEW s
  PROVE  \A x : x \in ToSet(s) <=> \E i \in DOMAIN s : s[i] = x
BY DEF ToSet

LEMMA HeadAndTail ==
  ASSUME NEW T, NEW s \in Seq(T), s # <<>>
  PROVE  /\ Head(s) \in T /\ Tail(s) \in Seq(T) /\ ToSet(Tail(s)) \subseteq ToSet(s)
         /\ Head(s) \in ToSet(s)
         /\ \A x \in ToSet(s) : x = Head(s) \/ x \in ToSet(Tail(s))
<1>1. /\ Head(s) \in T /\ Tail(s) \in Seq(T) /\ Len(Tail(s)) = Len(s) - 1
      /\ \A i \in 1..Len(Tail(s)) : Tail(s)[i] = s[i + 1]
  BY HeadTailProperties
<1>2. /\ Len(s) \in Nat /\ Len(s) >= 1 /\ Head(s) = s[1]
      /\ DOMAIN s = 1..Len(s) /\ DOMAIN Tail(s) = 1..Len(Tail(s))
  BY <1>1
<1>3. \A i \in DOMAIN Tail(s) : i + 1 \in DOMAIN s /\ Tail(s)[i] = s[i + 1]
  BY <1>1, <1>2
<1>4. ASSUME NEW i \in DOMAIN s PROVE s[i] = Head(s) \/ s[i] \in ToSet(Tail(s))
  <2>1. CASE i = 1
    BY <1>2, <2>1
  <2>2. CASE i # 1
    <3>1. i - 1 \in DOMAIN Tail(s)
      BY <1>1, <1>2, <2>2
    <3>2. Tail(s)[i - 1] = s[i]
      BY <1>2, <1>3, <3>1
    <3>3. QED BY <3>1, <3>2, ToSetIs
  <2>3. QED BY <2>1, <2>2
<1>5. 1 \in DOMAIN s
  BY <1>2
<1>6. Head(s) \in ToSet(s)
  BY <1>2, <1>5, ToSetIs
<1>7. ToSet(Tail(s)) \subseteq ToSet(s)
  <2> DEFINE t == Tail(s)
  <2>1. \A i \in DOMAIN t : i + 1 \in DOMAIN s /\ t[i] = s[i + 1]
    BY <1>3
  <2> HIDE DEF t
  <2>2. ASSUME NEW x \in ToSet(t) PROVE x \in ToSet(s)
    <3>1. PICK i \in DOMAIN t : t[i] = x
      BY ToSetIs
    <3>2. QED BY <2>1, <3>1, ToSetIs
  <2>3. QED BY <2>2 DEF t
<1>8. \A x \in ToSet(s) : x = Head(s) \/ x \in ToSet(Tail(s))
  BY <1>4, ToSetIs
<1>9. QED BY <1>1, <1>6, <1>7, <1>8

\* An order of all names misses none.
LEMMA OrderMissesNone ==
  ASSUME NEW T, IsFiniteSet(T), NEW order \in SetToSeqs(T)
  PROVE  /\ DOMAIN order = 1..Cardinality(T) /\ Cardinality(T) \in Nat
         /\ order \in [1..Cardinality(T) -> T]
         /\ \A x \in T : \E i \in DOMAIN order : order[i] = x
<1> DEFINE D == 1..Cardinality(T)
<1>1. Cardinality(T) \in Nat
  BY FS_CardinalityType
<1>2. order \in [D -> T] /\ \A i, j \in D : i # j => order[i] # order[j]
  BY DEF SetToSeqs
<1>3. IsFiniteSet(D) /\ Cardinality(D) = Cardinality(T)
  BY <1>1, FS_Interval
<1>4. order \in Injection(D, T)
  BY <1>2, Fun_IsInj
<1> HIDE DEF D
<1>5. order \in Surjection(D, T)
  BY <1>3, <1>4, FS_Injection
<1>6. \A x \in T : \E i \in D : order[i] = x
  BY <1>5, Fun_SurjectionProperties
<1>7. QED BY <1>1, <1>2, <1>6 DEF D

-----------------------------------------------------------------------------
(* The frame of a step.                                                    *)

LEMMA JobIs ==
  ASSUME JobsInv, NEW p \in Programs
  PROVE  /\ TodoOf(p) /\ NamesOf(p) /\ StartOf(p) /\ UpdateOf(p)
         /\ changes \in Nat /\ configured \in Seq(Sources)
         /\ prog[p].pc \in {"off", "idle"} => prog[p].job = ""
<1>1. configured \in Seq(Sources)
  BY PackagesAssumption DEF JobsInv, Sources
<1>2. QED BY <1>1 DEF JobsInv, JobInv

\* A program that has no job has nothing to install.
LEMMA Nothings ==
  /\ \A T : <<>> \in Seq(T)
  /\ IsFiniteSet(DOMAIN <<>>) /\ \A n : n \notin DOMAIN <<>>
<1>1. DOMAIN <<>> = {}
  OBVIOUS
<1>2. IsFiniteSet({})
  BY FS_EmptySet
<1>3. QED BY <1>1, <1>2

LEMMA OffHas ==
  Off.todo = <<>> /\ Off.read = <<>> /\ Off.job = "" /\ Off.pc = "off"
BY DEF Off

LEMMA EndsJobs ==
  ASSUME NEW p \in Programs,
         prog'[p] \in {Off, [Off EXCEPT !.pc = "idle", !.project = prog[p].project]}
  PROVE  JobInv(p)' /\ prog'[p].job = "" /\ prog'[p].pc \in {"off", "idle"}
<1>1. /\ prog'[p].todo = <<>> /\ prog'[p].read = <<>> /\ prog'[p].job = ""
      /\ prog'[p].pc \in {"off", "idle"}
  BY OffHas, OffIs
<1>2. prog'[p].pc \notin Installing
  BY <1>1 DEF Installing
<1>3. TodoOf(p)'
  BY <1>1, <1>2, Nothings DEF TodoOf
<1>4. NamesOf(p)'
  BY <1>1, <1>2, Nothings DEF NamesOf
<1>5. StartOf(p)' /\ UpdateOf(p)'
  BY <1>1 DEF StartOf, UpdateOf
<1>6. QED BY <1>1, <1>3, <1>4, <1>5 DEF JobInv

\* What others do: while a program that is alone has a job they rest, and end its being alone
\* when they begin.
LEMMA OtherJobs ==
  ASSUME IInv, JobsInv, NEW p \in Programs, NEW q \in Programs \ {p},
         UNCHANGED <<configured, sources, changes>>,
         prog'[q] = prog[q] \/ (~Resting(q) /\ prog'[q] = [prog[q] EXCEPT !.alone = FALSE]),
         Resting(p) => UNCHANGED <<records, files>>
  PROVE  JobInv(q)' /\ prog'[q].pc = prog[q].pc /\ prog'[q].job = prog[q].job
<1>1. /\ TodoOf(q) /\ NamesOf(q) /\ StartOf(q) /\ UpdateOf(q)
      /\ prog[q].pc \in {"off", "idle"} => prog[q].job = ""
  BY JobIs
<1>2. CASE prog'[q] = prog[q]
  <2>1. TodoOf(q)' /\ NamesOf(q)'
    BY <1>1, <1>2 DEF TodoOf, NamesOf
  <2>2. CASE prog[q].alone /\ ~Resting(q)
    <3>1. UNCHANGED <<records, files>>
      BY <2>2 DEF IInv, AloneInv
    <3>2. Distinct' = Distinct /\ \A store, n : Current(store, n)' = Current(store, n)
      BY <3>1 DEF Current, Distinct
    <3>3. StartOf(q)'
      BY <1>1, <1>2, <3>1, <3>2 DEF StartOf
    <3>4. UpdateOf(q)'
      BY <1>1, <1>2, <3>1, <3>2 DEF UpdateOf
    <3>5. QED BY <1>2, <2>1, <3>3, <3>4 DEF JobInv
  <2>3. CASE ~(prog[q].alone /\ ~Resting(q))
    <3>1. StartOf(q)' /\ UpdateOf(q)'
      BY <1>1, <1>2, <2>3 DEF StartOf, UpdateOf, Resting
    <3>2. QED BY <1>2, <2>1, <3>1 DEF JobInv
  <2>4. QED BY <2>2, <2>3
<1>3. CASE prog'[q] = [prog[q] EXCEPT !.alone = FALSE]
  <2>1. DOMAIN prog[q] = DOMAIN Off
    BY DEF IInv, ProgramInv, JobOf
  <2>2. /\ prog'[q].pc = prog[q].pc /\ prog'[q].job = prog[q].job /\ ~prog'[q].alone
        /\ prog'[q].todo = prog[q].todo /\ prog'[q].read = prog[q].read
        /\ prog'[q].source = prog[q].source /\ prog'[q].peek = prog[q].peek
    BY <1>3, <2>1, OffIs
  <2>3. TodoOf(q)' /\ NamesOf(q)'
    BY <1>1, <2>2 DEF TodoOf, NamesOf
  <2>4. StartOf(q)' /\ UpdateOf(q)'
    BY <2>2 DEF StartOf, UpdateOf
  <2>5. QED BY <2>2, <2>3, <2>4 DEF JobInv
<1>4. QED BY <1>2, <1>3

LEMMA StepJobs ==
  ASSUME IInv, JobsInv, NEW p \in Programs, UNCHANGED <<configured, sources, changes>>,
         \A q \in Programs \ {p} :
           prog'[q] = prog[q] \/ (~Resting(q) /\ prog'[q] = [prog[q] EXCEPT !.alone = FALSE]),
         Resting(p) => UNCHANGED <<records, files>>,
         JobInv(p)', prog'[p].pc \in {"off", "idle"} => prog'[p].job = "",
         \A store \in Stores : records'[store] = records[store] \/ RecordsOf(store)'
  PROVE  JobsInv'
<1>1. \A q \in Programs \ {p} : JobInv(q)' /\ prog'[q].pc = prog[q].pc /\ prog'[q].job = prog[q].job
  BY OtherJobs
<1>2. ASSUME NEW store \in Stores PROVE RecordsOf(store)'
  <2>1. RecordsOf(store)
    BY DEF JobsInv
  <2>2. CASE records'[store] = records[store]
    BY <2>1, <2>2 DEF RecordsOf
  <2>3. QED BY <2>2
<1>3. QED BY <1>1, <1>2 DEF JobsInv

\* What a step of a program changes in it, and not in the others.
LEMMA OneChanges ==
  ASSUME IInv, NEW p \in Programs, NEW one, prog' = [prog EXCEPT ![p] = one]
  PROVE  prog'[p] = one /\ \A q \in Programs \ {p} : prog'[q] = prog[q]
BY DEF IInv

\* Steps that end a job, well or not.
LEMMA EndingJobs ==
  ASSUME IInv, JobsInv, NEW p \in Programs,
         \/ PeekFails(p) \/ Done(p) \/ Quit(p) \/ Killed(p) \/ CopyFails(p) \/ RemoveFiles(p)
         \/ Copy(p) /\ ~Loads(sources[prog[p].source])
  PROVE  JobsInv'
<1>1. UNCHANGED <<configured, sources, changes, records>>
  BY DEF PeekFails, Done, Quit, Killed, CopyFails, RemoveFiles, Copy
<1>2. \/ prog' = Failed(p) \/ prog' = [prog EXCEPT ![p] = Off]
      \/ prog' = [prog EXCEPT ![p] = [Off EXCEPT !.pc = "idle", !.project = prog[p].project]]
  BY DEF PeekFails, Done, Quit, Killed, CopyFails, RemoveFiles, Copy
<1>3. /\ prog'[p] \in {Off, [Off EXCEPT !.pc = "idle", !.project = prog[p].project]}
      /\ \A q \in Programs \ {p} : prog'[q] = prog[q]
  BY <1>2, OneChanges DEF Failed
<1>4. JobInv(p)' /\ prog'[p].job = ""
  BY <1>3, EndsJobs
<1>5. Resting(p) => UNCHANGED files
  BY DEF PeekFails, Done, Quit, Killed, CopyFails, RemoveFiles, Copy, Resting
<1>6. QED BY <1>1, <1>3, <1>4, <1>5, StepJobs

-----------------------------------------------------------------------------
(* Steps that begin a job.                                                 *)

\* The others of a program that begins one.
LEMMA BeginsDisturbs ==
  ASSUME NEW p \in Programs, NEW job, DOMAIN job = DOMAIN Off, Begins(p, job)
  PROVE  /\ \A q \in Programs \ {p} :
              prog'[q] = prog[q] \/ (~Resting(q) /\ prog'[q] = [prog[q] EXCEPT !.alone = FALSE])
         /\ prog'[p].pc = job.pc /\ prog'[p].job = job.job /\ prog'[p].store = job.store
         /\ prog'[p].todo = job.todo /\ prog'[p].read = job.read
<1>1. /\ prog'[p] = [job EXCEPT !.alone = \A r \in Programs \ {p} : Resting(r)]
      /\ \A q \in Programs \ {p} :
           prog'[q] = IF Resting(q) THEN prog[q] ELSE [prog[q] EXCEPT !.alone = FALSE]
  BY DEF Begins, Resting
<1>2. QED BY <1>1, OffIs

LEMMA StartJobs ==
  ASSUME IInv, JobsInv, NEW p \in Programs, Start(p)
  PROVE  JobsInv'
<1> DEFINE job == [Off EXCEPT !.pc = "next", !.job = "start", !.project = ProjectStore,
                             !.store = ProjectStore, !.todo = configured,
                             !.catalog = FoundBy(ProjectStore)]
<1>1. Begins(p, job) /\ UNCHANGED <<configured, sources, changes, records, files>>
  BY DEF Start
<1>2. /\ DOMAIN job = DOMAIN Off /\ job.pc = "next" /\ job.job = "start"
      /\ job.todo = configured /\ job.read = <<>>
  BY OffIs, OffHas
<1> HIDE DEF job
<1>3. /\ prog'[p].pc = "next" /\ prog'[p].job = "start" /\ prog'[p].todo = configured
      /\ prog'[p].read = <<>> /\ prog'[p].pc \notin Installing
  BY <1>1, <1>2, OffIs, BeginsDisturbs DEF Installing
<1>4. configured \in Seq(Sources)
  BY JobIs
<1>5. TodoOf(p)'
  BY <1>1, <1>3, <1>4, Nothings DEF TodoOf
<1>6. NamesOf(p)'
  BY <1>3, Nothings DEF NamesOf
<1>7. StartOf(p)' /\ UpdateOf(p)'
  BY <1>1, <1>3 DEF StartOf, UpdateOf
<1>8. JobInv(p)'
  BY <1>5, <1>6, <1>7 DEF JobInv
<1>9. QED BY <1>1, <1>2, <1>3, <1>8, BeginsDisturbs, StepJobs

\* A command has its sources to install, an update of all packages those of all records.
LEMMA CommandJobs ==
  ASSUME IInv, JobsInv, NEW p \in Programs, NEW kind \in {"install", "update", "all"},
         NEW store, NEW todo \in Seq(Sources), Command(p, kind, store, todo),
         kind = "all" => \A n \in DOMAIN records[store] : records[store][n].source \in ToSet(todo)
  PROVE  JobsInv'
<1> DEFINE job == [prog[p] EXCEPT !.pc = "next", !.job = kind, !.store = store, !.todo = todo]
<1>1. /\ Begins(p, job) /\ UNCHANGED <<configured, sources, changes, records, files>>
      /\ DOMAIN prog[p] = DOMAIN Off /\ TodoOf(p) /\ NamesOf(p)
  BY JobIs DEF Command, IInv, ProgramInv, JobOf
<1>2. /\ DOMAIN job = DOMAIN Off /\ job.pc = "next" /\ job.job = kind /\ job.store = store
      /\ job.todo = todo /\ job.read = prog[p].read
  BY <1>1, OffIs
<1> HIDE DEF job
<1>3. /\ prog'[p].pc = "next" /\ prog'[p].job = kind /\ prog'[p].store = store
      /\ prog'[p].todo = todo /\ prog'[p].read = prog[p].read /\ prog'[p].pc \notin Installing
  BY <1>1, <1>2, OffIs, BeginsDisturbs DEF Installing
<1>4. TodoOf(p)' /\ NamesOf(p)'
  BY <1>1, <1>3 DEF TodoOf, NamesOf
<1>5. StartOf(p)'
  BY <1>3 DEF StartOf
<1>6. UpdateOf(p)'
  BY <1>1, <1>3 DEF UpdateOf
<1>7. JobInv(p)'
  BY <1>4, <1>5, <1>6 DEF JobInv
<1>8. QED BY <1>1, <1>2, <1>3, <1>7, BeginsDisturbs, StepJobs

LEMMA CommandsJobs ==
  ASSUME IInv, JobsInv, NEW p \in Programs, NEW store \in Stores,
         \/ \E s \in Sources : Install(p, store, s)
         \/ \E n \in Names : UpdateOne(p, store, n)
         \/ UpdateAll(p, store)
  PROVE  JobsInv'
<1>0. RecordsOf(store)
  BY DEF JobsInv
<1>1. ASSUME NEW s \in Sources, Install(p, store, s) PROVE JobsInv'
  <2>1. <<s>> \in Seq(Sources)
    OBVIOUS
  <2>2. QED BY <1>1, <2>1, CommandJobs DEF Install
<1>2. ASSUME NEW n, UpdateOne(p, store, n) PROVE JobsInv'
  <2>1. n \in DOMAIN records[store] /\ Command(p, "update", store, <<records[store][n].source>>)
    BY <1>2 DEF UpdateOne
  <2>2. <<records[store][n].source>> \in Seq(Sources)
    BY <1>0, <2>1 DEF RecordsOf
  <2>3. QED BY <2>1, <2>2, CommandJobs
<1>3. CASE UpdateAll(p, store)
  <2>1. PICK order \in SetToSeqs(DOMAIN records[store]) :
          Command(p, "all", store,
                  <<>> \o [i \in DOMAIN order |-> records[store][order[i]].source])
    BY <1>3 DEF UpdateAll
  <2> DEFINE todo == [i \in DOMAIN order |-> records[store][order[i]].source]
  <2>2. /\ DOMAIN order = 1..Cardinality(DOMAIN records[store])
        /\ Cardinality(DOMAIN records[store]) \in Nat
        /\ order \in [1..Cardinality(DOMAIN records[store]) -> DOMAIN records[store]]
        /\ \A n \in DOMAIN records[store] : \E i \in DOMAIN order : order[i] = n
    BY <1>0, OrderMissesNone DEF RecordsOf
  <2>3. todo \in [1..Cardinality(DOMAIN records[store]) -> Sources]
    BY <1>0, <2>2 DEF RecordsOf
  <2>4. DOMAIN todo = DOMAIN order /\ \A i \in DOMAIN order : todo[i] = records[store][order[i]].source
    OBVIOUS
  <2> HIDE DEF todo
  <2>5. todo \in Seq(Sources)
    BY <2>2, <2>3
  <2>6. <<>> \o todo = todo
    BY <2>5
  <2>7. ASSUME NEW n \in DOMAIN records[store] PROVE records[store][n].source \in ToSet(todo)
    BY <2>2, <2>4, ToSetIs
  <2>8. Command(p, "all", store, todo)
    BY <2>1, <2>6 DEF todo
  <2>9. QED BY <2>5, <2>7, <2>8, CommandJobs
<1>4. QED BY <1>1, <1>2, <1>3

LEMMA RemovePackageJobs ==
  ASSUME IInv, JobsInv, NEW p \in Programs, NEW store \in Stores, NEW n, RemovePackage(p, store, n)
  PROVE  JobsInv'
<1> DEFINE job == [prog[p] EXCEPT !.pc = "listed", !.job = "remove", !.store = store,
                                  !.peek = Manifest("package", n, 0), !.read = records[store]]
<1>1. /\ Begins(p, job) /\ UNCHANGED <<configured, sources, changes, records, files>>
      /\ DOMAIN prog[p] = DOMAIN Off /\ TodoOf(p) /\ RecordsOf(store)
  BY JobIs DEF RemovePackage, IInv, ProgramInv, JobOf, JobsInv
<1>2. /\ DOMAIN job = DOMAIN Off /\ job.pc = "listed" /\ job.job = "remove"
      /\ job.todo = prog[p].todo /\ job.read = records[store]
  BY <1>1, OffIs
<1> HIDE DEF job
<1>3. /\ prog'[p].pc = "listed" /\ prog'[p].job = "remove"
      /\ prog'[p].todo = prog[p].todo /\ prog'[p].read = records[store]
      /\ prog'[p].pc \notin Installing
  BY <1>1, <1>2, OffIs, BeginsDisturbs DEF Installing
<1>4. TodoOf(p)' /\ NamesOf(p)'
  BY <1>1, <1>3 DEF TodoOf, NamesOf, RecordsOf
<1>5. StartOf(p)' /\ UpdateOf(p)'
  BY <1>3 DEF StartOf, UpdateOf
<1>6. JobInv(p)'
  BY <1>4, <1>5 DEF JobInv
<1>7. QED BY <1>1, <1>2, <1>3, <1>6, BeginsDisturbs, StepJobs

-----------------------------------------------------------------------------
(* Steps of a job.                                                         *)

LEMMA SkipJobs ==
  ASSUME IInv, JobsInv, NEW p \in Programs, Skip(p)
  PROVE  JobsInv'
<1>1. /\ prog[p].pc = "next" /\ prog[p].job = "start" /\ prog[p].todo # <<>> /\ IsInstalled(p)
      /\ prog' = [prog EXCEPT ![p].todo = Tail(@)]
      /\ UNCHANGED <<configured, sources, changes, records, files>>
  BY DEF Skip
<1>2. /\ TodoOf(p) /\ NamesOf(p) /\ StartOf(p) /\ DOMAIN prog[p] = DOMAIN Off
      /\ DOMAIN prog = Programs
  BY JobIs DEF IInv, ProgramInv, JobOf
<1>3. /\ prog'[p] = [prog[p] EXCEPT !.todo = Tail(@)]
      /\ \A q \in Programs \ {p} : prog'[q] = prog[q]
  BY <1>1, <1>2
<1>4. /\ prog'[p].todo = Tail(prog[p].todo) /\ prog'[p].pc = "next" /\ prog'[p].job = "start"
      /\ prog'[p].store = prog[p].store /\ prog'[p].read = prog[p].read
      /\ prog'[p].alone = prog[p].alone /\ prog'[p].pc \notin Installing
  BY <1>1, <1>2, <1>3, OffIs DEF Installing
<1>5. /\ Tail(prog[p].todo) \in Seq(Sources) /\ ToSet(Tail(prog[p].todo)) \subseteq ToSet(prog[p].todo)
      /\ \A s \in ToSet(prog[p].todo) : s = Head(prog[p].todo) \/ s \in ToSet(Tail(prog[p].todo))
  BY <1>1, <1>2, HeadAndTail DEF TodoOf
<1>6. TodoOf(p)' /\ NamesOf(p)'
  BY <1>1, <1>2, <1>4, <1>5 DEF TodoOf, NamesOf
<1>7. StartOf(p)'
  <2>1. Distinct' = Distinct
    BY <1>1 DEF Distinct
  <2>2. \E n \in DOMAIN records[prog[p].store] :
          records[prog[p].store][n].source = Head(prog[p].todo)
    BY <1>1 DEF IsInstalled
  <2>3. prog[p].pc \notin Installing
    BY <1>1 DEF Installing
  <2>4. QED BY <1>1, <1>2, <1>4, <1>5, <2>1, <2>2, <2>3 DEF StartOf
<1>8. UpdateOf(p)'
  BY <1>4 DEF UpdateOf
<1>9. JobInv(p)'
  BY <1>6, <1>7, <1>8 DEF JobInv
<1>10. QED BY <1>1, <1>3, <1>4, <1>9, StepJobs

LEMMA PeekJobs ==
  ASSUME IInv, JobsInv, NEW p \in Programs, Peek(p)
  PROVE  JobsInv'
<1>1. PICK s : /\ s = Head(prog[p].todo)
               /\ prog' = [prog EXCEPT ![p].pc = "peeked", ![p].source = s, ![p].peek = sources[s],
                                       ![p].todo = Tail(@)]
  BY DEF Peek
<1>2. /\ prog[p].pc = "next" /\ prog[p].todo # <<>> /\ prog[p].pc \notin Installing
      /\ UNCHANGED <<configured, sources, changes, records, files>>
  BY DEF Peek, Installing
<1>3. /\ TodoOf(p) /\ NamesOf(p) /\ StartOf(p) /\ UpdateOf(p) /\ DOMAIN prog[p] = DOMAIN Off
      /\ DOMAIN prog = Programs
  BY JobIs DEF IInv, ProgramInv, JobOf
<1>4. /\ prog'[p] = [prog[p] EXCEPT !.pc = "peeked", !.source = s, !.peek = sources[s],
                                    !.todo = Tail(@)]
      /\ \A q \in Programs \ {p} : prog'[q] = prog[q]
  BY <1>1, <1>3
<1>5. /\ prog'[p].todo = Tail(prog[p].todo) /\ prog'[p].pc = "peeked" /\ prog'[p].source = s
      /\ prog'[p].peek = sources[s] /\ prog'[p].job = prog[p].job
      /\ prog'[p].store = prog[p].store /\ prog'[p].read = prog[p].read
      /\ prog'[p].alone = prog[p].alone /\ prog'[p].pc \in Installing
  BY <1>2, <1>3, <1>4, OffIs DEF Installing
<1>6. /\ Tail(prog[p].todo) \in Seq(Sources) /\ ToSet(Tail(prog[p].todo)) \subseteq ToSet(prog[p].todo)
      /\ \A x \in ToSet(prog[p].todo) : x = s \/ x \in ToSet(Tail(prog[p].todo))
      /\ s \in Sources /\ s \in ToSet(prog[p].todo)
  BY <1>1, <1>2, <1>3, HeadAndTail DEF TodoOf
<1>7. TodoOf(p)' /\ NamesOf(p)'
  <2>1. TodoOf(p)'
    BY <1>2, <1>3, <1>5, <1>6 DEF TodoOf
  <2>2. NamesOf(p)'
    BY <1>2, <1>3, <1>5 DEF NamesOf
  <2>3. QED BY <2>1, <2>2
<1>8. StartOf(p)'
  <2>1. Distinct' = Distinct
    BY <1>2 DEF Distinct
  <2>2. QED BY <1>2, <1>3, <1>5, <1>6, <2>1 DEF StartOf
<1>9. UpdateOf(p)'
  <2>1. SUFFICES ASSUME prog[p].job = "all", prog[p].alone,
                        NEW n \in DOMAIN records[prog[p].store] \cap DOMAIN files[prog[p].store]
                 PROVE  \/ Current(prog[p].store, n)'
                        \/ records[prog[p].store][n].source \in ToSet(Tail(prog[p].todo))
                        \/ n = sources[s].name
    BY <1>2, <1>5 DEF UpdateOf
  <2>2. Current(prog[p].store, n)' = Current(prog[p].store, n)
    BY <1>2, <1>5 DEF Current
  <2>3. \/ Current(prog[p].store, n)
        \/ records[prog[p].store][n].source \in ToSet(prog[p].todo)
    BY <1>2, <1>3, <2>1 DEF UpdateOf
  <2>4. CASE records[prog[p].store][n].source = s
    BY <2>2, <2>4 DEF Current
  <2>5. QED BY <1>6, <2>2, <2>3, <2>4
<1>10. JobInv(p)'
  BY <1>7, <1>8, <1>9 DEF JobInv
<1>11. QED BY <1>2, <1>4, <1>5, <1>10, StepJobs

\* A step of an installation that leaves the records, and in the files all but the place of
\* the package.
LEMMA InstallingJobs ==
  ASSUME IInv, JobsInv, NEW p \in Programs, prog[p].pc \in Installing, NEW pc \in Installing,
         UNCHANGED <<configured, sources, changes, records>>, Kept(p), prog'[p].pc = pc,
         prog'[p].todo = prog[p].todo, prog'[p].source = prog[p].source,
         prog'[p].peek = prog[p].peek,
         prog'[p].read \in {prog[p].read, records[prog[p].store]},
         prog[p].alone =>
           \A m : m # prog[p].peek.name /\ m \in DOMAIN files'[prog[p].store] =>
             /\ m \in DOMAIN files[prog[p].store]
             /\ files'[prog[p].store][m] = files[prog[p].store][m],
         pc \in {"copied", "read"} /\ prog[p].alone /\ prog[p].job = "all" =>
           /\ prog[p].peek.name \in DOMAIN files'[prog[p].store]
           /\ files'[prog[p].store][prog[p].peek.name] = prog[p].peek
  PROVE  JobsInv'
<1>1. /\ TodoOf(p) /\ NamesOf(p) /\ StartOf(p) /\ UpdateOf(p)
      /\ prog'[p].job = prog[p].job /\ prog'[p].alone = prog[p].alone
      /\ prog'[p].store = prog[p].store /\ \A q \in Programs \ {p} : prog'[q] = prog[q]
  BY JobIs DEF Kept
<1>2. ~Resting(p)
  BY DEF Installing, Resting
<1>3. RecordsOf(prog[p].store)
  BY <1>2, WorkerIs DEF JobsInv
<1>4. TodoOf(p)'
  BY <1>1, <1>3 DEF TodoOf, RecordsOf
<1>5. NamesOf(p)'
  BY <1>1, <1>3 DEF NamesOf, RecordsOf
<1>6. StartOf(p)'
  <2>1. Distinct' = Distinct
    BY DEF Distinct
  <2>2. QED BY <1>1, <2>1 DEF StartOf
<1>7. UpdateOf(p)'
  <2>1. SUFFICES ASSUME prog[p].job = "all", prog[p].alone,
                        NEW n \in DOMAIN records[prog[p].store] \cap DOMAIN files'[prog[p].store],
                        n # prog[p].peek.name
                 PROVE  \/ Current(prog[p].store, n)'
                        \/ records[prog[p].store][n].source \in ToSet(prog[p].todo)
    BY <1>1 DEF UpdateOf
  <2>2. n \in DOMAIN files[prog[p].store] /\ files'[prog[p].store][n] = files[prog[p].store][n]
    BY <2>1
  <2>3. Current(prog[p].store, n)' = Current(prog[p].store, n)
    BY <1>1, <2>2 DEF Current
  <2>4. QED BY <1>1, <2>1, <2>2, <2>3 DEF UpdateOf
<1>8. JobInv(p)'
  BY <1>4, <1>5, <1>6, <1>7 DEF JobInv
<1>9. QED BY <1>1, <1>2, <1>8, StepJobs DEF Installing

LEMMA ClearJobs ==
  ASSUME IInv, JobsInv, NEW p \in Programs, Clear(p)
  PROVE  JobsInv'
<1>1. /\ prog[p].pc = "peeked" /\ UNCHANGED <<configured, sources, changes, records>>
      /\ files' = [files EXCEPT ![prog[p].store] = Without(@, prog[p].peek.name)]
  BY DEF Clear
<1>2. ~Resting(p)
  BY <1>1 DEF Resting
<1>3. /\ Kept(p) /\ prog'[p].pc = "cleared" /\ prog'[p].peek = prog[p].peek
      /\ prog'[p].todo = prog[p].todo /\ prog'[p].source = prog[p].source
      /\ prog'[p].read = prog[p].read
  BY <1>2, WorkerIs, OffIs DEF Clear, Kept
<1>4. files'[prog[p].store] = Without(files[prog[p].store], prog[p].peek.name)
  BY <1>1, <1>2, WorkerIs
<1>5. \A m \in DOMAIN files'[prog[p].store] :
        m \in DOMAIN files[prog[p].store] /\ files'[prog[p].store][m] = files[prog[p].store][m]
  BY <1>4 DEF Without
<1>6. "cleared" \in Installing /\ prog[p].pc \in Installing
  BY <1>1 DEF Installing
<1>7. QED BY <1>1, <1>3, <1>5, <1>6, InstallingJobs

LEMMA CopyJobs ==
  ASSUME IInv, JobsInv, NEW p \in Programs, Copy(p)
  PROVE  JobsInv'
<1> DEFINE now == sources[prog[p].source]
           n == prog[p].peek.name
<1>1. /\ prog[p].pc = "cleared" /\ UNCHANGED <<configured, sources, changes, records>>
  BY DEF Copy
<1>2. CASE ~Loads(now)
  BY <1>2, EndingJobs
<1>3. CASE Loads(now)
  <2>1. /\ files' = [files EXCEPT ![prog[p].store] = With(@, n, now)]
        /\ prog' = [prog EXCEPT ![p].pc = "copied"]
    BY <1>3 DEF Copy
  <2>2. ~Resting(p)
    BY <1>1 DEF Resting
  <2>3. /\ Kept(p) /\ prog'[p].pc = "copied" /\ prog'[p].peek = prog[p].peek
        /\ prog'[p].todo = prog[p].todo /\ prog'[p].source = prog[p].source
        /\ prog'[p].read = prog[p].read
    BY <2>1, <2>2, WorkerIs, OffIs DEF Kept
  <2>4. files'[prog[p].store] = With(files[prog[p].store], n, now)
    BY <2>1, <2>2, WorkerIs
  <2>5. "copied" \in Installing /\ prog[p].pc \in Installing
    BY <1>1 DEF Installing
  <2>6. prog[p].alone => now = prog[p].peek
    BY <2>5, JobIs DEF TodoOf
  <2>7. /\ n \in DOMAIN files'[prog[p].store] /\ files'[prog[p].store][n] = now
        /\ \A m : m # n /\ m \in DOMAIN files'[prog[p].store] =>
             /\ m \in DOMAIN files[prog[p].store]
             /\ files'[prog[p].store][m] = files[prog[p].store][m]
    BY <2>4 DEF With
  <2>8. QED BY <1>1, <2>3, <2>5, <2>6, <2>7, InstallingJobs
<1>4. QED BY <1>2, <1>3

LEMMA ReadJobs ==
  ASSUME IInv, JobsInv, NEW p \in Programs, ReadState(p)
  PROVE  JobsInv'
<1>1. /\ prog[p].pc = "copied" /\ UNCHANGED <<configured, sources, changes, records, files>>
  BY DEF ReadState
<1>2. ~Resting(p)
  BY <1>1 DEF Resting
<1>3. /\ DOMAIN prog = Programs /\ DOMAIN prog[p] = DOMAIN Off
      /\ prog' = [prog EXCEPT ![p].pc = "read", ![p].read = records[prog[p].store]]
  BY <1>2, WorkerIs DEF ReadState
<1>4. /\ DOMAIN prog' = Programs /\ \A q \in Programs \ {p} : prog'[q] = prog[q]
      /\ prog'[p] = [prog[p] EXCEPT !.pc = "read", !.read = records[prog[p].store]]
  BY <1>3
<1>5. /\ Kept(p) /\ prog'[p].pc = "read" /\ prog'[p].peek = prog[p].peek
      /\ prog'[p].todo = prog[p].todo /\ prog'[p].source = prog[p].source
      /\ prog'[p].read = records[prog[p].store]
  BY <1>3, <1>4, OffIs DEF Kept
<1>6. "read" \in Installing /\ prog[p].pc \in Installing
  BY <1>1 DEF Installing
<1>7. prog[p].alone =>
        \A m \in DOMAIN files[prog[p].store] : files'[prog[p].store][m] = files[prog[p].store][m]
  BY <1>1
<1>8. QED BY <1>1, <1>5, <1>6, <1>7, InstallingJobs, JobIs DEF UpdateOf

LEMMA DistinctNames ==
  ASSUME Distinct, NEW s \in ToSet(configured), NEW t \in ToSet(configured),
         sources[s].name = sources[t].name
  PROVE  s = t
<1>1. PICK i \in DOMAIN configured, j \in DOMAIN configured : configured[i] = s /\ configured[j] = t
  BY ToSetIs
<1>2. i = j
  BY <1>1 DEF Distinct, IsInjective
<1>3. QED BY <1>1, <1>2

\* The record replaces at most one of a source that has the same name.
LEMMA WriteJobs ==
  ASSUME IInv, JobsInv, NEW p \in Programs, WriteState(p)
  PROVE  JobsInv'
<1>1. /\ prog[p].pc = "read" /\ UNCHANGED <<configured, sources, changes, files>>
  BY DEF WriteState
<1>2. ~Resting(p) /\ prog[p].pc \in Installing
  BY <1>1 DEF Resting, Installing
<1>3. PICK store, n, s : store = prog[p].store /\ n = prog[p].peek.name /\ s = prog[p].source
  OBVIOUS
<1>4. /\ TodoOf(p) /\ NamesOf(p) /\ StartOf(p) /\ UpdateOf(p) /\ RecordsOf(store)
      /\ store \in Stores /\ DOMAIN records = Stores
      /\ DOMAIN prog = Programs /\ DOMAIN prog[p] = DOMAIN Off
      /\ prog[p].alone => prog[p].read = records[store]
  BY <1>1, <1>2, <1>3, JobIs, WorkerIs DEF JobsInv, ReadOf
<1>5. /\ \A q \in Programs \ {p} : prog'[q] = prog[q]
      /\ prog'[p] = [prog[p] EXCEPT !.pc = "next", !.peek = Nothing, !.read = <<>>, !.source = "",
                                    !.fetched = @ \cup {<<store, n>>}]
  BY <1>3, <1>4 DEF WriteState
<1>6. /\ prog'[p].pc = "next" /\ prog'[p].read = <<>> /\ prog'[p].todo = prog[p].todo
      /\ prog'[p].job = prog[p].job /\ prog'[p].alone = prog[p].alone
      /\ prog'[p].store = store /\ prog'[p].pc \notin Installing
  BY <1>3, <1>4, <1>5, OffIs DEF Installing
<1>7. records' = [records EXCEPT ![store] = With(prog[p].read, n, Record(p))]
  BY <1>3 DEF WriteState, Recorded
<1>8. /\ records'[store] = With(prog[p].read, n, Record(p))
      /\ \A other \in Stores \ {store} : records'[other] = records[other]
  BY <1>4, <1>7
<1>9. /\ DOMAIN records'[store] = DOMAIN prog[p].read \cup {n}
      /\ records'[store][n].source = s
      /\ \A m \in DOMAIN prog[p].read : m # n => records'[store][m] = prog[p].read[m]
  BY <1>3, <1>8 DEF With, Record
<1>10. RecordsOf(store)'
  <2>1. IsFiniteSet(DOMAIN records'[store])
    BY <1>4, <1>9, FS_AddElement DEF TodoOf
  <2>2. ASSUME NEW m \in DOMAIN records'[store]
        PROVE  /\ records'[store][m].source \in Sources
               /\ changes = 0 => sources[records'[store][m].source].name = m
    <3>1. CASE m = n
      BY <1>2, <1>3, <1>4, <1>9, <3>1 DEF TodoOf, NamesOf
    <3>2. CASE m # n
      BY <1>4, <1>9, <2>2, <3>2 DEF TodoOf, NamesOf
    <3>3. QED BY <3>1, <3>2
  <2>3. QED BY <1>1, <2>1, <2>2 DEF RecordsOf
<1>11. TodoOf(p)'
  BY <1>4, <1>6, Nothings DEF TodoOf
<1>12. NamesOf(p)'
  BY <1>6, Nothings DEF NamesOf
<1>13. StartOf(p)'
  <2>1. Distinct' = Distinct
    BY <1>1 DEF Distinct
  <2>2. SUFFICES ASSUME prog[p].job = "start", prog[p].alone, Distinct
                 PROVE  /\ ToSet(prog[p].todo) \subseteq ToSet(configured)
                        /\ \A x \in ToSet(configured) :
                             \/ x \in ToSet(prog[p].todo)
                             \/ \E m \in DOMAIN records'[store] : records'[store][m].source = x
    BY <1>1, <1>6, <2>1 DEF StartOf
  <2>3. /\ ToSet(prog[p].todo) \subseteq ToSet(configured) /\ s \in ToSet(configured)
        /\ \A x \in ToSet(configured) :
             \/ x \in ToSet(prog[p].todo) \/ x = s
             \/ \E m \in DOMAIN records[store] : records[store][m].source = x
    BY <1>2, <1>3, <1>4, <2>2 DEF StartOf
  <2>4. ASSUME NEW x \in ToSet(configured), x # s,
               NEW m \in DOMAIN records[store], records[store][m].source = x
        PROVE  m # n
    <3>1. changes = 0
      BY <2>2 DEF Distinct
    <3>2. sources[x].name = m /\ sources[s].name = n
      BY <1>2, <1>3, <1>4, <2>4, <3>1 DEF RecordsOf, NamesOf
    <3>3. QED BY <2>2, <2>3, <2>4, <3>2, DistinctNames
  <2>5. QED BY <1>4, <1>9, <2>2, <2>3, <2>4
<1>14. UpdateOf(p)'
  <2>1. SUFFICES ASSUME prog[p].job = "all", prog[p].alone,
                        NEW m \in DOMAIN records'[store] \cap DOMAIN files[store]
                 PROVE  \/ Current(store, m)'
                        \/ records'[store][m].source \in ToSet(prog[p].todo)
    BY <1>1, <1>6 DEF UpdateOf
  <2>2. CASE m = n
    <3>1. files[store][n] = sources[s]
      BY <1>1, <1>2, <1>3, <1>4, <2>1 DEF UpdateOf, TodoOf
    <3>2. QED BY <1>1, <1>9, <2>2, <3>1 DEF Current
  <2>3. CASE m # n
    <3>1. m \in DOMAIN records[store] /\ records'[store][m] = records[store][m]
      BY <1>4, <1>9, <2>1, <2>3
    <3>2. Current(store, m)' = Current(store, m)
      BY <1>1, <3>1 DEF Current
    <3>3. QED BY <1>3, <1>4, <2>1, <2>3, <3>1, <3>2 DEF UpdateOf
  <2>4. QED BY <2>2, <2>3
<1>15. JobInv(p)'
  BY <1>11, <1>12, <1>13, <1>14 DEF JobInv
<1>16. QED BY <1>1, <1>2, <1>5, <1>6, <1>8, <1>10, <1>15, StepJobs

LEMMA RemoveRecordJobs ==
  ASSUME IInv, JobsInv, NEW p \in Programs, RemoveRecord(p)
  PROVE  JobsInv'
<1>1. /\ prog[p].pc = "listed" /\ UNCHANGED <<configured, sources, changes, files>>
      /\ records' = [records EXCEPT ![prog[p].store] = Without(prog[p].read, prog[p].peek.name)]
      /\ prog' = [prog EXCEPT ![p].pc = "dropped"]
  BY DEF RemoveRecord
<1>2. ~Resting(p)
  BY <1>1 DEF Resting
<1>3. PICK store, n : store = prog[p].store /\ n = prog[p].peek.name
  OBVIOUS
<1>4. /\ TodoOf(p) /\ NamesOf(p) /\ UpdateOf(p) /\ prog[p].job # "start"
      /\ store \in Stores /\ DOMAIN records = Stores
      /\ DOMAIN prog = Programs /\ DOMAIN prog[p] = DOMAIN Off
      /\ prog[p].alone => prog[p].read = records[store]
  BY <1>1, <1>2, <1>3, JobIs, WorkerIs DEF ReadOf, JobOf
<1>5. /\ prog'[p].pc = "dropped" /\ prog'[p].read = prog[p].read /\ prog'[p].todo = prog[p].todo
      /\ prog'[p].job = prog[p].job /\ prog'[p].alone = prog[p].alone
      /\ prog'[p].store = store /\ prog'[p].pc \notin Installing
      /\ \A q \in Programs \ {p} : prog'[q] = prog[q]
  BY <1>1, <1>3, <1>4, OffIs DEF Installing
<1>6. /\ records'[store] = Without(prog[p].read, n)
      /\ \A other \in Stores \ {store} : records'[other] = records[other]
  BY <1>1, <1>3, <1>4
<1>7. /\ DOMAIN records'[store] = DOMAIN prog[p].read \ {n}
      /\ \A m \in DOMAIN records'[store] : records'[store][m] = prog[p].read[m]
  BY <1>6 DEF Without
<1>8. RecordsOf(store)'
  <2>1. IsFiniteSet(DOMAIN records'[store])
    <3>1. IsFiniteSet(DOMAIN prog[p].read)
      BY <1>4 DEF TodoOf
    <3>2. IsFiniteSet(DOMAIN prog[p].read \ {n})
      BY <3>1, FS_RemoveElement
    <3>3. QED BY <1>7, <3>2
  <2>2. ASSUME NEW m \in DOMAIN records'[store]
        PROVE  /\ records'[store][m].source \in Sources
               /\ changes = 0 => sources[records'[store][m].source].name = m
    BY <1>4, <1>7, <2>2 DEF TodoOf, NamesOf
  <2>3. QED BY <1>1, <2>1, <2>2 DEF RecordsOf
<1>9. TodoOf(p)' /\ NamesOf(p)'
  BY <1>1, <1>4, <1>5 DEF TodoOf, NamesOf
<1>10. StartOf(p)'
  BY <1>4, <1>5 DEF StartOf
<1>11. UpdateOf(p)'
  <2>1. SUFFICES ASSUME prog[p].job = "all", prog[p].alone,
                        NEW m \in DOMAIN records'[store] \cap DOMAIN files[store]
                 PROVE  \/ Current(store, m)'
                        \/ records'[store][m].source \in ToSet(prog[p].todo)
    BY <1>1, <1>5 DEF UpdateOf
  <2>2. m \in DOMAIN records[store] /\ records'[store][m] = records[store][m]
    BY <1>4, <1>7, <2>1
  <2>3. Current(store, m)' = Current(store, m)
    BY <1>1, <2>2 DEF Current
  <2>4. prog[p].pc \notin Installing
    BY <1>1 DEF Installing
  <2>5. QED BY <1>3, <1>4, <2>1, <2>2, <2>3, <2>4 DEF UpdateOf
<1>12. JobInv(p)'
  BY <1>9, <1>10, <1>11 DEF JobInv
<1>13. QED BY <1>1, <1>2, <1>5, <1>6, <1>8, <1>12, StepJobs

\* A program that is not alone has nothing to keep but its types, and a source that changed
\* makes the names count no more.
LEMMA ChangeJobs ==
  ASSUME IInv, JobsInv, NEW s \in Sources, NEW kind, NEW n, Change(s, kind, n)
  PROVE  JobsInv'
<1>1. /\ UNCHANGED <<configured, records>> /\ changes' = changes + 1
      /\ sources' = [sources EXCEPT ![s] = Manifest(kind, n, changes + 1)]
      /\ \A q \in Programs :
           prog'[q] = IF Resting(q) THEN prog[q] ELSE [prog[q] EXCEPT !.alone = FALSE]
  BY DEF Change, Resting
<1>2. changes' \in Nat /\ changes' # 0 /\ DOMAIN sources' = Sources
  <2>1. changes \in Nat /\ DOMAIN sources = Sources
    BY DEF JobsInv
  <2>2. changes + 1 \in Nat /\ changes + 1 # 0
    BY <2>1
  <2>3. QED BY <1>1, <2>1, <2>2
<1>3. ASSUME NEW q \in Programs
      PROVE  JobInv(q)' /\ (prog'[q].pc \in {"off", "idle"} => prog'[q].job = "")
  <2>1. TodoOf(q) /\ DOMAIN prog[q] = DOMAIN Off /\ (Resting(q) => prog[q].job = "")
    BY JobIs DEF IInv, ProgramInv, JobOf, Resting
  <2>2. /\ prog'[q].pc = prog[q].pc /\ prog'[q].job = prog[q].job
        /\ prog'[q].todo = prog[q].todo /\ prog'[q].read = prog[q].read
        /\ prog'[q].source = prog[q].source
        /\ ~Resting(q) => ~prog'[q].alone
    BY <1>1, <2>1, OffIs
  <2>3. TodoOf(q)'
    BY <2>1, <2>2 DEF TodoOf, Resting, Installing
  <2>4. NamesOf(q)'
    BY <1>2 DEF NamesOf
  <2>5. StartOf(q)' /\ UpdateOf(q)'
    BY <2>1, <2>2 DEF StartOf, UpdateOf
  <2>6. QED BY <2>1, <2>2, <2>3, <2>4, <2>5 DEF JobInv, Resting
<1>4. ASSUME NEW store \in Stores PROVE RecordsOf(store)'
  <2>1. RecordsOf(store)
    BY DEF JobsInv
  <2>2. QED BY <1>1, <1>2, <2>1 DEF RecordsOf
<1>5. QED BY <1>1, <1>2, <1>3, <1>4 DEF JobsInv

LEMMA InitJobs ==
  Init => JobsInv
<1> SUFFICES ASSUME Init PROVE JobsInv
  OBVIOUS
<1>1. /\ prog = [p \in Programs |-> Off] /\ records = [s \in Stores |-> <<>>] /\ changes = 0
      /\ configured \in Configs /\ DOMAIN sources = Sources
  BY DEF Init
<1>2. ASSUME NEW p \in Programs PROVE JobInv(p) /\ prog[p].job = ""
  <2>1. /\ prog[p].todo = <<>> /\ prog[p].read = <<>> /\ prog[p].job = "" /\ prog[p].pc \notin Installing
    BY <1>1, OffHas DEF Installing
  <2>2. TodoOf(p) /\ NamesOf(p)
    BY <2>1, Nothings DEF TodoOf, NamesOf
  <2>3. StartOf(p) /\ UpdateOf(p)
    BY <2>1 DEF StartOf, UpdateOf
  <2>4. QED BY <2>1, <2>2, <2>3 DEF JobInv
<1>3. ASSUME NEW store \in Stores PROVE RecordsOf(store)
  <2>1. records[store] = <<>>
    BY <1>1
  <2>2. QED BY <2>1, Nothings DEF RecordsOf
<1>4. QED BY <1>1, <1>2, <1>3 DEF JobsInv

LEMMA NextJobs ==
  IInv /\ JobsInv /\ [Next]_vars => JobsInv'
<1> SUFFICES ASSUME IInv, JobsInv, [Next]_vars PROVE JobsInv'
  OBVIOUS
<1>1. ASSUME NEW p \in Programs, Start(p) \/ Skip(p) \/ Peek(p) \/ Clear(p) \/ Copy(p)
      PROVE  JobsInv'
  BY <1>1, StartJobs, SkipJobs, PeekJobs, ClearJobs, CopyJobs
<1>2. ASSUME NEW p \in Programs, ReadState(p) \/ WriteState(p) \/ RemoveRecord(p) PROVE JobsInv'
  BY <1>2, ReadJobs, WriteJobs, RemoveRecordJobs
<1>3. ASSUME NEW p \in Programs,
             PeekFails(p) \/ CopyFails(p) \/ Done(p) \/ Quit(p) \/ Killed(p) \/ RemoveFiles(p)
      PROVE  JobsInv'
  BY <1>3, EndingJobs
<1>4. ASSUME NEW p \in Programs, NEW store \in Stores,
             \/ \E s \in Sources : Install(p, store, s)
             \/ \E n \in Names : UpdateOne(p, store, n) \/ RemovePackage(p, store, n)
             \/ UpdateAll(p, store)
      PROVE  JobsInv'
  BY <1>4, CommandsJobs, RemovePackageJobs
<1>5. ASSUME NEW s \in Sources, NEW kind, NEW n, Change(s, kind, n) PROVE JobsInv'
  BY <1>5, ChangeJobs
<1>6. CASE UNCHANGED vars
  <2>1. UNCHANGED <<configured, sources, changes, records, files, prog>>
    BY <1>6 DEF vars
  <2>2. ASSUME NEW p \in Programs PROVE JobInv(p)'
    <3>1. TodoOf(p) /\ NamesOf(p) /\ StartOf(p) /\ UpdateOf(p)
      BY JobIs
    <3>2. Distinct' = Distinct /\ \A store, n : Current(store, n)' = Current(store, n)
      BY <2>1 DEF Current, Distinct
    <3>3. TodoOf(p)' /\ NamesOf(p)'
      BY <2>1, <3>1 DEF TodoOf, NamesOf
    <3>4. StartOf(p)' /\ UpdateOf(p)'
      BY <2>1, <3>1, <3>2 DEF StartOf, UpdateOf
    <3>5. QED BY <3>3, <3>4 DEF JobInv
  <2>3. ASSUME NEW store \in Stores PROVE RecordsOf(store)'
    BY <2>1 DEF JobsInv, RecordsOf
  <2>4. QED BY <2>1, <2>2, <2>3 DEF JobsInv
<1>7. QED BY <1>1, <1>2, <1>3, <1>4, <1>5, <1>6 DEF Next

-----------------------------------------------------------------------------
(* The theorem.                                                            *)

\* The start of a program ends well only when nothing is left.
LEMMA StartEnds ==
  ASSUME IInv, Next, NEW p \in Programs, prog[p].pc = "next", prog'[p].pc = "idle",
         prog[p].job = "start"
  PROVE  prog[p].todo = <<>>
<1>0. DOMAIN prog = Programs /\ \A q \in Programs : DOMAIN prog[q] = DOMAIN Off
  BY DEF IInv, ProgramInv, JobOf
<1>1. ASSUME NEW q \in Programs, NEW job, DOMAIN job = DOMAIN Off, Resting(q), Begins(q, job)
      PROVE  FALSE
  <2>1. q # p
    BY <1>1 DEF Resting
  <2>2. prog'[p].pc = prog[p].pc
    <3>1. CASE prog'[p] = prog[p]
      BY <3>1
    <3>2. CASE prog'[p] = [prog[p] EXCEPT !.alone = FALSE]
      BY <1>0, <3>2, OffIs
    <3>3. QED BY <1>1, <2>1, <3>1, <3>2, BeginsDisturbs
  <2>3. QED BY <2>2
<1>2. ASSUME NEW q \in Programs, Start(q) PROVE FALSE
  BY <1>1, <1>2, OffIs DEF Start, Resting
<1>3. ASSUME NEW q \in Programs, NEW store, NEW n,
             \/ \E s \in Sources : Install(q, store, s)
             \/ UpdateOne(q, store, n) \/ RemovePackage(q, store, n) \/ UpdateAll(q, store)
      PROVE  FALSE
  <2>1. ASSUME NEW kind, NEW todo, Command(q, kind, store, todo) PROVE FALSE
    BY <1>0, <1>1, <2>1 DEF Command, Resting
  <2>2. ASSUME RemovePackage(q, store, n) PROVE FALSE
    BY <1>0, <1>1, <2>2 DEF RemovePackage, Resting
  <2>3. QED BY <1>3, <2>1, <2>2 DEF Install, UpdateOne, UpdateAll
<1>4. ASSUME NEW s, NEW kind, NEW n, Change(s, kind, n) PROVE FALSE
  BY <1>0, <1>4, OffIs DEF Change
<1>5. ASSUME NEW q \in Programs, q # p, NEW one, prog' = [prog EXCEPT ![q] = one] PROVE FALSE
  BY <1>5, OneChanges
<1>6. ASSUME NEW q \in Programs, q # p,
             \/ Skip(q) \/ Peek(q) \/ PeekFails(q) \/ Clear(q) \/ Copy(q) \/ CopyFails(q)
             \/ ReadState(q) \/ WriteState(q) \/ Done(q) \/ Quit(q) \/ Killed(q)
             \/ RemoveRecord(q) \/ RemoveFiles(q)
      PROVE  FALSE
  <2>1. prog'[p] = prog[p]
    BY <1>0, <1>6 DEF Skip, Peek, PeekFails, Clear, Copy, CopyFails, ReadState, WriteState, Done,
       Quit, Killed, RemoveRecord, RemoveFiles, Failed
  <2>2. QED BY <2>1
<1>7. CASE Skip(p)
  <2>1. prog' = [prog EXCEPT ![p].todo = Tail(@)]
    BY <1>7 DEF Skip
  <2>2. prog'[p] = [prog[p] EXCEPT !.todo = Tail(@)]
    BY <1>0, <2>1
  <2>3. QED BY <1>0, <2>2, OffIs
<1>8. CASE Peek(p)
  <2>1. PICK s, peek, rest : prog' = [prog EXCEPT ![p].pc = "peeked", ![p].source = s,
                                                ![p].peek = peek, ![p].todo = rest]
    BY <1>8 DEF Peek
  <2>2. prog'[p] = [prog[p] EXCEPT !.pc = "peeked", !.source = s, !.peek = peek, !.todo = rest]
    BY <1>0, <2>1
  <2>3. QED BY <1>0, <2>2, OffIs
<1>9. CASE PeekFails(p)
  BY <1>0, <1>9, OffHas DEF PeekFails, Failed
<1>10. CASE Killed(p) \/ Clear(p) \/ Copy(p) \/ CopyFails(p) \/ ReadState(p) \/ WriteState(p)
            \/ Quit(p) \/ RemoveRecord(p) \/ RemoveFiles(p)
  BY <1>10 DEF Killed, Works, Clear, Copy, CopyFails, ReadState, WriteState, Quit, RemoveRecord,
     RemoveFiles
<1>11. CASE Done(p)
  BY <1>11 DEF Done
<1>12. QED
  BY <1>2, <1>3, <1>4, <1>6, <1>7, <1>8, <1>9, <1>10, <1>11 DEF Next

\* What ensureConfiguredPackages (bootstrap.go) and Manager.Update (manager.go) bring about: a
\* program that is alone has a record of every source of its settings once it has started, if
\* no two of them have one name; and after an update of all packages of a store that was
\* alone, the notice of updates names a package of it only if its source has another name.
THEOREM JobsHaveEffect == Spec => JobsTakeEffect
<1>1. IInv /\ JobsInv /\ [Next]_vars =>
        [\A p \in Programs :
           /\ prog[p].pc = "next" /\ prog'[p].pc = "idle" /\ prog[p].job = "start" /\ prog[p].alone
           /\ IsInjective([i \in DOMAIN configured |-> sources[configured[i]].name]) /\ changes = 0
           => \A s \in ToSet(configured) :
                \E n \in DOMAIN records[prog[p].store] : records[prog[p].store][n].source = s]_vars
  <2>1. SUFFICES ASSUME IInv, JobsInv, Next, NEW p \in Programs, prog[p].pc = "next",
                        prog'[p].pc = "idle", prog[p].job = "start", prog[p].alone, Distinct,
                        NEW s \in ToSet(configured)
                 PROVE  \E n \in DOMAIN records[prog[p].store] :
                          records[prog[p].store][n].source = s
    BY DEF Distinct
  <2>2. prog[p].todo = <<>>
    BY <2>1, StartEnds
  <2>3. s \notin ToSet(prog[p].todo)
    BY <2>2, ToSetIs, Nothings
  <2>4. StartOf(p) /\ prog[p].pc \notin Installing
    BY <2>1, JobIs DEF Installing
  <2>5. QED BY <2>1, <2>3, <2>4 DEF StartOf
<1>2. JobsInv =>
        [\A p \in Programs :
           prog[p].pc = "next" /\ prog'[p].pc = "idle" /\ prog[p].job = "all" /\ prog[p].todo = <<>>
             /\ prog[p].alone
           => \A n \in Notices(prog[p].project) :
                \E store \in {"global", prog[p].project} :
                  /\ n \in Available(store)
                  /\ store = prog[p].store => sources[records[store][n].source].name # n]_vars
  <2>1. SUFFICES ASSUME JobsInv, NEW p \in Programs, prog[p].pc = "next", prog[p].job = "all",
                        prog[p].todo = <<>>, prog[p].alone, NEW store, NEW n \in Available(store),
                        store = prog[p].store
                 PROVE  sources[records[store][n].source].name # n
    BY DEF Notices
  <2>2. /\ n \in DOMAIN records[store] \cap DOMAIN files[store]
        /\ files[store][n].version # sources[records[store][n].source].version
    BY <2>1 DEF Available, HasUpdate, IsBehind
  <2>3. UpdateOf(p) /\ prog[p].pc \notin Installing
    BY <2>1, JobIs DEF Installing
  <2>4. \A s : s \notin ToSet(prog[p].todo)
    BY <2>1, ToSetIs, Nothings
  <2>5. Current(store, n)
    BY <2>1, <2>2, <2>3, <2>4 DEF UpdateOf
  <2>6. QED BY <2>2, <2>5 DEF Current
<1>3. Spec => [](IInv /\ JobsInv)
  BY InitIs, InitJobs, NextKeeps, NextJobs, PTL DEF Spec
<1>4. Spec => ConfiguredRun
  BY <1>1, <1>3, PTL DEF Spec, ConfiguredRun
<1>5. Spec => UpdateSettles
  BY <1>2, <1>3, PTL DEF Spec, UpdateSettles
<1>6. QED BY <1>4, <1>5 DEF JobsTakeEffect

-----------------------------------------------------------------------------
(* Compaction.  Numbers: the smallest one of a set, and two of them.       *)

LEMMA SmallestExists ==
  ASSUME NEW X, X \subseteq Nat, X # {}
  PROVE  \E x \in X : \A y \in X : x <= y
<1> DEFINE R == OpToRel(<, Nat)
<1>1. R = {ss \in Nat \X Nat : ss[1] < ss[2]}
  BY Zenon DEF OpToRel
<1>2. IsWellFoundedOn(R, Nat)
  BY NatLessThanWellFounded
<1> HIDE DEF R
<1>3. PICK x \in X : \A y \in X : ~(<<y, x>> \in R)
  BY <1>2, WFMin
<1>4. x \in Nat /\ \A y \in X : y \in Nat
  OBVIOUS
<1>5. ASSUME NEW y \in X PROVE x <= y
  <2>1. y < x => <<y, x>> \in R
    BY <1>1, <1>4
  <2>2. QED BY <1>3, <1>4, <2>1
<1>6. QED BY <1>5

LEMMA TwoNumbers ==
  ASSUME NEW a \in Int, NEW b \in Int
  PROVE  /\ C!Min({a, b}) = IF a <= b THEN a ELSE b
         /\ C!Max({a, b}) = IF a <= b THEN b ELSE a
<1>1. C!Min({a, b}) = IF a <= b THEN a ELSE b
  <2>1. (IF a <= b THEN a ELSE b) \in {a, b} /\ \A y \in {a, b} : (IF a <= b THEN a ELSE b) <= y
    OBVIOUS
  <2>2. C!Min({a, b}) \in {a, b} /\ \A y \in {a, b} : C!Min({a, b}) <= y
    BY <2>1 DEF C!Min
  <2>3. QED BY <2>2
<1>2. C!Max({a, b}) = IF a <= b THEN b ELSE a
  <2>1. (IF a <= b THEN b ELSE a) \in {a, b} /\ \A y \in {a, b} : (IF a <= b THEN b ELSE a) >= y
    OBVIOUS
  <2>2. C!Max({a, b}) \in {a, b} /\ \A y \in {a, b} : C!Max({a, b}) >= y
    BY <2>1 DEF C!Max
  <2>3. QED BY <2>2
<1>3. QED BY <1>1, <1>2

-----------------------------------------------------------------------------
(* The tokens of messages.                                                 *)

\* f gives the tokens of the first messages of s, up to n.
IsSum(f, s, n) == f = [k \in 0..n |-> IF k = 0 THEN 0 ELSE f[k - 1] + s[k]]

LEMMA SumExists ==
  ASSUME NEW s \in Seq(Nat)
  PROVE  \A n \in 0..Len(s) : \E f \in [0..n -> Nat] : IsSum(f, s, n)
<1> DEFINE Unsummed == {n \in 0..Len(s) : ~\E f \in [0..n -> Nat] : IsSum(f, s, n)}
<1>1. SUFFICES ASSUME Unsummed # {} PROVE FALSE
  OBVIOUS
<1>2. PICK n \in Unsummed : \A m \in Unsummed : n <= m
  <2>1. Unsummed \subseteq Nat
    OBVIOUS
  <2> HIDE DEF Unsummed
  <2>2. QED BY <1>1, <2>1, SmallestExists
<1>3. n \in 0..Len(s) /\ n \in Nat /\ ~\E f \in [0..n -> Nat] : IsSum(f, s, n)
  OBVIOUS
<1>4. CASE n = 0
  <2> DEFINE f == [k \in 0..0 |-> 0]
  <2>1. f \in [0..0 -> Nat] /\ \A k \in 0..0 : k = 0
    OBVIOUS
  <2>2. f = [k \in 0..0 |-> IF k = 0 THEN 0 ELSE f[k - 1] + s[k]]
    BY <2>1
  <2>3. IsSum(f, s, 0)
    BY <2>2 DEF IsSum
  <2>4. QED BY <1>3, <1>4, <2>1, <2>3
<1>5. CASE n # 0
  <2>1. n - 1 \in 0..Len(s) /\ n - 1 < n
    BY <1>3, <1>5
  <2>2. PICK f \in [0..(n - 1) -> Nat] : IsSum(f, s, n - 1)
    <3>1. n - 1 \notin Unsummed
      <4> HIDE DEF Unsummed
      <4>1. QED BY <1>2, <1>3, <2>1
    <3>2. QED BY <2>1, <3>1
  <2>3. f = [k \in 0..(n - 1) |-> IF k = 0 THEN 0 ELSE f[k - 1] + s[k]]
    BY <2>2 DEF IsSum
  <2> DEFINE g == [k \in 0..n |-> IF k = n THEN f[n - 1] + s[n] ELSE f[k]]
  <2>4. g \in [0..n -> Nat]
    BY <1>3, <1>5
  <2>5. \A k \in 0..n : g[k] = IF k = 0 THEN 0 ELSE g[k - 1] + s[k]
    <3>1. TAKE k \in 0..n
    <3>2. CASE k = n
      BY <1>3, <1>5, <3>2
    <3>3. CASE k # n
      <4>1. /\ k \in 0..(n - 1) /\ g[k] = f[k]
            /\ k # 0 => k - 1 \in 0..(n - 1) /\ g[k - 1] = f[k - 1]
        BY <1>3, <1>5, <3>3
      <4> HIDE DEF g
      <4>2. QED BY <2>3, <4>1
    <3>4. QED BY <3>2, <3>3
  <2>6. IsSum(g, s, n)
    <3>1. g = [k \in 0..n |-> g[k]]
      OBVIOUS
    <3> HIDE DEF g
    <3>2. QED BY <2>5, <3>1 DEF IsSum
  <2> HIDE DEF g
  <2>7. QED BY <1>3, <2>4, <2>6
<1>6. QED BY <1>4, <1>5

\* The last messages, in their order.
LEMMA LastOf ==
  ASSUME NEW s \in Seq(Nat), NEW n \in 0..Len(s)
  PROVE  LET r == C!Recent(s, n)
         IN  r \in Seq(Nat) /\ Len(r) = n /\ \A k \in 1..n : r[k] = s[Len(s) - n + k]
<1> DEFINE L == Len(s)
           m == L - n + 1
           r == SubSeq(s, m, L)
<1>1. m \in Int /\ L \in Int /\ n \in Nat /\ L - m + 1 = n /\ (n = 0 <=> ~(m <= L))
  OBVIOUS
<1>2. \A i \in m..L : s[i] \in Nat
  OBVIOUS
<1>3. \A k \in 1..n : m + k - 1 = L - n + k
  BY <1>1
<1>4. C!Recent(s, n) = r
  BY DEF C!Recent
<1> HIDE DEF L, m
<1>5. /\ r \in Seq(Nat) /\ Len(r) = IF m <= L THEN L - m + 1 ELSE 0
      /\ \A k \in 1..(L - m + 1) : r[k] = s[m + k - 1]
  BY <1>1, <1>2, SubSeqProperties
<1> HIDE DEF r
<1>6. Len(r) = n /\ \A k \in 1..n : r[k] = s[L - n + k]
  BY <1>1, <1>3, <1>5
<1>7. QED BY <1>4, <1>5, <1>6 DEF L

\* The tokens of the last n messages are those of all without those of the others.
LEMMA TokensOfLast ==
  ASSUME NEW s \in Seq(Nat)
  PROVE  \E sum \in [0..Len(s) -> Nat] :
           /\ sum[0] = 0 /\ \A k \in 1..Len(s) : sum[k] = sum[k - 1] + s[k]
           /\ C!Tokens(s) = sum[Len(s)]
           /\ \A n \in 0..Len(s) : C!Tokens(C!Recent(s, n)) = sum[Len(s)] - sum[Len(s) - n]
<1> DEFINE L == Len(s)
<1>1. L \in Nat
  OBVIOUS
<1>2. PICK sum \in [0..L -> Nat] : IsSum(sum, s, L)
  BY <1>1, SumExists
<1>3. sum[0] = 0 /\ \A k \in 1..L : sum[k] = sum[k - 1] + s[k]
  <2>1. sum = [k \in 0..L |-> IF k = 0 THEN 0 ELSE sum[k - 1] + s[k]]
    BY <1>2 DEF IsSum
  <2>2. \A k \in 0..L : sum[k] = IF k = 0 THEN 0 ELSE sum[k - 1] + s[k]
    BY <2>1
  <2> HIDE DEF L
  <2>3. QED BY <1>1, <2>2
<1>4. ASSUME NEW n \in 0..L, NEW r \in Seq(Nat), Len(r) = n, \A k \in 1..n : r[k] = s[L - n + k]
      PROVE  C!Tokens(r) = sum[L] - sum[L - n]
  <2> DEFINE first == CHOOSE f : IsSum(f, r, n)
             rest == [k \in 0..n |-> sum[L - n + k] - sum[L - n]]
  <2>1. C!Tokens(r) = first[n]
    BY <1>4 DEF C!Tokens, IsSum
  <2>2. IsSum(first, r, n)
    <3>1. n \in 0..Len(r)
      BY <1>4
    <3>2. \E f : IsSum(f, r, n)
      BY <3>1, SumExists
    <3>3. QED BY <3>2
  <2>3. first = [k \in 0..n |-> IF k = 0 THEN 0 ELSE first[k - 1] + r[k]]
    BY <2>2 DEF IsSum
  <2> HIDE DEF first
  <2>4. first[0] = 0 /\ \A k \in 1..n : first[k] = first[k - 1] + r[k]
    <3>1. \A k \in 0..n : first[k] = IF k = 0 THEN 0 ELSE first[k - 1] + r[k]
      BY <2>3
    <3>2. n \in Nat
      BY <1>1
    <3>3. QED BY <3>1, <3>2
  <2>5. rest[0] = 0 /\ \A k \in 1..n : rest[k] = rest[k - 1] + r[k]
    <3>1. rest[0] = 0
      <4>1. L - n \in 0..L /\ L - n + 0 = L - n /\ 0 \in 0..n
        BY <1>1
      <4>2. sum[L - n] \in Nat
        BY <1>2, <4>1
      <4>3. rest[0] = sum[L - n] - sum[L - n]
        BY <4>1
      <4>4. QED BY <4>2, <4>3
    <3>2. ASSUME NEW k \in 1..n PROVE rest[k] = rest[k - 1] + r[k]
      <4>1. k \in 0..n /\ k - 1 \in 0..n /\ L - n + k \in 1..L /\ L - n + (k - 1) = (L - n + k) - 1
            /\ L - n \in 0..L /\ (L - n + k) - 1 \in 0..L
        BY <1>1
      <4>2. rest[k] = sum[L - n + k] - sum[L - n] /\ rest[k - 1] = sum[(L - n + k) - 1] - sum[L - n]
        BY <4>1
      <4>3. sum[L - n + k] = sum[(L - n + k) - 1] + s[L - n + k] /\ r[k] = s[L - n + k]
        BY <1>3, <1>4, <4>1
      <4>4. sum[L - n] \in Nat /\ sum[(L - n + k) - 1] \in Nat
        BY <1>2, <4>1
      <4>5. r[k] \in Nat
        BY <1>4
      <4> DEFINE x == sum[(L - n + k) - 1]
                 y == sum[L - n]
      <4>6. rest[k] = (x + r[k]) - y /\ rest[k - 1] = x - y
        BY <4>2, <4>3
      <4> HIDE DEF rest, x, y
      <4>7. x \in Nat /\ y \in Nat
        BY <4>4 DEF x, y
      <4>8. QED BY <4>5, <4>6, <4>7
    <3>3. QED BY <3>1, <3>2
  <2> HIDE DEF rest
  <2>6. n \in Nat
    BY <1>1
  <2> DEFINE Unlike == {k \in 0..n : first[k] # rest[k]}
  <2>7. Unlike = {}
    <3>1. SUFFICES ASSUME Unlike # {} PROVE FALSE
      OBVIOUS
    <3>2. PICK k \in Unlike : \A m \in Unlike : k <= m
      <4>1. Unlike \subseteq Nat
        OBVIOUS
      <4> HIDE DEF Unlike
      <4>2. QED BY <3>1, <4>1, SmallestExists
    <3>3. k \in 1..n /\ k - 1 \in 0..n /\ k - 1 \notin Unlike
      BY <2>4, <2>5, <2>6, <3>2
    <3>4. QED BY <2>4, <2>5, <3>2, <3>3
  <2>8. first[n] = rest[n]
    BY <2>6, <2>7
  <2>9. rest[n] = sum[L] - sum[L - n]
    <3>1. n \in 0..n /\ L - n + n = L
      BY <1>1
    <3>2. QED BY <3>1 DEF rest
  <2>10. QED BY <2>1, <2>8, <2>9
<1>5. \A n \in 0..L : C!Tokens(C!Recent(s, n)) = sum[L] - sum[L - n]
  <2>1. TAKE n \in 0..L
  <2> DEFINE r == C!Recent(s, n)
  <2>2. r \in Seq(Nat) /\ Len(r) = n /\ \A k \in 1..n : r[k] = s[L - n + k]
    BY LastOf
  <2> HIDE DEF r
  <2>3. C!Tokens(r) = sum[L] - sum[L - n]
    BY <1>4, <2>2
  <2>4. QED BY <2>3 DEF r
<1>6. C!Tokens(s) = sum[L]
  <2>1. C!Tokens(s) = sum[L] - sum[L - L]
    <3>1. L \in 0..L /\ \A k \in 1..L : s[k] = s[L - L + k]
      BY <1>1
    <3>2. QED BY <1>4, <3>1
  <2>2. L - L = 0 /\ sum[L] \in Nat
    BY <1>1, <1>2
  <2>3. QED BY <1>3, <2>1, <2>2
<1>7. QED BY <1>2, <1>3, <1>5, <1>6

\* The more messages, the more tokens.
LEMMA TokensGrow ==
  ASSUME NEW s \in Seq(Nat)
  PROVE  /\ C!Tokens(s) \in Nat
         /\ \A n \in 0..Len(s) : C!Tokens(C!Recent(s, n)) \in Nat
         /\ \A n \in 0..Len(s) : \A m \in 0..n :
              C!Tokens(C!Recent(s, m)) <= C!Tokens(C!Recent(s, n))
         /\ C!Tokens(C!Recent(s, Len(s))) = C!Tokens(s)
<1> DEFINE L == Len(s)
<1>1. L \in Nat
  OBVIOUS
<1>2. PICK sum \in [0..L -> Nat] :
        /\ sum[0] = 0 /\ \A k \in 1..L : sum[k] = sum[k - 1] + s[k]
        /\ C!Tokens(s) = sum[L]
        /\ \A n \in 0..L : C!Tokens(C!Recent(s, n)) = sum[L] - sum[L - n]
  BY TokensOfLast
<1>3. \A k \in 1..L : s[k] \in Nat
  OBVIOUS
<1> HIDE DEF L
\* The sums grow.
<1>4. \A b \in 0..L : \A a \in 0..b : sum[a] <= sum[b]
  <2> DEFINE Falls == {b \in 0..L : \E a \in 0..b : ~(sum[a] <= sum[b])}
  <2>1. SUFFICES ASSUME Falls # {} PROVE FALSE
    OBVIOUS
  <2>2. PICK b \in Falls : \A m \in Falls : b <= m
    <3>1. Falls \subseteq Nat
      OBVIOUS
    <3> HIDE DEF Falls
    <3>2. QED BY <2>1, <3>1, SmallestExists
  <2>3. b \in 0..L
    OBVIOUS
  <2>4. PICK a \in 0..b : ~(sum[a] <= sum[b])
    OBVIOUS
  <2>5. a # b
    BY <1>2, <2>3, <2>4
  <2>6. b \in 1..L /\ b - 1 \in 0..L /\ a \in 0..(b - 1) /\ b - 1 < b
    BY <1>1, <2>3, <2>4, <2>5
  <2>7. sum[a] <= sum[b - 1]
    <3>1. b - 1 \notin Falls
      <4> HIDE DEF Falls
      <4>1. QED BY <2>2, <2>3, <2>6
    <3>2. QED BY <2>6, <3>1
  <2>8. sum[b] = sum[b - 1] + s[b] /\ s[b] \in Nat /\ sum[b - 1] \in Nat /\ sum[a] \in Nat
    <3>1. a \in 0..L
      BY <1>1, <2>3, <2>4
    <3>2. QED BY <1>2, <1>3, <2>6, <3>1
  <2>9. QED BY <2>4, <2>7, <2>8
<1>5. \A n \in 0..L : sum[L - n] \in Nat /\ sum[L] \in Nat /\ sum[L - n] <= sum[L]
  <2>1. \A n \in 0..L : L - n \in 0..L /\ L \in 0..L
    BY <1>1
  <2>2. QED BY <1>2, <1>4, <2>1
<1>6. \A n \in 0..L : C!Tokens(C!Recent(s, n)) \in Nat
  <2>1. TAKE n \in 0..L
  <2>2. C!Tokens(C!Recent(s, n)) = sum[L] - sum[L - n]
    BY <1>2
  <2>3. QED BY <1>5, <2>2
<1>7. ASSUME NEW n \in 0..L, NEW m \in 0..n
      PROVE  C!Tokens(C!Recent(s, m)) <= C!Tokens(C!Recent(s, n))
  <2>1. m \in 0..L /\ L - m \in 0..L /\ L - n \in 0..(L - m)
    BY <1>1
  <2>2. sum[L - n] <= sum[L - m]
    BY <1>4, <2>1
  <2>3. /\ C!Tokens(C!Recent(s, n)) = sum[L] - sum[L - n]
        /\ C!Tokens(C!Recent(s, m)) = sum[L] - sum[L - m]
    BY <1>2, <2>1
  <2>4. sum[L] \in Nat /\ sum[L - n] \in Nat /\ sum[L - m] \in Nat
    BY <1>5, <2>1
  <2>5. QED BY <2>2, <2>3, <2>4
<1>8. C!Tokens(s) \in Nat /\ C!Tokens(C!Recent(s, L)) = C!Tokens(s)
  <2>1. L \in 0..L /\ L - L = 0
    BY <1>1
  <2>2. C!Tokens(C!Recent(s, L)) = sum[L] - sum[0]
    BY <1>2, <2>1
  <2>3. QED BY <1>2, <1>5, <2>1, <2>2
<1>9. QED BY <1>6, <1>7, <1>8 DEF L

-----------------------------------------------------------------------------
(* What is kept.                                                           *)

Limit(keep) == IF keep <= 0 THEN DefaultKeep ELSE keep

\* keepRecentCount stops with n messages.
Stops(s, limit, n) == n = Len(s) \/ (C!Tokens(C!Recent(s, n + 1)) > limit /\ n >= 2)

IsScan(f, s, limit) == f = [n \in 0..Len(s) |-> IF Stops(s, limit, n) THEN n ELSE f[n + 1]]

\* The count is the smallest number of messages to stop with.
LEMMA StopsFirst ==
  ASSUME NEW s \in Seq(Nat), NEW keep \in Int
  PROVE  LET m == C!KeepRecentCount(s, keep)
         IN  /\ m \in 0..Len(s) /\ Stops(s, Limit(keep), m)
             /\ \A n \in 0..Len(s) : Stops(s, Limit(keep), n) => m <= n
<1> DEFINE L == Len(s)
           Stop(n) == Stops(s, Limit(keep), n)
           From(n) == {k \in 0..L : n <= k /\ Stop(k)}
           least(n) == CHOOSE k \in From(n) : \A j \in From(n) : k <= j
<1>1. L \in Nat /\ L \in 0..L /\ Stop(L)
  BY DEF Stops
<1> HIDE DEF L, Stop
<1>2. \A n \in 0..L : least(n) \in From(n) /\ \A j \in From(n) : least(n) <= j
  <2>1. TAKE n \in 0..L
  <2>2. From(n) \subseteq Nat /\ L \in From(n)
    BY <1>1
  <2>3. \E k \in From(n) : \A j \in From(n) : k <= j
    <3> HIDE DEF From
    <3>1. QED BY <2>2, SmallestExists
  <2> HIDE DEF From
  <2>4. QED BY <2>3
<1>3. \A n \in 0..L : least(n) = IF Stop(n) THEN n ELSE least(n + 1)
  <2>1. TAKE n \in 0..L
  <2>2. CASE Stop(n)
    <3>1. n \in From(n) /\ \A j \in From(n) : n <= j
      BY <1>1, <2>2
    <3>2. least(n) \in 0..L /\ least(n) <= n /\ n <= least(n)
      <4>1. least(n) \in From(n) /\ least(n) <= n
        <5> HIDE DEF From
        <5>1. QED BY <1>2, <3>1
      <4> HIDE DEF least
      <4>2. QED BY <3>1, <4>1
    <3> HIDE DEF least
    <3>3. QED BY <2>2, <3>2
  <2>3. CASE ~Stop(n)
    <3>1. From(n) = From(n + 1)
      <4>1. \A k \in 0..L : Stop(k) => k # n
        BY <2>3
      <4>2. QED BY <1>1, <4>1
    <3> HIDE DEF From
    <3>2. QED BY <2>3, <3>1
  <2>4. QED BY <2>2, <2>3
<1> DEFINE scan == CHOOSE f : IsScan(f, s, Limit(keep))
<1>4. C!KeepRecentCount(s, keep) = scan[0]
  BY DEF C!KeepRecentCount, IsScan, Stops, Limit
<1>5. IsScan(scan, s, Limit(keep))
  <2> DEFINE f == [n \in 0..L |-> least(n)]
  <2>1. \A n \in 0..L : f[n] = IF Stop(n) THEN n ELSE f[n + 1]
    <3>1. TAKE n \in 0..L
    <3>2. CASE Stop(n)
      <4> HIDE DEF least
      <4>1. QED BY <1>3, <3>2
    <3>3. CASE ~Stop(n)
      <4>1. n # L
        BY <1>1, <3>3
      <4>2. n + 1 \in 0..L
        BY <1>1, <4>1
      <4> HIDE DEF least
      <4>3. QED BY <1>3, <3>3, <4>2
    <3>4. QED BY <3>2, <3>3
  <2>2. f = [n \in 0..L |-> f[n]]
    OBVIOUS
  <2> HIDE DEF f
  <2>3. IsScan(f, s, Limit(keep))
    BY <2>1, <2>2 DEF IsScan, Stop, L
  <2>4. QED BY <2>3
<1>6. \A n \in 0..L : scan[n] = IF Stop(n) THEN n ELSE scan[n + 1]
  <2> HIDE DEF scan
  <2>1. scan = [n \in 0..L |-> IF Stop(n) THEN n ELSE scan[n + 1]]
    BY <1>5 DEF IsScan, Stop, L
  <2>2. QED BY <2>1
<1>7. PICK m \in 0..L : Stop(m) /\ \A n \in 0..L : Stop(n) => m <= n
  <2> DEFINE All == {n \in 0..L : Stop(n)}
  <2>1. All \subseteq Nat /\ L \in All
    BY <1>1
  <2>2. PICK m \in All : \A n \in All : m <= n
    <3> HIDE DEF All
    <3>1. QED BY <2>1, SmallestExists
  <2>3. QED BY <2>2
<1> HIDE DEF scan, least
\* From the first messages on, the scan ends there.
<1>8. \A j \in 0..m : scan[m - j] = m
  <2> DEFINE Other == {j \in 0..m : scan[m - j] # m}
  <2>1. SUFFICES ASSUME Other # {} PROVE FALSE
    OBVIOUS
  <2>2. PICK j \in Other : \A i \in Other : j <= i
    <3>1. Other \subseteq Nat
      OBVIOUS
    <3> HIDE DEF Other
    <3>2. QED BY <2>1, <3>1, SmallestExists
  <2>3. j \in 0..m /\ scan[m - j] # m /\ m \in Nat
    BY <1>1
  <2>4. j # 0
    <3>1. m - 0 = m /\ scan[m] = m
      BY <1>6, <1>7, <2>3
    <3>2. QED BY <2>3, <3>1
  <2>5. j - 1 \in 0..m /\ m - j \in 0..L /\ m - j < m /\ (m - j) + 1 = m - (j - 1) /\ j - 1 < j
    BY <1>1, <2>3, <2>4
  <2>6. scan[m - (j - 1)] = m
    <3>1. j - 1 \notin Other
      <4> HIDE DEF Other
      <4>1. QED BY <2>2, <2>3, <2>5
    <3>2. QED BY <2>5, <3>1
  <2>7. ~Stop(m - j)
    BY <1>1, <1>7, <2>3, <2>5
  <2>8. QED BY <1>6, <2>3, <2>5, <2>6, <2>7
<1>9. C!KeepRecentCount(s, keep) = m
  <2>1. m \in 0..m /\ m - m = 0
    BY <1>1
  <2>2. QED BY <1>4, <1>8, <2>1
<1>10. QED BY <1>7, <1>9 DEF L, Stop

\* It is the largest number of messages that fit, and two anyway.
LEMMA KeptFits ==
  ASSUME NEW s \in Seq(Nat), NEW keep \in Int, DefaultKeep \in Nat
  PROVE  LET fits == {n \in 0..Len(s) : n <= 2 \/ C!Tokens(C!Recent(s, n)) <= Limit(keep)}
             m == C!KeepRecentCount(s, keep)
         IN  m \in fits /\ (\A n \in fits : n <= m) /\ m = C!Max(fits)
<1> DEFINE L == Len(s)
           T(n) == C!Tokens(C!Recent(s, n))
           lim == Limit(keep)
           fits == {n \in 0..L : n <= 2 \/ T(n) <= lim}
           m == C!KeepRecentCount(s, keep)
<1>1. L \in Nat /\ lim \in Int
  BY DEF Limit
<1>2. /\ \A n \in 0..L : T(n) \in Nat
      /\ \A n \in 0..L : \A k \in 0..n : T(k) <= T(n)
  BY TokensGrow
<1>3. /\ m \in 0..L
      /\ m = L \/ (T(m + 1) > lim /\ m >= 2)
      /\ \A n \in 0..L : n = L \/ (T(n + 1) > lim /\ n >= 2) => m <= n
  BY StopsFirst DEF Stops
<1> HIDE DEF L, T, lim, m
<1>4. m \in fits
  <2>1. CASE m <= 2
    BY <1>3, <2>1
  <2>2. CASE ~(m <= 2)
    <3>1. m \in Nat /\ m - 1 \in 0..L /\ m - 1 # L /\ m - 1 >= 2 /\ ~(m <= m - 1) /\ (m - 1) + 1 = m
      BY <1>1, <1>3, <2>2
    <3>2. ~(T(m) > lim)
      BY <1>3, <3>1
    <3>3. T(m) \in Nat
      BY <1>2, <1>3
    <3>4. QED BY <1>1, <1>3, <3>2, <3>3
  <2>3. QED BY <2>1, <2>2
<1>5. ASSUME NEW n \in fits PROVE n <= m
  <2>1. SUFFICES ASSUME n > m PROVE FALSE
    BY <1>1, <1>3
  <2>2. m # L /\ m + 1 \in 0..n /\ n \in 0..L /\ m + 1 \in 0..L
    BY <1>1, <1>3, <2>1
  <2>3. T(m + 1) > lim /\ m >= 2 /\ ~(n <= 2)
    BY <1>1, <1>3, <2>1, <2>2
  <2>4. T(n) <= lim /\ T(m + 1) <= T(n) /\ T(n) \in Nat /\ T(m + 1) \in Nat
    BY <1>2, <2>2, <2>3
  <2>5. QED BY <1>1, <2>3, <2>4
<1>6. m = C!Max(fits)
  <2>1. \A n \in fits : n \in Int
    BY <1>1
  <2>2. m \in Int
    BY <1>1, <1>3
  <2> HIDE DEF fits
  <2>3. \A n \in fits : m >= n
    BY <1>5, <2>1, <2>2
  <2>4. C!Max(fits) \in fits /\ \A n \in fits : C!Max(fits) >= n
    BY <1>4, <2>3 DEF C!Max
  <2>5. C!Max(fits) \in Int /\ C!Max(fits) >= m /\ C!Max(fits) <= m
    BY <1>4, <1>5, <2>1, <2>4
  <2>6. QED BY <2>2, <2>5
<1>7. QED BY <1>4, <1>5, <1>6 DEF L, T, lim, m

-----------------------------------------------------------------------------
(* Budgets.                                                                *)

LEMMA Budget ==
  ASSUME C!CompactionAssumption, NEW c \in C!Config
  PROVE  /\ C!ContextBudget(c) \in Nat \ {0, 1}
         /\ C!KeepTokens(c) \in Nat \ {0} /\ C!KeepTokens(c) < C!ContextBudget(c)
         /\ C!ModelMaxTokens(c) \in Nat \ {0}
<1>1. /\ c.window \in Nat /\ c.reserve \in Int /\ c.maxOut \in Nat /\ c.keep \in Int
      /\ {DefaultReserve, DefaultMaxOut, LocalWindow, RemoteWindow} \subseteq Nat \ {0}
      /\ Floor \in Nat \ {0, 1}
  BY DEF C!CompactionAssumption, C!Config
<1>2. C!ModelMaxTokens(c) \in Nat \ {0}
  BY <1>1 DEF C!ModelMaxTokens
<1> DEFINE window == CASE c.window > 0 -> c.window
                       [] c.window = 0 /\ c.local -> LocalWindow
                       [] OTHER -> RemoteWindow
           reserve == IF c.reserve <= 0 THEN DefaultReserve ELSE c.reserve
           free == window - C!Min({reserve, window \div 4})
                     - C!Min({C!ModelMaxTokens(c), window \div 4})
<1>3. window \in Nat /\ reserve \in Int
  BY <1>1
<1>4. C!ContextBudget(c) = C!Max({Floor, free})
  BY DEF C!ContextBudget
<1> HIDE DEF window, reserve
<1>5. free \in Int
  <2>1. window \div 4 \in Int
    BY <1>3
  <2>2. C!Min({reserve, window \div 4}) \in Int
    BY <1>3, <2>1, TwoNumbers
  <2>3. C!Min({C!ModelMaxTokens(c), window \div 4}) \in Int
    <3>1. C!ModelMaxTokens(c) \in Int
      BY <1>2
    <3>2. QED BY <2>1, <3>1, TwoNumbers
  <2>4. QED BY <1>3, <2>2, <2>3
<1> HIDE DEF free
<1>6. C!ContextBudget(c) \in Nat \ {0, 1}
  <2>1. Floor \in Int
    BY <1>1
  <2>2. C!Max({Floor, free}) = IF Floor <= free THEN free ELSE Floor
    BY <1>5, <2>1, TwoNumbers
  <2>3. QED BY <1>1, <1>4, <1>5, <2>2
<1>7. C!KeepTokens(c) \in Nat \ {0} /\ C!KeepTokens(c) < C!ContextBudget(c)
  <2> DEFINE budget == C!ContextBudget(c)
  <2>1. C!KeepTokens(c) = IF c.keep <= 0 \/ c.keep > budget \div 2 THEN budget \div 2 ELSE c.keep
    BY DEF C!KeepTokens
  <2>2. budget \in Nat \ {0, 1}
    BY <1>6
  <2> HIDE DEF budget
  <2>3. budget \div 2 \in Nat \ {0} /\ budget \div 2 < budget
    BY <2>2
  <2>4. C!KeepTokens(c) \in Nat \ {0} /\ C!KeepTokens(c) < budget
    BY <1>1, <2>1, <2>2, <2>3
  <2>5. QED BY <2>4 DEF budget
<1>8. QED BY <1>2, <1>6, <1>7

\* A compaction keeps a part of the end, and not everything when that exceeds the budget.
LEMMA PartKept ==
  ASSUME C!CompactionAssumption, NEW c \in C!Config, NEW s \in Seq(Nat), s # <<>>,
         NEW proposed \in 0..Len(s)
  PROVE  /\ C!Keep(c, s, proposed) \in 1..Len(s)
         /\ Len(s) > 2 /\ C!Tokens(s) > C!ContextBudget(c) => C!Keep(c, s, proposed) < Len(s)
<1> DEFINE L == Len(s)
           count == C!KeepRecentCount(s, C!KeepTokens(c))
           recent == IF proposed > 0 THEN C!Min({count, proposed}) ELSE count
           fits == {n \in 0..L : n <= 2 \/ C!Tokens(C!Recent(s, n)) <= Limit(C!KeepTokens(c))}
<1>1. L \in Nat \ {0}
  OBVIOUS
<1>2. C!KeepTokens(c) \in Nat \ {0} /\ C!KeepTokens(c) < C!ContextBudget(c)
      /\ C!ContextBudget(c) \in Nat /\ Limit(C!KeepTokens(c)) = C!KeepTokens(c)
  BY Budget DEF Limit
<1>3. count \in fits /\ \A n \in fits : n <= count
  <2>1. DefaultKeep \in Nat /\ C!KeepTokens(c) \in Int
    BY <1>2 DEF C!CompactionAssumption
  <2>2. QED BY <2>1, KeptFits
<1>4. count \in 1..L
  <2>1. 1 \in fits
    BY <1>1
  <2>2. 1 <= count /\ count \in 0..L
    BY <1>3, <2>1
  <2> HIDE DEF count, L
  <2>3. QED BY <1>1, <2>2
<1>5. L > 2 /\ C!Tokens(s) > C!ContextBudget(c) => count # L
  <2>1. SUFFICES ASSUME L > 2, C!Tokens(s) > C!ContextBudget(c), count = L PROVE FALSE
    OBVIOUS
  <2>2. C!Tokens(s) \in Nat /\ C!Tokens(C!Recent(s, L)) = C!Tokens(s)
    BY TokensGrow
  <2>3. C!Tokens(C!Recent(s, L)) <= C!KeepTokens(c)
    BY <1>2, <1>3, <2>1
  <2>4. QED BY <1>2, <2>1, <2>2, <2>3
<1>6. C!Keep(c, s, proposed)
        = CASE recent < L -> recent
            [] recent >= L /\ L <= 4 -> L
            [] OTHER -> C!Max({2, L \div 2})
  BY DEF C!Keep
<1>7. proposed \in 0..L
  OBVIOUS
<1> HIDE DEF L, count
<1>8. recent \in 1..count
  <2>1. count \in Int /\ proposed \in Int
    BY <1>1, <1>4
  <2>2. C!Min({count, proposed}) = IF count <= proposed THEN count ELSE proposed
    BY <2>1, TwoNumbers
  <2>3. QED BY <1>1, <1>4, <1>7, <2>2
<1>9. /\ L \div 2 \in Int /\ L \div 2 <= L
      /\ C!Max({2, L \div 2}) = IF 2 <= L \div 2 THEN L \div 2 ELSE 2
  <2>1. L \div 2 \in Int /\ L \div 2 <= L /\ 2 \in Int
    BY <1>1
  <2>2. QED BY <2>1, TwoNumbers
<1> HIDE DEF recent, fits
<1>10. C!Keep(c, s, proposed) \in 1..L
  <2>1. CASE recent < L
    BY <1>1, <1>4, <1>6, <1>8, <2>1
  <2>2. CASE recent >= L /\ L <= 4
    BY <1>1, <1>6, <2>2
  <2>3. CASE ~(recent < L) /\ ~(L <= 4)
    BY <1>1, <1>4, <1>6, <1>8, <1>9, <2>3
  <2>4. QED BY <1>1, <1>4, <1>8, <2>1, <2>2, <2>3
<1>11. L > 2 /\ C!Tokens(s) > C!ContextBudget(c) => C!Keep(c, s, proposed) < L
  <2>1. SUFFICES ASSUME L > 2, C!Tokens(s) > C!ContextBudget(c) PROVE C!Keep(c, s, proposed) < L
    OBVIOUS
  <2>2. recent < L
    BY <1>1, <1>4, <1>5, <1>8, <2>1
  <2>3. QED BY <1>1, <1>4, <1>6, <1>8, <2>2
<1>12. QED BY <1>10, <1>11 DEF L

\* The last message stays the last one.
LEMMA LastStays ==
  ASSUME NEW s \in Seq(Nat), NEW keep \in 1..Len(s), NEW summary \in Nat
  PROVE  LET t == <<summary>> \o C!Recent(s, keep)
         IN  t \in Seq(Nat) /\ C!Last(t) = C!Last(s)
<1> DEFINE r == C!Recent(s, keep)
           t == <<summary>> \o r
<1>1. keep \in 0..Len(s) /\ keep \in 1..keep /\ Len(s) - keep + keep = Len(s)
  OBVIOUS
<1>2. r \in Seq(Nat) /\ Len(r) = keep /\ \A k \in 1..keep : r[k] = s[Len(s) - keep + k]
  BY <1>1, LastOf
<1>3. r[keep] = s[Len(s)]
  BY <1>1, <1>2
<1> HIDE DEF r
<1>4. t \in Seq(Nat) /\ Len(t) = keep + 1 /\ t[keep + 1] = r[keep]
  BY <1>1, <1>2
<1> HIDE DEF t
<1>5. QED BY <1>3, <1>4 DEF t, r, C!Last

-----------------------------------------------------------------------------
(* The steps.                                                              *)

SizeInv == config \in C!Config /\ history \in Seq(Nat)

LEMMA SizeKept ==
  ASSUME C!CompactionAssumption, SizeInv, [C!Next]_(C!vars)
  PROVE  /\ SizeInv'
         /\ history' # history /\ Len(history') <= Len(history)
              => C!Last(history') = C!Last(history)
         /\ phase = "asked" /\ phase' = "running" /\ Len(history) > 2 /\ config.auto
              /\ C!Tokens(history) > C!ContextBudget(config)
              => removed' > 0
<1> DEFINE Same == history' # history /\ Len(history') <= Len(history)
                     => C!Last(history') = C!Last(history)
           Helps == phase = "asked" /\ phase' = "running" /\ Len(history) > 2 /\ config.auto
                      /\ C!Tokens(history) > C!ContextBudget(config) => removed' > 0
<1>1. /\ config \in C!Config /\ history \in Seq(Nat) /\ Len(history) \in Nat
      /\ Sizes \subseteq Nat /\ Summaries \subseteq Nat
  BY DEF SizeInv, C!CompactionAssumption
<1>2. ASSUME NEW size \in Sizes, C!Prompt(size) \/ C!Answer(size)
      PROVE  SizeInv' /\ Same /\ Helps
  <2>1. /\ config' = config /\ history' = Append(history, size)
        /\ phase = "asked" => phase' # "running"
    BY <1>2 DEF C!Prompt, C!Answer
  <2>2. history' \in Seq(Nat) /\ Len(history') = Len(history) + 1
    BY <1>1, <2>1
  <2>3. Same
    BY <1>1, <2>2
  <2>4. QED BY <1>1, <2>1, <2>2, <2>3 DEF SizeInv
<1>3. ASSUME NEW proposed \in 0..Len(history), NEW summary \in Summaries,
             C!Compact(C!Keep(config, history, proposed), summary)
      PROVE  history' \in Seq(Nat) /\ Same
  <2> DEFINE keep == C!Keep(config, history, proposed)
  <2>1. history' = IF keep = Len(history) THEN history ELSE <<summary>> \o C!Recent(history, keep)
    BY <1>3 DEF C!Compact
  <2>2. CASE history = <<>>
    <3>1. Len(history) = 0 /\ proposed = 0
      BY <2>2
    <3>2. keep = 0
      <4>1. /\ C!KeepRecentCount(history, C!KeepTokens(config)) \in 0..Len(history)
        <5>1. C!KeepTokens(config) \in Int
          BY <1>1, Budget
        <5>2. QED BY <1>1, <5>1, StopsFirst
      <4>2. C!KeepRecentCount(history, C!KeepTokens(config)) = 0
        BY <3>1, <4>1
      <4>3. QED BY <3>1, <4>2 DEF C!Keep
    <3> HIDE DEF keep
    <3>3. history' = history
      BY <2>1, <3>1, <3>2
    <3>4. QED BY <1>1, <3>3
  <2>3. CASE history # <<>>
    <3>1. keep \in 1..Len(history)
      BY <1>1, <2>3, PartKept
    <3> HIDE DEF keep
    <3>2. CASE keep = Len(history)
      BY <1>1, <2>1, <3>2
    <3>3. CASE keep # Len(history)
      <4>1. history' = <<summary>> \o C!Recent(history, keep) /\ summary \in Nat
        BY <1>1, <2>1, <3>3
      <4>2. history' \in Seq(Nat) /\ C!Last(history') = C!Last(history)
        BY <1>1, <3>1, <4>1, LastStays
      <4>3. QED BY <4>2
    <3>4. QED BY <3>2, <3>3
  <2>4. QED BY <2>2, <2>3
<1>4. CASE C!Fits
  <2>1. UNCHANGED <<config, history>> /\ ~C!NeedsAutoCompact(config, history)
    BY <1>4 DEF C!Fits
  <2>2. ~(config.auto /\ C!Tokens(history) > C!ContextBudget(config))
    <3>1. config.system \in Nat /\ C!Tokens(history) \in Nat /\ C!ContextBudget(config) \in Nat
      BY <1>1, TokensGrow, Budget DEF C!Config
    <3>2. ~(config.auto /\ config.system + C!Tokens(history) > C!ContextBudget(config))
      BY <2>1 DEF C!NeedsAutoCompact
    <3>3. QED BY <3>1, <3>2
  <2>3. QED BY <2>1, <2>2 DEF SizeInv
<1>5. CASE C!AutoCompact
  <2>1. PICK proposed \in 0..Len(history), summary \in Summaries :
          /\ C!Compact(C!Keep(config, history, proposed), summary)
          /\ removed' = Len(history) - C!Keep(config, history, proposed)
    BY <1>5 DEF C!AutoCompact
  <2>2. config' = config /\ history' \in Seq(Nat) /\ Same
    BY <1>3, <1>5, <2>1 DEF C!AutoCompact
  <2>3. Helps
    <3>1. SUFFICES ASSUME Len(history) > 2, C!Tokens(history) > C!ContextBudget(config)
                   PROVE  removed' > 0
      OBVIOUS
    <3>2. history # <<>>
      BY <1>1, <3>1
    <3>3. /\ C!Keep(config, history, proposed) \in 1..Len(history)
          /\ C!Keep(config, history, proposed) < Len(history)
      BY <1>1, <3>1, <3>2, PartKept
    <3>4. QED BY <1>1, <2>1, <3>3
  <2>4. QED BY <1>1, <2>2, <2>3 DEF SizeInv
<1>6. CASE C!AutoCompactFails \/ C!TurnEnds
  BY <1>6 DEF C!AutoCompactFails, C!TurnEnds, SizeInv
<1>7. CASE C!ManualCompact
  <2>1. PICK proposed \in 0..Len(history), summary \in Summaries :
          C!Compact(C!Keep(config, history, proposed), summary)
    BY <1>7 DEF C!ManualCompact
  <2>2. UNCHANGED <<config, phase>> /\ history' \in Seq(Nat) /\ Same
    BY <1>3, <1>7, <2>1 DEF C!ManualCompact
  <2>3. Helps
    BY <2>2
  <2>4. QED BY <1>1, <2>2, <2>3 DEF SizeInv
<1>8. CASE UNCHANGED C!vars
  BY <1>8 DEF C!vars, SizeInv
<1>9. QED BY <1>2, <1>4, <1>5, <1>6, <1>7, <1>8 DEF C!Next

\* What a request asks for is the model's to give.
LEMMA ThinkingLeaves ==
  ASSUME C!CompactionAssumption, config \in C!Config
  PROVE  C!ThinkingFits
<1>1. SUFFICES ASSUME NEW thinking \in Levels
               PROVE  LET model == C!ModelMaxTokens(config)
                          budget == C!AdjustMaxTokens(model, model, thinking)
                      IN  /\ budget.max <= model /\ budget.thinking \in 0..budget.max
                          /\ budget.thinking < budget.max
  BY DEF C!ThinkingFits
<1> DEFINE model == C!ModelMaxTokens(config)
           some == C!Min({model, MaxCap})
           most == C!Min({some + thinking, model})
           budget == C!AdjustMaxTokens(model, model, thinking)
<1>2. model \in Nat \ {0}
  BY Budget
<1>3. thinking \in Nat /\ MaxCap \in Nat \ {0} /\ MinOutput \in Nat \ {0}
  BY <1>1 DEF C!CompactionAssumption
<1>4. budget = [max |-> most,
                thinking |-> IF most <= thinking THEN C!Max({0, most - MinOutput}) ELSE thinking]
  BY DEF C!AdjustMaxTokens
<1> HIDE DEF model, budget
<1>5. some \in Nat \ {0}
  <2>1. model \in Int /\ MaxCap \in Int
    BY <1>2, <1>3
  <2>2. some = IF model <= MaxCap THEN model ELSE MaxCap
    BY <2>1, TwoNumbers
  <2>3. QED BY <1>2, <1>3, <2>2
<1> HIDE DEF some
<1>6. most \in Nat \ {0} /\ most <= model
  <2>1. some + thinking \in Int /\ model \in Int
    BY <1>2, <1>3, <1>5
  <2>2. most = IF some + thinking <= model THEN some + thinking ELSE model
    BY <2>1, TwoNumbers
  <2>3. QED BY <1>2, <1>3, <1>5, <2>2
<1> HIDE DEF most
<1>7. C!Max({0, most - MinOutput}) = IF 0 <= most - MinOutput THEN most - MinOutput ELSE 0
  <2>1. 0 \in Int /\ most - MinOutput \in Int
    BY <1>3, <1>6
  <2>2. QED BY <2>1, TwoNumbers
<1>8. budget.max <= model /\ budget.thinking \in 0..budget.max /\ budget.thinking < budget.max
  BY <1>3, <1>4, <1>6, <1>7
<1>9. QED BY <1>8 DEF model, budget

\* A compaction keeps as much of the end as fits, at least the last message, and what exceeds
\* the budget gets shorter (compact.go, context_budget.go); the budget for thinking leaves
\* some for the answer (thinking.go).
THEOREM CompactionIsSound == C!Spec => CompactionSound
<1>1. C!CompactionAssumption
  BY PartsAssumption
<1>2. C!Init => SizeInv
  BY <1>1 DEF C!Init, SizeInv, C!CompactionAssumption
<1>3. SizeInv /\ [C!Next]_(C!vars) => SizeInv'
  BY <1>1, SizeKept
<1>4. SizeInv => C!KeepIsLargest /\ C!ThinkingFits
  <2>1. SUFFICES ASSUME SizeInv PROVE C!KeepIsLargest /\ C!ThinkingFits
    OBVIOUS
  <2>2. config \in C!Config /\ history \in Seq(Nat) /\ DefaultKeep \in Nat
    BY <1>1, <2>1 DEF SizeInv, C!CompactionAssumption
  <2>3. \A keep \in {-1, 1, C!KeepTokens(config)} : keep \in Int
    BY <1>1, <2>2, Budget
  <2>4. C!KeepIsLargest
    BY <2>2, <2>3, KeptFits DEF C!KeepIsLargest, Limit
  <2>5. QED BY <1>1, <2>2, <2>4, ThinkingLeaves
<1>5. SizeInv /\ [C!Next]_(C!vars)
        => [history' # history /\ Len(history') <= Len(history)
              => C!Last(history') = C!Last(history)]_(C!vars)
  BY <1>1, SizeKept
<1>6. SizeInv /\ [C!Next]_(C!vars)
        => [phase = "asked" /\ phase' = "running" /\ Len(history) > 2 /\ config.auto
              /\ C!Tokens(history) > C!ContextBudget(config) => removed' > 0]_(C!vars)
  BY <1>1, SizeKept
<1>7. QED
  BY <1>2, <1>3, <1>4, <1>5, <1>6, PTL
     DEF C!Spec, CompactionSound, C!CompactionSound, C!LastKept, C!CompactionHelps

-----------------------------------------------------------------------------
(* Settings: what was chosen, for any programs, permissions and changes.   *)

\* Settings, files and what the histories name.
Editors == {"", "vim", "nano", "emacs"}
Modes == {"", "all", "one", "bad"}
Switches == {"unset", "on", "off"}
SettingsRecords ==
  [editor : Editors, mode : Modes, images : Switches, idle : Nat, rows : Nat, pad : Nat,
   execution : {"", "sequential"}, grants : SUBSET Keys]
SettingsFiles == [settings : SettingsRecords, profile : Editors]

SettingsTypes ==
  /\ custom \in BOOLEAN /\ hasDir \in BOOLEAN
  /\ DOMAIN settings \subseteq {"global", "custom", "project"}
  /\ \A x \in DOMAIN settings : settings[x] \in SettingsFiles
  /\ DOMAIN mem \subseteq Programs /\ \A p \in DOMAIN mem : mem[p] \in SettingsRecords
  /\ DOMAIN chosen = S!Fields
  /\ \A f \in S!Fields : chosen[f] = None \/ chosen[f] \in S!Offered[f]
  /\ DOMAIN older = Programs

\* What was chosen is in the global file, and in a program that is not older than it.
ChosenInv ==
  ~custom => \A f \in S!Kept : chosen[f] # None =>
    /\ "global" \in DOMAIN settings /\ settings["global"].settings[f] = chosen[f]
    /\ ~S!Hidden(f) => \A p \in DOMAIN mem : f \notin older[p] => mem[p][f] = chosen[f]

\* A program that runs has a mode that is valid, as has the project, if it says one.
ModeInv ==
  ~custom =>
    /\ \A p \in DOMAIN mem : mem[p].mode # "bad"
    /\ saved => "global" \in DOMAIN settings /\ settings["global"].settings.mode # "bad"
    /\ (saved \/ DOMAIN mem # {}) /\ "project" \in DOMAIN settings =>
         settings["project"].settings.mode # "bad"

\* The permissions are in the file of the grants, and in a program that is not older.
GivenInv ==
  /\ "project" \in DOMAIN settings => hasDir
  /\ ~custom => \A k \in given :
       /\ S!GrantFile \in DOMAIN settings /\ k \in settings[S!GrantFile].settings.grants
       /\ ~hasDir => \A p \in DOMAIN mem : "grants" \notin older[p] => k \in mem[p].grants

SettingsInv == SettingsTypes /\ ChosenInv /\ ModeInv /\ GivenInv

\* What merging two settings gives, and reading a file.
IsMerged(both, base, over) ==
  /\ both \in SettingsRecords
  /\ both.editor = IF over.editor # "" THEN over.editor ELSE base.editor
  /\ both.mode = IF over.mode # "" THEN over.mode ELSE base.mode
  /\ both.images = IF over.images # "unset" THEN over.images ELSE base.images
  /\ both.rows = IF over.rows \in 3..20 THEN over.rows ELSE base.rows
  /\ both.pad = IF over.pad \in {0, 1} THEN over.pad ELSE base.pad
  /\ both.grants = base.grants \cup over.grants

IsRead(known, file) ==
  /\ known \in SettingsRecords
  /\ file.settings.editor # "" => known.editor = file.settings.editor
  /\ known.mode = file.settings.mode /\ known.images = file.settings.images
  /\ known.rows = file.settings.rows /\ known.pad = file.settings.pad
  /\ known.grants = file.settings.grants

LEMMA Merged ==
  ASSUME NEW base \in SettingsRecords, NEW over \in SettingsRecords
  PROVE  IsMerged(S!Merge(base, over), base, over)
BY DEF IsMerged, S!Merge, S!MergeSwitch, S!MergeNumber, SettingsRecords, Editors, Modes, Switches

LEMMA ReadSettings ==
  ASSUME NEW file \in SettingsFiles
  PROVE  IsRead(S!Read(file), file)
BY DEF IsRead, S!Read, SettingsFiles, SettingsRecords

LEMMA DefaultsTyped == S!Unset \in SettingsRecords /\ S!DefaultSettings \in SettingsRecords
BY DEF S!Unset, S!DefaultSettings, SettingsRecords, Editors, Modes, Switches

\* What Load finds, for a file of the user that is not the one of STELL_CONFIG.
LoadedFrom(base) ==
  /\ base \in SettingsRecords /\ S!Loaded \in SettingsRecords
  /\ IF "global" \in DOMAIN settings
     THEN IsMerged(base, S!DefaultSettings, S!Read(settings["global"]))
          /\ IsRead(S!Read(settings["global"]), settings["global"])
     ELSE base = S!DefaultSettings
  /\ IF "project" \in DOMAIN settings
     THEN IsMerged(S!Loaded, base, S!Read(settings["project"]))
          /\ IsRead(S!Read(settings["project"]), settings["project"])
     ELSE S!Loaded = base

LEMMA LoadedTyped ==
  ASSUME SettingsTypes
  PROVE  S!Loaded \in SettingsRecords
<1>1. \A x : \A base \in SettingsRecords : S!Over(base, x) \in SettingsRecords
  BY Merged, ReadSettings DEF S!Over, SettingsTypes, IsMerged, IsRead
<1>2. QED BY <1>1, DefaultsTyped DEF S!Loaded

LEMMA Loading ==
  ASSUME SettingsTypes, ~custom
  PROVE  LoadedFrom(S!Over(S!DefaultSettings, "global"))
<1> DEFINE base == S!Over(S!DefaultSettings, "global")
<1>1. \A x \in DOMAIN settings : IsRead(S!Read(settings[x]), settings[x])
                                /\ S!Read(settings[x]) \in SettingsRecords
  BY ReadSettings DEF SettingsTypes, IsRead
<1>2. base = IF "global" \in DOMAIN settings
             THEN S!Merge(S!DefaultSettings, S!Read(settings["global"])) ELSE S!DefaultSettings
  BY DEF S!Over
<1>3. S!Loaded = IF "project" \in DOMAIN settings
                 THEN S!Merge(base, S!Read(settings["project"])) ELSE base
  BY DEF S!Loaded, S!UserFile, S!Over
<1> HIDE DEF base
<1>4. /\ base \in SettingsRecords
      /\ "global" \in DOMAIN settings =>
           IsMerged(base, S!DefaultSettings, S!Read(settings["global"]))
  BY <1>1, <1>2, Merged, DefaultsTyped DEF IsMerged
<1>5. "project" \in DOMAIN settings => IsMerged(S!Loaded, base, S!Read(settings["project"]))
  BY <1>1, <1>3, <1>4, Merged
<1>6. LoadedFrom(base)
  BY <1>1, <1>2, <1>3, <1>4, <1>5, LoadedTyped DEF LoadedFrom
<1>7. QED BY <1>6 DEF base

LEMMA LoadsChosen ==
  ASSUME SettingsTypes, ~custom, NEW f \in S!Kept, chosen[f] # None, ~S!Hidden(f),
         "global" \in DOMAIN settings, settings["global"].settings[f] = chosen[f]
  PROVE  S!Loaded[f] = chosen[f] /\ S!Effective(S!Loaded, f) = chosen[f]
<1> DEFINE user == S!Read(settings["global"])
           base == S!Over(S!DefaultSettings, "global")
           over == S!Read(settings["project"])
<1>1. IsMerged(base, S!DefaultSettings, user) /\ IsRead(user, settings["global"])
  BY Loading DEF LoadedFrom
<1>2. IF "project" \in DOMAIN settings THEN IsMerged(S!Loaded, base, over) ELSE S!Loaded = base
  BY Loading DEF LoadedFrom
<1>3. f \in S!Fields /\ f # "idle" /\ chosen[f] \in S!Offered[f]
  BY DEF S!Kept, SettingsTypes
<1>4. f \in {"editor", "mode", "images", "rows", "pad"}
  BY <1>3 DEF S!Fields, S!Offered
<1>5. "project" \in DOMAIN settings =>
        f # "pad" /\ S!Merge(S!Unset, over)[f] = S!Unset[f]
        /\ IsMerged(S!Merge(S!Unset, over), S!Unset, over)
  <2>1. "project" \in DOMAIN settings => over \in SettingsRecords
    BY ReadSettings DEF SettingsTypes, IsRead
  <2> HIDE DEF over
  <2>2. "project" \in DOMAIN settings => IsMerged(S!Merge(S!Unset, over), S!Unset, over)
    BY <2>1, Merged, DefaultsTyped
  <2>3. QED BY <2>2 DEF S!Hidden, over
<1> HIDE DEF user, base, over
<1>6. CASE f = "editor"
  <2>1. user.editor = chosen[f] /\ chosen[f] # ""
    BY <1>1, <1>3, <1>6 DEF IsRead, S!Offered
  <2>2. base.editor = chosen[f]
    BY <1>1, <2>1 DEF IsMerged
  <2>3. "project" \in DOMAIN settings => over.editor = ""
    BY <1>5, <1>6 DEF IsMerged, S!Unset
  <2>4. S!Loaded.editor = chosen[f]
    BY <1>2, <2>2, <2>3 DEF IsMerged
  <2>5. QED BY <1>6, <2>1, <2>4 DEF S!Effective
<1>7. CASE f = "mode"
  <2>1. user.mode = chosen[f] /\ chosen[f] # ""
    BY <1>1, <1>3, <1>7 DEF IsRead, S!Offered
  <2>2. base.mode = chosen[f]
    BY <1>1, <2>1 DEF IsMerged
  <2>3. "project" \in DOMAIN settings => over.mode = ""
    BY <1>5, <1>7 DEF IsMerged, S!Unset
  <2>4. S!Loaded.mode = chosen[f]
    BY <1>2, <2>2, <2>3 DEF IsMerged
  <2>5. QED BY <1>7, <2>1, <2>4 DEF S!Effective
<1>8. CASE f = "images"
  <2>1. user.images = chosen[f] /\ chosen[f] # "unset"
    BY <1>1, <1>3, <1>8 DEF IsRead, S!Offered
  <2>2. base.images = chosen[f]
    BY <1>1, <2>1 DEF IsMerged
  <2>3. "project" \in DOMAIN settings => over.images = "unset"
    BY <1>5, <1>8 DEF IsMerged, S!Unset
  <2>4. S!Loaded.images = chosen[f]
    BY <1>2, <2>2, <2>3 DEF IsMerged
  <2>5. QED BY <1>8, <2>1, <2>4 DEF S!Effective, S!SwitchOrDefault
<1>9. CASE f = "rows"
  <2>1. user.rows = chosen[f] /\ chosen[f] \in {3, 5}
    BY <1>1, <1>3, <1>9 DEF IsRead, S!Offered
  <2>2. base.rows = chosen[f]
    <3>1. user.rows \in 3..20
      BY <2>1
    <3>2. QED BY <1>1, <2>1, <3>1 DEF IsMerged
  <2>3. "project" \in DOMAIN settings => over.rows \notin 3..20
    <3>1. S!Unset.rows = 0 /\ 0 \notin 3..20
      BY DEF S!Unset
    <3>2. QED BY <1>5, <1>9, <3>1 DEF IsMerged
  <2>4. S!Loaded.rows = chosen[f]
    BY <1>2, <2>2, <2>3 DEF IsMerged
  <2>5. QED BY <1>9, <2>1, <2>4 DEF S!Effective, S!NumberOrDefault
<1>10. CASE f = "pad"
  <2>1. user.pad = chosen[f] /\ chosen[f] \in {0, 1}
    BY <1>1, <1>3, <1>10 DEF IsRead, S!Offered
  <2>2. base.pad = chosen[f]
    BY <1>1, <2>1 DEF IsMerged
  <2>3. S!Loaded.pad = chosen[f]
    BY <1>2, <1>5, <1>10, <2>2
  <2>4. QED BY <1>10, <2>1, <2>3 DEF S!Effective, S!NumberOrDefault
<1>11. QED BY <1>4, <1>6, <1>7, <1>8, <1>9, <1>10

\* A mode that is loaded is that of the project, if it says one, or that of the user.
LEMMA LoadsMode ==
  ASSUME SettingsTypes, ~custom
  PROVE  /\ S!Validate(S!Loaded) =>
              S!Loaded.mode # "bad" /\ ("project" \in DOMAIN settings =>
                                          settings["project"].settings.mode # "bad")
         /\ /\ "global" \in DOMAIN settings => settings["global"].settings.mode # "bad"
            /\ "project" \in DOMAIN settings => settings["project"].settings.mode # "bad"
            => S!Validate(S!Loaded)
<1> DEFINE base == S!Over(S!DefaultSettings, "global")
<1>1. LoadedFrom(base)
  BY Loading
<1> HIDE DEF base
<1>2. S!DefaultSettings.mode = "one"
  BY DEF S!DefaultSettings, S!Unset
<1>3. /\ "global" \notin DOMAIN settings => base.mode = "one"
      /\ "global" \in DOMAIN settings =>
           base.mode = IF settings["global"].settings.mode # "" THEN settings["global"].settings.mode
                       ELSE "one"
  BY <1>1, <1>2 DEF LoadedFrom, IsMerged, IsRead
<1>4. /\ "project" \notin DOMAIN settings => S!Loaded.mode = base.mode
      /\ "project" \in DOMAIN settings =>
           S!Loaded.mode = IF settings["project"].settings.mode # "" THEN settings["project"].settings.mode
                           ELSE base.mode
  BY <1>1 DEF LoadedFrom, IsMerged, IsRead
<1>5. base.mode \in Modes /\ S!Loaded.mode \in Modes
  BY <1>1 DEF LoadedFrom, SettingsRecords
<1>6. QED BY <1>3, <1>4, <1>5 DEF S!Validate, Modes

LEMMA LoadsGrants ==
  ASSUME SettingsTypes, ~custom, NEW x \in {"global", "project"}, x \in DOMAIN settings
  PROVE  settings[x].settings.grants \subseteq S!Loaded.grants
<1> DEFINE base == S!Over(S!DefaultSettings, "global")
<1>1. LoadedFrom(base)
  BY Loading
<1> HIDE DEF base
<1>2. QED BY <1>1 DEF LoadedFrom, IsMerged, IsRead

\* The project hides what it did, if its file got nothing but permissions.
SameButGrants(file, other) ==
  /\ file.profile = other.profile
  /\ \A f \in S!Fields : file.settings[f] = other.settings[f]

LEMMA HiddenKept ==
  ASSUME SettingsTypes, SettingsTypes',
         "project" \in DOMAIN settings' <=> "project" \in DOMAIN settings,
         "project" \in DOMAIN settings => SameButGrants(settings'["project"], settings["project"])
  PROVE  \A f \in S!Fields : S!Hidden(f)' <=> S!Hidden(f)
<1> DEFINE file == settings["project"]
           new == settings'["project"]
           over == S!Read(file)
           next == S!Read(new)
<1>1. SUFFICES ASSUME "project" \in DOMAIN settings, NEW f \in S!Fields
               PROVE  S!Merge(S!Unset, next)[f] = S!Merge(S!Unset, over)[f]
  BY DEF S!Hidden
<1>2. file \in SettingsFiles /\ new \in SettingsFiles /\ SameButGrants(new, file)
  BY <1>1 DEF SettingsTypes
<1> HIDE DEF file, new
<1>3. /\ next.editor = over.editor /\ next.mode = over.mode /\ next.images = over.images
      /\ next.idle = over.idle /\ next.rows = over.rows /\ next.pad = over.pad
  <2>1. /\ new.settings.editor = file.settings.editor /\ new.settings.mode = file.settings.mode
        /\ new.settings.images = file.settings.images /\ new.settings.idle = file.settings.idle
        /\ new.settings.rows = file.settings.rows /\ new.settings.pad = file.settings.pad
    BY <1>2 DEF SameButGrants, S!Fields
  <2>2. new.settings \in SettingsRecords /\ file.settings \in SettingsRecords
    BY <1>2 DEF SettingsFiles
  <2>3. new.profile = file.profile
    BY <1>2 DEF SameButGrants
  <2>4. QED BY <2>1, <2>2, <2>3 DEF S!Read, SettingsRecords
<1> HIDE DEF over, next
<1>4. /\ S!Merge(S!Unset, next).editor = S!Merge(S!Unset, over).editor
      /\ S!Merge(S!Unset, next).mode = S!Merge(S!Unset, over).mode
      /\ S!Merge(S!Unset, next).images = S!Merge(S!Unset, over).images
      /\ S!Merge(S!Unset, next).idle = S!Merge(S!Unset, over).idle
      /\ S!Merge(S!Unset, next).rows = S!Merge(S!Unset, over).rows
      /\ S!Merge(S!Unset, next).pad = S!Merge(S!Unset, over).pad
      /\ S!Merge(S!Unset, next).execution = S!Merge(S!Unset, over).execution
  BY <1>3 DEF S!Merge, S!MergeSwitch, S!MergeNumber
<1>5. QED BY <1>4 DEF S!Fields
-----------------------------------------------------------------------------
(* The steps of programs and of `stell config set`.                        *)

\* A field that is set, and the others.
IsSet(new, old, f, v) ==
  /\ new \in SettingsRecords /\ new[f] = v /\ new.grants = old.grants
  /\ \A g \in S!Fields : g # f => new[g] = old[g]

LEMMA FieldSet ==
  ASSUME NEW s \in SettingsRecords, NEW f \in S!Fields, NEW v \in S!Offered[f] \cup S!Written[f]
  PROVE  IsSet([s EXCEPT ![f] = v], s, f, v)
<1> DEFINE new == [s EXCEPT ![f] = v]
<1>1. DOMAIN s = S!Fields \cup {"grants"}
  BY DEF SettingsRecords, S!Fields
<1>2. new[f] = v /\ new.grants = s.grants /\ \A g \in S!Fields : g # f => new[g] = s[g]
  BY <1>1 DEF S!Fields
<1>3. new \in SettingsRecords
  <2>1. CASE f = "editor"
    <3>1. v \in {"vim", "nano"} \cup {"vim"}
      BY <2>1 DEF S!Offered, S!Written
    <3>2. v \in Editors
      BY <3>1 DEF Editors
    <3>3. QED BY <2>1, <3>2 DEF SettingsRecords
  <2>2. CASE f = "mode"
    <3>1. v \in {"all", "one"} \cup {"all", "bad"}
      BY <2>2 DEF S!Offered, S!Written
    <3>2. v \in Modes
      BY <3>1 DEF Modes
    <3>3. QED BY <2>2, <3>2 DEF SettingsRecords
  <2>3. CASE f = "images"
    <3>1. v \in {"on", "off"} \cup {"on", "off"}
      BY <2>3 DEF S!Offered, S!Written
    <3>2. v \in Switches
      BY <3>1 DEF Switches
    <3>3. QED BY <2>3, <3>2 DEF SettingsRecords
  <2>4. CASE f = "idle"
    <3>1. v \in {0, 1} \cup {1}
      BY <2>4 DEF S!Offered, S!Written
    <3>2. v \in Nat
      BY <3>1
    <3>3. QED BY <2>4, <3>2 DEF SettingsRecords
  <2>5. CASE f = "rows"
    <3>1. v \in {3, 5} \cup {3, 25}
      BY <2>5 DEF S!Offered, S!Written
    <3>2. v \in Nat
      BY <3>1
    <3>3. QED BY <2>5, <3>2 DEF SettingsRecords
  <2>6. CASE f = "pad"
    <3>1. v \in {0, 1} \cup {1, 2}
      BY <2>6 DEF S!Offered, S!Written
    <3>2. v \in Nat
      BY <3>1
    <3>3. QED BY <2>6, <3>2 DEF SettingsRecords
  <2>7. CASE f = "execution"
    <3>1. v \in {} \cup {"sequential"}
      BY <2>7 DEF S!Offered, S!Written
    <3>2. v \in {"", "sequential"}
      BY <3>1
    <3>3. QED BY <2>7, <3>2 DEF SettingsRecords
  <2>8. QED BY <2>1, <2>2, <2>3, <2>4, <2>5, <2>6, <2>7 DEF S!Fields
<1>4. QED BY <1>2, <1>3 DEF IsSet

LEMMA ContentsTyped == S!Contents \subseteq SettingsFiles
<1> DEFINE quiet == [S!Unset EXCEPT !.images = "on", !.execution = "sequential"]
           more == [S!Unset EXCEPT !.editor = "vim", !.rows = 25, !.idle = 1]
           wrong == [S!Unset EXCEPT !.mode = "bad", !.rows = 3, !.pad = 1]
           wide == [S!Unset EXCEPT !.mode = "all", !.pad = 2]
           all == {S!Unset, quiet, more, wrong, wide}
<1>1. all \subseteq SettingsRecords
  <2>1. S!Unset \in SettingsRecords
    BY DefaultsTyped
  <2> USE DEF SettingsRecords, Editors, Modes, Switches
  <2>2. quiet \in SettingsRecords
    BY <2>1
  <2>3. more \in SettingsRecords
    BY <2>1
  <2>4. wrong \in SettingsRecords
    BY <2>1
  <2>5. wide \in SettingsRecords
    BY <2>1
  <2> HIDE DEF quiet, more, wrong, wide, SettingsRecords
  <2>6. QED BY <2>1, <2>2, <2>3, <2>4, <2>5
<1>2. \A x \in S!Contents : \E s \in all, profile \in {"", "emacs"} : x = S!File(s, profile)
  <2> HIDE DEF quiet, more, wrong, wide
  <2>1. S!Contents = {S!File(S!Unset, ""), S!File(quiet, "emacs"), S!File(more, "emacs"),
                      S!File(wrong, ""), S!File(wide, "")}
    BY DEF S!Contents, quiet, more, wrong, wide
  <2>2. QED BY <2>1
<1> HIDE DEF all
<1>3. ASSUME NEW s \in all, NEW profile \in {"", "emacs"}
      PROVE  S!File(s, profile) \in SettingsFiles
  BY <1>1 DEF S!File, SettingsFiles, Editors
<1>4. ASSUME NEW x \in S!Contents PROVE x \in SettingsFiles
  <2>1. PICK s \in all, profile \in {"", "emacs"} : x = S!File(s, profile)
    BY <1>2
  <2>2. QED BY <1>3, <2>1
<1>5. QED BY <1>4

LEMMA SettingsStart == ASSUME S!Init PROVE SettingsInv
<1>1. PICK places \in SUBSET {"global", "custom", "project"} :
             ("project" \in places => hasDir) /\ settings \in [places -> S!Contents]
  BY DEF S!Init
<1>2. /\ custom \in BOOLEAN /\ hasDir \in BOOLEAN /\ mem = <<>> /\ given = {} /\ saved = FALSE
      /\ chosen = [f \in S!Fields |-> None] /\ older = [p \in Programs |-> {}]
  BY DEF S!Init
<1>3. SettingsTypes
  <2>1. DOMAIN settings \subseteq {"global", "custom", "project"}
        /\ \A x \in DOMAIN settings : settings[x] \in SettingsFiles
    BY <1>1, ContentsTyped
  <2>2. DOMAIN mem = {} /\ DOMAIN older = Programs /\ DOMAIN chosen = S!Fields
        /\ \A f \in S!Fields : chosen[f] = None
    BY <1>2
  <2>3. QED BY <1>2, <2>1, <2>2 DEF SettingsTypes
<1>4. ChosenInv
  BY <1>2 DEF ChosenInv, S!Kept
<1>5. DOMAIN mem = {}
  BY <1>2
<1>6. ModeInv
  BY <1>2, <1>5 DEF ModeInv
<1>7. GivenInv
  BY <1>1, <1>2 DEF GivenInv
<1>8. QED BY <1>3, <1>4, <1>6, <1>7 DEF SettingsInv

LEMMA BeginningKeeps == ASSUME SettingsInv, NEW p \in Programs, S!Start(p) PROVE SettingsInv'
<1>1. /\ SettingsTypes /\ ChosenInv /\ ModeInv /\ GivenInv
      /\ mem' = S!With(mem, p, S!Loaded) /\ older' = [older EXCEPT ![p] = {}]
      /\ UNCHANGED <<settings, custom, hasDir, chosen, given, saved>> /\ S!Validate(S!Loaded)
  BY DEF SettingsInv, S!Start
<1>2. /\ DOMAIN mem' = {p} \cup DOMAIN mem /\ mem'[p] = S!Loaded
      /\ \A q \in DOMAIN mem : q # p => mem'[q] = mem[q] /\ older'[q] = older[q]
  BY <1>1 DEF S!With, SettingsTypes
<1>3. SettingsTypes'
  BY <1>1, <1>2, LoadedTyped DEF SettingsTypes
<1>4. \A f \in S!Kept : S!Hidden(f)' <=> S!Hidden(f)
  BY <1>1 DEF S!Hidden
<1>5. ChosenInv'
  <2>1. SUFFICES ASSUME ~custom, NEW f \in S!Kept, chosen[f] # None
                 PROVE  /\ "global" \in DOMAIN settings
                        /\ settings["global"].settings[f] = chosen[f]
                        /\ ~S!Hidden(f) => \A q \in DOMAIN mem' :
                                             f \notin older'[q] => mem'[q][f] = chosen[f]
    BY <1>1, <1>4 DEF ChosenInv
  <2>2. "global" \in DOMAIN settings /\ settings["global"].settings[f] = chosen[f]
    BY <1>1, <2>1 DEF ChosenInv
  <2>3. ~S!Hidden(f) => S!Loaded[f] = chosen[f]
    BY <1>1, <2>1, <2>2, LoadsChosen
  <2>4. ~S!Hidden(f) => \A q \in DOMAIN mem : f \notin older[q] => mem[q][f] = chosen[f]
    BY <1>1, <2>1 DEF ChosenInv
  <2>5. QED BY <1>2, <2>2, <2>3, <2>4
<1>6. ModeInv'
  <2>1. ~custom => /\ S!Loaded.mode # "bad"
                   /\ "project" \in DOMAIN settings => settings["project"].settings.mode # "bad"
    BY <1>1, LoadsMode
  <2>2. QED BY <1>1, <1>2, <2>1 DEF ModeInv
<1>7. GivenInv'
  <2>1. S!GrantFile' = S!GrantFile /\ S!GrantFile \in {"global", "project"}
    BY <1>1 DEF S!GrantFile
  <2>2. ASSUME ~custom, NEW k \in given PROVE k \in S!Loaded.grants
    BY <1>1, <2>1, <2>2, LoadsGrants DEF GivenInv
  <2>3. QED BY <1>1, <1>2, <2>1, <2>2 DEF GivenInv
<1>8. QED BY <1>3, <1>5, <1>6, <1>7 DEF SettingsInv

LEMMA QuitKeeps == ASSUME SettingsInv, NEW p \in Programs, S!Quit(p) PROVE SettingsInv'
<1>1. /\ SettingsTypes /\ ChosenInv /\ ModeInv /\ GivenInv
      /\ mem' = [q \in DOMAIN mem \ {p} |-> mem[q]] /\ older' = [older EXCEPT ![p] = {}]
      /\ UNCHANGED <<settings, custom, hasDir, chosen, given, saved>>
  BY DEF SettingsInv, S!Quit
<1>2. /\ DOMAIN mem' = DOMAIN mem \ {p}
      /\ \A q \in DOMAIN mem' : mem'[q] = mem[q] /\ older'[q] = older[q]
  BY <1>1 DEF SettingsTypes
<1>3. SettingsTypes'
  BY <1>1, <1>2 DEF SettingsTypes
<1>4. (\A f \in S!Kept : S!Hidden(f)' <=> S!Hidden(f)) /\ S!GrantFile' = S!GrantFile
  BY <1>1 DEF S!Hidden, S!GrantFile
<1>5. ChosenInv'
  BY <1>1, <1>2, <1>4 DEF ChosenInv
<1>6. ModeInv' /\ GivenInv'
  BY <1>1, <1>2, <1>4 DEF ModeInv, GivenInv
<1>7. QED BY <1>3, <1>5, <1>6 DEF SettingsInv

\* Who does not know of a change has not known before.
LEMMA StillUnknown ==
  ASSUME SettingsTypes, NEW p \in Programs, NEW what, older' = S!Unknown(p, what)
  PROVE  /\ DOMAIN older' = Programs
         /\ \A q \in DOMAIN mem : /\ older[q] \subseteq older'[q]
                                  /\ q # p => what \in older'[q]
BY DEF SettingsTypes, S!Unknown

\* What was chosen is lost only to programs that are older.
OverwriteStep ==
  \A f \in S!Kept, p \in Programs :
    /\ chosen[f] # None /\ chosen'[f] = None /\ p \in DOMAIN mem \cap DOMAIN mem'
    /\ mem'[p] # mem[p] /\ ~custom /\ ~S!Hidden(f)
    => f \in older[p]

\* So are permissions.
GrantsStep ==
  ~custom => \A k \in given \ given', p \in DOMAIN mem :
    p \in DOMAIN mem' /\ mem'[p] # mem[p] => "grants" \in older[p]

LEMMA ChooseKeeps ==
  ASSUME S!SettingsAssumption, SettingsInv, NEW p \in Programs, NEW f \in S!Fields,
         NEW v \in S!Offered[f], S!Choose(p, f, v)
  PROVE  SettingsInv' /\ OverwriteStep /\ GrantsStep
<1> DEFINE now == mem'[p]
<1>1. /\ SettingsTypes /\ ChosenInv /\ ModeInv /\ GivenInv
      /\ p \in DOMAIN mem /\ mem' = [mem EXCEPT ![p] = [mem[p] EXCEPT ![f] = v]]
      /\ settings' = S!With(settings, "global", S!File(now, ""))
      /\ chosen' = [g \in S!Fields |-> CASE g = f -> v
                                         [] g # f /\ mem[p][g] = chosen[g] -> chosen[g]
                                         [] OTHER -> None]
      /\ given' = (IF hasDir THEN given ELSE given \cap mem[p].grants)
      /\ older' = S!Unknown(p, f) /\ saved' = TRUE /\ UNCHANGED <<custom, hasDir>>
  BY DEF SettingsInv, S!Choose, S!Save
<1>2. IsSet(now, mem[p], f, v)
  BY <1>1, FieldSet DEF SettingsTypes
<1>3. DOMAIN mem' = DOMAIN mem /\ \A q \in DOMAIN mem : q # p => mem'[q] = mem[q]
  BY <1>1
<1> HIDE DEF now
<1>4. /\ DOMAIN settings' = {"global"} \cup DOMAIN settings
      /\ settings'["global"] \in SettingsFiles /\ settings'["global"].settings = now
      /\ \A x \in DOMAIN settings : x # "global" => settings'[x] = settings[x]
  <2>1. S!File(now, "") \in SettingsFiles /\ S!File(now, "").settings = now
    BY <1>2 DEF S!File, SettingsFiles, IsSet, Editors
  <2>2. QED BY <1>1, <2>1 DEF S!With
<1>5. /\ DOMAIN chosen' = S!Fields /\ chosen'[f] = v
      /\ \A g \in S!Fields : g # f => \/ chosen'[g] = chosen[g] /\ mem[p][g] = chosen[g]
                                      \/ chosen'[g] = None /\ mem[p][g] # chosen[g]
  BY <1>1
<1>6. /\ DOMAIN older' = Programs
      /\ \A q \in DOMAIN mem : older[q] \subseteq older'[q] /\ (q # p => f \in older'[q])
  BY <1>1, StillUnknown
<1>7. SettingsTypes'
  <2>1. \A q \in DOMAIN mem' : mem'[q] \in SettingsRecords
    BY <1>1, <1>2, <1>3 DEF SettingsTypes, IsSet, now
  <2>2. \A x \in DOMAIN settings' : settings'[x] \in SettingsFiles
    BY <1>1, <1>4 DEF SettingsTypes
  <2>3. \A g \in S!Fields : chosen'[g] = None \/ chosen'[g] \in S!Offered[g]
    BY <1>1, <1>5 DEF SettingsTypes
  <2>4. QED BY <1>1, <1>3, <1>4, <1>5, <1>6, <2>1, <2>2, <2>3 DEF SettingsTypes
<1>8. \A g \in S!Fields : S!Hidden(g)' <=> S!Hidden(g)
  BY <1>1, <1>4, <1>7, HiddenKept DEF SameButGrants
<1>9. ChosenInv'
  <2>1. SUFFICES ASSUME ~custom, NEW g \in S!Kept, chosen'[g] # None
                 PROVE  /\ now[g] = chosen'[g]
                        /\ ~S!Hidden(g) => \A q \in DOMAIN mem :
                                             g \notin older'[q] => mem'[q][g] = chosen'[g]
    BY <1>1, <1>3, <1>4, <1>8 DEF ChosenInv, S!Kept
  <2>2. CASE g = f
    <3>1. now[g] = chosen'[g]
      BY <1>2, <1>5, <2>2 DEF IsSet
    <3>2. QED BY <1>6, <2>2, <3>1 DEF now
  <2>3. CASE g # f
    <3>1. g \in S!Fields /\ chosen'[g] = chosen[g] /\ mem[p][g] = chosen[g]
      BY <1>5, <2>1, <2>3 DEF S!Kept
    <3>2. now[g] = chosen'[g]
      BY <1>2, <2>3, <3>1 DEF IsSet
    <3>3. ~S!Hidden(g) => \A q \in DOMAIN mem : g \notin older[q] => mem[q][g] = chosen[g]
      BY <1>1, <2>1, <3>1 DEF ChosenInv
    <3>4. QED BY <1>3, <1>6, <3>1, <3>2, <3>3 DEF now
  <2>4. QED BY <2>2, <2>3
<1>10. ModeInv'
  <2>1. ~custom => now.mode # "bad"
    <3>1. CASE f = "mode"
      BY <1>2, <3>1 DEF IsSet, S!Offered
    <3>2. CASE f # "mode"
      BY <1>1, <1>2, <3>2 DEF IsSet, ModeInv, S!Fields
    <3>3. QED BY <3>1, <3>2
  <2>2. QED BY <1>1, <1>3, <1>4, <2>1 DEF ModeInv, now
<1>11. GivenInv'
  <2>1. SUFFICES ASSUME ~custom, NEW k \in given'
                 PROVE  /\ S!GrantFile \in DOMAIN settings'
                        /\ k \in settings'[S!GrantFile].settings.grants
                        /\ ~hasDir => \A q \in DOMAIN mem :
                             "grants" \notin older'[q] => k \in mem'[q].grants
    <3>1. ("project" \in DOMAIN settings => hasDir)'
      BY <1>1, <1>4 DEF GivenInv
    <3>2. S!GrantFile' = S!GrantFile
      BY <1>1 DEF S!GrantFile
    <3>3. QED BY <1>1, <1>3, <3>1, <3>2 DEF GivenInv
  <2>2. now.grants = mem[p].grants
    BY <1>2 DEF IsSet
  <2>3. k \in given /\ (~hasDir => k \in now.grants)
    BY <1>1, <2>1, <2>2
  <2>4. CASE hasDir
    BY <1>1, <1>4, <2>1, <2>3, <2>4 DEF GivenInv, S!GrantFile
  <2>5. CASE ~hasDir
    <3>1. \A q \in DOMAIN mem : "grants" \notin older[q] => k \in mem[q].grants
      BY <1>1, <2>1, <2>3, <2>5 DEF GivenInv
    <3>2. \A q \in DOMAIN mem : "grants" \notin older'[q] => k \in mem'[q].grants
      BY <1>3, <1>6, <2>2, <3>1 DEF now
    <3>3. QED BY <1>4, <2>3, <2>5, <3>2 DEF S!GrantFile
  <2>6. QED BY <2>4, <2>5
<1>12. OverwriteStep
  <2>1. SUFFICES ASSUME NEW g \in S!Kept, chosen[g] # None, chosen'[g] = None, ~custom, ~S!Hidden(g)
                 PROVE  g \in older[p]
    BY <1>3 DEF OverwriteStep
  <2>2. v # None
    BY DEF S!SettingsAssumption
  <2>3. g # f /\ g \in S!Fields /\ mem[p][g] # chosen[g]
    BY <1>5, <2>1, <2>2 DEF S!Kept
  <2>4. QED BY <1>1, <2>1, <2>3 DEF ChosenInv
<1>13. GrantsStep
  <2>1. SUFFICES ASSUME ~custom, NEW k \in given \ given' PROVE "grants" \in older[p]
    BY <1>3 DEF GrantsStep
  <2>2. ~hasDir /\ k \in given /\ k \notin mem[p].grants
    BY <1>1, <2>1
  <2>3. QED BY <1>1, <2>1, <2>2 DEF GivenInv
<1>14. QED BY <1>7, <1>9, <1>10, <1>11, <1>12, <1>13 DEF SettingsInv
LEMMA GrantKeeps ==
  ASSUME SettingsInv, NEW p \in Programs, NEW k \in Keys, S!Grant(p, k)
  PROVE  SettingsInv' /\ given \subseteq given'
<1> DEFINE now == mem'[p]
           place == S!GrantFile
<1>1. /\ SettingsTypes /\ ChosenInv /\ ModeInv /\ GivenInv
      /\ p \in DOMAIN mem /\ mem' = [mem EXCEPT ![p] = [mem[p] EXCEPT !.grants = @ \cup {k}]]
      /\ S!Persist(k) /\ older' = S!Unknown(p, "grants")
      /\ UNCHANGED <<custom, hasDir, chosen, saved>>
  BY DEF SettingsInv, S!Grant
<1>2. /\ now \in SettingsRecords /\ now.grants = mem[p].grants \cup {k}
      /\ \A f \in S!Fields : now[f] = mem[p][f]
  <2>1. mem[p] \in SettingsRecords /\ now = [mem[p] EXCEPT !.grants = @ \cup {k}]
    BY <1>1 DEF SettingsTypes
  <2> HIDE DEF now
  <2>2. QED BY <2>1 DEF SettingsRecords, S!Fields
<1>3. DOMAIN mem' = DOMAIN mem /\ \A q \in DOMAIN mem : q # p => mem'[q] = mem[q]
  BY <1>1
<1>4. /\ DOMAIN settings' = DOMAIN settings
      /\ \A x \in DOMAIN settings :
           /\ settings'[x] \in SettingsFiles /\ SameButGrants(settings'[x], settings[x])
           /\ settings[x].settings.grants \subseteq settings'[x].settings.grants
      /\ \/ given' = given
         \/ given' = given \cup {k} /\ place \in DOMAIN settings
            /\ k \in settings'[place].settings.grants
  <2>1. CASE place \in DOMAIN settings
    <3> DEFINE file == settings[place]
               new == [file EXCEPT !.settings = [file.settings EXCEPT !.grants = @ \cup {k}]]
    <3>1. settings' = [settings EXCEPT ![place] = new] /\ given' = given \cup {k}
      BY <1>1, <2>1 DEF S!Persist
    <3>2. file \in SettingsFiles
      BY <1>1, <2>1 DEF SettingsTypes
    <3> HIDE DEF file
    <3>3. /\ new \in SettingsFiles /\ SameButGrants(new, file)
          /\ new.settings.grants = file.settings.grants \cup {k}
      BY <3>2 DEF SettingsFiles, SettingsRecords, SameButGrants, S!Fields
    <3> HIDE DEF new
    <3>4. \A x \in DOMAIN settings : settings[x] \in SettingsFiles /\ SameButGrants(settings[x], settings[x])
      BY <1>1 DEF SettingsTypes, SameButGrants
    <3> HIDE DEF place
    <3>5. QED BY <2>1, <3>1, <3>3, <3>4 DEF file
  <2>2. CASE place \notin DOMAIN settings
    BY <1>1, <2>2 DEF S!Persist, SettingsTypes, SameButGrants
  <2>3. QED BY <2>1, <2>2
<1> HIDE DEF now
<1>5. /\ DOMAIN older' = Programs
      /\ \A q \in DOMAIN mem : older[q] \subseteq older'[q] /\ (q # p => "grants" \in older'[q])
  BY <1>1, StillUnknown
<1>6. SettingsTypes'
  <2>1. \A q \in DOMAIN mem' : mem'[q] \in SettingsRecords
    BY <1>1, <1>2, <1>3 DEF SettingsTypes, now
  <2>2. QED BY <1>1, <1>3, <1>4, <1>5, <2>1 DEF SettingsTypes
<1>7. \A g \in S!Fields : S!Hidden(g)' <=> S!Hidden(g)
  BY <1>1, <1>4, <1>6, HiddenKept
<1>8. ChosenInv'
  <2>1. SUFFICES ASSUME ~custom, NEW g \in S!Kept, chosen[g] # None
                 PROVE  /\ "global" \in DOMAIN settings
                        /\ settings'["global"].settings[g] = chosen[g]
                        /\ ~S!Hidden(g) => \A q \in DOMAIN mem :
                                             g \notin older'[q] => mem'[q][g] = chosen[g]
    BY <1>1, <1>3, <1>4, <1>7 DEF ChosenInv, S!Kept
  <2>2. /\ g \in S!Fields /\ "global" \in DOMAIN settings
        /\ settings["global"].settings[g] = chosen[g]
        /\ ~S!Hidden(g) => \A q \in DOMAIN mem : g \notin older[q] => mem[q][g] = chosen[g]
    BY <1>1, <2>1 DEF ChosenInv, S!Kept
  <2>3. settings'["global"].settings[g] = chosen[g]
    BY <1>4, <2>2 DEF SameButGrants
  <2>4. \A q \in DOMAIN mem : mem'[q][g] = mem[q][g]
    BY <1>2, <1>3, <2>2 DEF now
  <2>5. QED BY <1>5, <2>2, <2>3, <2>4
<1>9. ModeInv'
  <2>1. /\ \A q \in DOMAIN mem : mem'[q].mode = mem[q].mode
        /\ \A x \in DOMAIN settings : settings'[x].settings.mode = settings[x].settings.mode
    BY <1>2, <1>3, <1>4 DEF now, SameButGrants, S!Fields
  <2>2. QED BY <1>1, <1>3, <1>4, <2>1 DEF ModeInv
<1>10. GivenInv'
  <2>1. SUFFICES ASSUME ~custom, NEW j \in given'
                 PROVE  /\ place \in DOMAIN settings /\ j \in settings'[place].settings.grants
                        /\ ~hasDir => \A q \in DOMAIN mem :
                             "grants" \notin older'[q] => j \in mem'[q].grants
    <3>1. S!GrantFile' = place
      BY <1>1 DEF S!GrantFile
    <3>2. ("project" \in DOMAIN settings => hasDir)'
      BY <1>1, <1>4 DEF GivenInv
    <3>3. QED BY <1>1, <1>3, <1>4, <3>1, <3>2 DEF GivenInv
  <2>2. CASE j \in given
    <3>1. /\ place \in DOMAIN settings /\ j \in settings[place].settings.grants
          /\ ~hasDir => \A q \in DOMAIN mem : "grants" \notin older[q] => j \in mem[q].grants
      BY <1>1, <2>1, <2>2 DEF GivenInv
    <3> HIDE DEF place
    <3>2. \A q \in DOMAIN mem : mem[q].grants \subseteq mem'[q].grants
      BY <1>2, <1>3 DEF now
    <3>3. QED BY <1>4, <1>5, <3>1, <3>2
  <2>3. CASE j \notin given
    <3>1. j = k /\ place \in DOMAIN settings /\ j \in settings'[place].settings.grants
      BY <1>4, <2>1, <2>3
    <3>2. QED BY <1>2, <1>5, <3>1 DEF now
  <2>4. QED BY <2>2, <2>3
<1>11. given \subseteq given'
  BY <1>4
<1>12. QED BY <1>6, <1>8, <1>9, <1>10, <1>11 DEF SettingsInv

LEMMA ConfigSetKeeps ==
  ASSUME SettingsInv, NEW f \in S!Fields, NEW v \in S!Written[f], S!ConfigSet(f, v)
  PROVE  SettingsInv'
<1> DEFINE place == S!UserFile
           file == IF place \in DOMAIN settings THEN settings[place] ELSE S!File(S!Unset, "")
           new == [file EXCEPT !.settings = [file.settings EXCEPT ![f] = v]]
<1>1. /\ SettingsTypes /\ ChosenInv /\ ModeInv /\ GivenInv
      /\ settings' = S!With(settings, place, new)
      /\ chosen' = [chosen EXCEPT ![f] = None] /\ saved' = (saved /\ custom)
      /\ UNCHANGED <<custom, hasDir, mem, older, given>>
  BY DEF SettingsInv, S!ConfigSet
<1>2. place \in {"global", "custom"} /\ (~custom => place = "global")
  BY DEF S!UserFile
<1>3. file \in SettingsFiles
  BY <1>1, DefaultsTyped DEF SettingsTypes, S!File, SettingsFiles, Editors
<1> HIDE DEF file
<1>4. IsSet(new.settings, file.settings, f, v) /\ new \in SettingsFiles
  <2>1. file.settings \in SettingsRecords
    BY <1>3 DEF SettingsFiles
  <2>2. IsSet([file.settings EXCEPT ![f] = v], file.settings, f, v)
    BY <2>1, FieldSet
  <2>3. QED BY <1>3, <2>2 DEF SettingsFiles, IsSet
<1> HIDE DEF new, place
<1>5. /\ DOMAIN settings' = {place} \cup DOMAIN settings /\ settings'[place] = new
      /\ \A x \in DOMAIN settings : x # place => settings'[x] = settings[x]
  BY <1>1 DEF S!With
<1>6. /\ DOMAIN chosen' = S!Fields /\ chosen'[f] = None
      /\ \A g \in S!Fields : g # f => chosen'[g] = chosen[g]
  BY <1>1 DEF SettingsTypes
<1>7. SettingsTypes'
  <2>1. DOMAIN settings' \subseteq {"global", "custom", "project"}
        /\ \A x \in DOMAIN settings' : settings'[x] \in SettingsFiles
    BY <1>1, <1>2, <1>4, <1>5 DEF SettingsTypes
  <2>2. QED BY <1>1, <1>6, <2>1 DEF SettingsTypes
<1>8. \A g \in S!Fields : S!Hidden(g)' <=> S!Hidden(g)
  <2>1. "project" \in DOMAIN settings' <=> "project" \in DOMAIN settings
    BY <1>2, <1>5
  <2>2. "project" \in DOMAIN settings => SameButGrants(settings'["project"], settings["project"])
    BY <1>2, <1>5 DEF SameButGrants
  <2>3. QED BY <1>1, <1>7, <2>1, <2>2, HiddenKept
<1>9. ChosenInv'
  <2>1. SUFFICES ASSUME ~custom, NEW g \in S!Kept, chosen'[g] # None
                 PROVE  /\ "global" \in DOMAIN settings'
                        /\ settings'["global"].settings[g] = chosen'[g]
                        /\ ~S!Hidden(g) => \A q \in DOMAIN mem :
                                             g \notin older[q] => mem[q][g] = chosen'[g]
    BY <1>1, <1>8 DEF ChosenInv, S!Kept
  <2>2. g \in S!Fields /\ g # f /\ chosen'[g] = chosen[g]
    BY <1>6, <2>1 DEF S!Kept
  <2>3. /\ "global" \in DOMAIN settings /\ settings["global"].settings[g] = chosen[g]
        /\ ~S!Hidden(g) => \A q \in DOMAIN mem : g \notin older[q] => mem[q][g] = chosen[g]
    BY <1>1, <2>1, <2>2 DEF ChosenInv
  <2>4. settings'["global"].settings[g] = settings["global"].settings[g]
    BY <1>2, <1>4, <1>5, <2>1, <2>2, <2>3 DEF IsSet, file
  <2>5. QED BY <1>5, <2>2, <2>3, <2>4
<1>10. ModeInv'
  BY <1>1, <1>2, <1>5 DEF ModeInv
<1>11. GivenInv'
  <2>1. SUFFICES ASSUME ~custom, NEW k \in given
                 PROVE  /\ S!GrantFile \in DOMAIN settings'
                        /\ k \in settings'[S!GrantFile].settings.grants
    <3>1. S!GrantFile' = S!GrantFile
      BY <1>1 DEF S!GrantFile
    <3>2. ("project" \in DOMAIN settings => hasDir)'
      BY <1>1, <1>2, <1>5 DEF GivenInv
    <3>3. QED BY <1>1, <3>1, <3>2 DEF GivenInv
  <2>2. S!GrantFile \in DOMAIN settings /\ k \in settings[S!GrantFile].settings.grants
    BY <1>1, <2>1 DEF GivenInv
  <2>3. S!GrantFile = place => new.settings.grants = settings[S!GrantFile].settings.grants
    BY <1>4, <2>2 DEF IsSet, file
  <2>4. QED BY <1>5, <2>2, <2>3
<1>12. QED BY <1>7, <1>9, <1>10, <1>11 DEF SettingsInv

\* What the invariant says of a program that starts now.
LEMMA FoundAgain ==
  ASSUME SettingsInv
  PROVE  S!ChosenIsLoaded /\ S!SavedLoads /\ (~custom => given \subseteq S!Loaded.grants)
<1>1. SettingsTypes /\ ChosenInv /\ ModeInv /\ GivenInv
  BY DEF SettingsInv
<1>2. S!ChosenIsLoaded
  BY <1>1, LoadsChosen DEF S!ChosenIsLoaded, ChosenInv
<1>3. S!SavedLoads
  BY <1>1, LoadsMode DEF S!SavedLoads, ModeInv
<1>4. ASSUME ~custom, NEW k \in given PROVE k \in S!Loaded.grants
  <2>1. S!GrantFile \in {"global", "project"}
    BY DEF S!GrantFile
  <2>2. QED BY <1>1, <1>4, <2>1, LoadsGrants DEF GivenInv
<1>5. QED BY <1>2, <1>3, <1>4

LEMMA FoundAfter == SettingsInv' => (~custom => given \subseteq S!Loaded.grants)'
<1>1. SettingsInv => (~custom => given \subseteq S!Loaded.grants)
  BY FoundAgain
<1>2. QED BY <1>1, PTL

\* For any programs and permissions and any number of changes (settings.go, config.go): what a
\* user chose in an overlay is loaded by the next program, which is not kept from starting, and
\* programs that save overwrite choices and permissions of others only if they are older.
THEOREM ChoicesAreKept == S!Spec => ChoicesKept
<1>1. S!SettingsAssumption
  BY PartsAssumption
<1>2. S!Init => SettingsInv
  BY SettingsStart
<1>3. SettingsInv /\ [S!Next]_(S!vars) => SettingsInv' /\ [OverwriteStep]_(S!vars) /\ [GrantsStep]_(S!vars)
  <2>1. SUFFICES ASSUME SettingsInv, [S!Next]_(S!vars)
                 PROVE  SettingsInv' /\ [OverwriteStep]_(S!vars) /\ [GrantsStep]_(S!vars)
    OBVIOUS
  <2>4. CASE \E p \in Programs : S!Start(p) \/ S!Quit(p)
    <3>1. SettingsInv'
      BY <2>1, <2>4, BeginningKeeps, QuitKeeps
    <3>2. UNCHANGED <<chosen, given>>
      BY <2>4 DEF S!Start, S!Quit
    <3>3. QED BY <3>1, <3>2 DEF OverwriteStep, GrantsStep
  <2>5. CASE \E p \in Programs, f \in S!Fields : \E v \in S!Offered[f] : S!Choose(p, f, v)
    BY <1>1, <2>1, <2>5, ChooseKeeps
  <2>6. CASE \E p \in Programs, k \in Keys : S!Grant(p, k)
    <3>1. SettingsInv' /\ given \subseteq given'
      BY <2>1, <2>6, GrantKeeps
    <3>2. UNCHANGED chosen
      BY <2>6 DEF S!Grant
    <3>3. QED BY <3>1, <3>2 DEF OverwriteStep, GrantsStep
  <2>7. CASE \E f \in S!Fields : \E v \in S!Written[f] : S!ConfigSet(f, v)
    <3>1. SettingsInv'
      BY <2>1, <2>7, ConfigSetKeeps
    <3>2. UNCHANGED <<mem, given>>
      BY <2>7 DEF S!ConfigSet
    <3>3. QED BY <3>1, <3>2 DEF OverwriteStep, GrantsStep
  <2>8. CASE UNCHANGED S!vars
    <3>1. UNCHANGED <<settings, custom, hasDir, mem, chosen, older, given, saved>>
      BY <2>8 DEF S!vars
    <3>2. /\ S!GrantFile' = S!GrantFile
          /\ \A f \in S!Kept : S!Hidden(f)' <=> S!Hidden(f)
      BY <3>1 DEF S!GrantFile, S!Hidden
    <3>3. SettingsTypes' /\ ModeInv'
      BY <2>1, <3>1 DEF SettingsInv, SettingsTypes, ModeInv
    <3>4. ChosenInv' /\ GivenInv'
      BY <2>1, <3>1, <3>2 DEF SettingsInv, ChosenInv, GivenInv
    <3>5. QED BY <2>8, <3>3, <3>4 DEF SettingsInv
  <2>9. QED BY <2>1, <2>4, <2>5, <2>6, <2>7, <2>8 DEF S!Next
<1>4. SettingsInv => S!ChosenIsLoaded /\ S!SavedLoads
  BY FoundAgain
<1>5. S!Spec => []SettingsInv
  BY <1>2, <1>3, PTL DEF S!Spec
<1>6. S!Spec => S!OnlyOlderOverwrite
  <2>1. SettingsInv /\ [S!Next]_(S!vars) => [OverwriteStep]_(S!vars)
    BY <1>3
  <2>2. QED BY <1>5, <2>1, PTL DEF S!Spec, S!OnlyOlderOverwrite, OverwriteStep
<1>7. S!Spec => S!GrantsKept
  <2> DEFINE Step == ~custom =>
                       /\ given' \subseteq S!Loaded.grants'
                       /\ \A k \in given \ given', p \in DOMAIN mem :
                            p \in DOMAIN mem' /\ mem'[p] # mem[p] => "grants" \in older[p]
  <2>1. SettingsInv /\ SettingsInv' /\ [S!Next]_(S!vars) => [Step]_(S!vars)
    <3>1. SUFFICES ASSUME SettingsInv, SettingsInv', S!Next, GrantsStep PROVE Step
      BY <1>3
    <3>2. custom' = custom
      BY <3>1 DEF S!Next, S!Start, S!Quit, S!Choose, S!Grant, S!ConfigSet
    <3>3. QED BY <3>1, <3>2, FoundAfter DEF GrantsStep
  <2>2. QED BY <1>5, <2>1, PTL DEF S!Spec, S!GrantsKept
<1>8. QED BY <1>4, <1>5, <1>6, <1>7, PTL DEF ChoicesKept, S!ChoicesKept
=============================================================================
