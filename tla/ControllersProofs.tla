-------------------------- MODULE ControllersProofs --------------------------
(***************************************************************************)
(* The invariants of Controllers.tla, for any number of controllers and    *)
(* filters and any nesting of calls: the stack of calls is a chain of      *)
(* controllers that are loaded, and what is still due of a pass over the   *)
(* list lies ahead of where the pass is, through every load and unload.    *)
(***************************************************************************)
EXTENDS Controllers, DataLemmas

Frame == [who : Controllers, saved : Controllers \cup {None}]

\* Every call in progress is of a loaded controller, which cannot go, saved
\* the key of the call below, and has its controller marked with what it is.
FramesLinked ==
  /\ frames \in Seq(Frame)
  /\ \A i \in DOMAIN frames :
       /\ frames[i].who \in Loaded
       /\ frames[i].saved = (IF i = 1 THEN None ELSE frames[i - 1].who)
       /\ mark[frames[i].who] = (IF i = 1 /\ stage \in Phases THEN stage ELSE "construct")

\* In a pass the first call is that of a hook, of the controller the pass is
\* at; it is at none between passes, and nothing is called in the flow.
HookFirst ==
  /\ at # None => stage \in Phases
  /\ frames # <<>> => stage # "flowing" /\ (stage \in Phases => frames[1].who = at)

\* a comes no later than c in the pass that is made.
Ahead(a, c) ==
  \E i, j \in DOMAIN list :
    list[i] = a /\ list[j] = c /\ (IF IsStop(stage) THEN j <= i ELSE i <= j)

\* What is still due is loaded, has the hook, and is not behind in the pass.
DueAhead ==
  \A c \in due :
    /\ c \in Loaded /\ at \in Loaded /\ stage \in hooks[c]
    /\ frames # <<>> => c # at
    /\ Ahead(at, c)

PostsOwned == DOMAIN posts = Filters /\ CallbackOwned

\* The inductive invariant.
Inv == KeyIsCaller /\ FramesLinked /\ HookFirst /\ DueAhead /\ PostsOwned

\* None is no controller, and no stage is the mark of a construct().
LEMMA Names ==
  /\ None \notin Controllers
  /\ Phases = {"preStart", "postStart", "preStop", "postStop"}
  BY ControllersAssumption DEF Phases

-----------------------------------------------------------------------------
(***************************************************************************)
(* What calling a function of a controller and returning from it leave.    *)
(***************************************************************************)

\* What Inv says of the list, the key and the stack of calls.
CallsExact == 
  /\ list \in Seq(Controllers) /\ IsInjective(list)
  /\ mark \in [Controllers -> Phases \cup {"none", "construct"}]
  /\ key = (IF frames = <<>> THEN None ELSE Last(frames).who)
  /\ {c \in Controllers : mark[c] # "none"} = {frames[i].who : i \in DOMAIN frames}
  /\ IsInjective([i \in DOMAIN frames |-> frames[i].who])
  /\ FramesLinked

LEMMA CallsOfInv == Inv => CallsExact
  BY DEF Inv, KeyIsCaller, TypeOK, CallsExact

\* The key is a controller or none.
LEMMA KeyTyped ==
  ASSUME CallsExact
  PROVE  key \in Controllers \cup {None}
<1>1. CASE frames = <<>>
  BY <1>1 DEF CallsExact
<1>2. CASE frames # <<>>
  <2>1. Last(frames) \in Frame
    BY <1>2, PoppedList DEF CallsExact, FramesLinked
  <2> QED
    BY <1>2, <2>1 DEF CallsExact, Frame
<1> QED
  BY <1>1, <1>2

\* Enter() of a controller that is not running, with the list grown or not.
LEMMA EnterExact ==
  ASSUME CallsExact, NEW c \in Controllers, NEW phase, Enter(c, phase), mark[c] = "none",
         list' \in Seq(Controllers), IsInjective(list'), Loaded \subseteq Loaded', c \in Loaded',
         UNCHANGED stage,
         phase = (IF frames = <<>> /\ stage \in Phases THEN stage ELSE "construct")
  PROVE  CallsExact'
<1> DEFINE new == [who |-> c, saved |-> key]
           n == Len(frames) + 1
<1>1. frames \in Seq(Frame) /\ new \in Frame /\ frames' = Append(frames, new)
  BY KeyTyped DEF CallsExact, FramesLinked, Frame, Enter
<1> HIDE DEF new
<1>2. /\ frames' \in Seq(Frame) /\ DOMAIN frames' = 1 .. n /\ Len(frames') = n
      /\ \A i \in DOMAIN frames : frames'[i] = frames[i]
      /\ frames'[n] = new /\ Last(frames') = new
  BY <1>1, AppendedList
<1>3. Len(frames) \in Nat /\ DOMAIN frames = 1 .. Len(frames) /\ (frames = <<>> <=> Len(frames) = 0)
  BY <1>1, LenProperties, EmptySeq
<1>4. frames' # <<>>
  BY <1>2, <1>3, EmptySeq
<1>5. new.who = c /\ new.saved = key
  BY DEF new
<1>6. mark' = [mark EXCEPT ![c] = phase] /\ key' = c
  BY DEF Enter
<1>7. phase # "none" /\ phase \in Phases \cup {"construct"}
  BY Names
<1>8. mark' \in [Controllers -> Phases \cup {"none", "construct"}]
  BY <1>6, <1>7 DEF CallsExact
<1>9. \A i \in DOMAIN frames : frames[i].who # c
  BY DEF CallsExact
<1>10. {d \in Controllers : mark'[d] # "none"} = {frames'[i].who : i \in DOMAIN frames'}
  <2>1. {d \in Controllers : mark'[d] # "none"} = {d \in Controllers : mark[d] # "none"} \cup {c}
    BY <1>6, <1>7 DEF CallsExact
  <2>2. {frames'[i].who : i \in DOMAIN frames'} = {frames[i].who : i \in DOMAIN frames} \cup {c}
    BY <1>2, <1>3, <1>5
  <2> QED
    BY <2>1, <2>2 DEF CallsExact
<1>11. IsInjective([i \in DOMAIN frames' |-> frames'[i].who])
  <2>1. \A i, j \in DOMAIN frames : frames[i].who = frames[j].who => i = j
    BY DEF CallsExact, IsInjective
  <2>2. \A i, j \in DOMAIN frames' : frames'[i].who = frames'[j].who => i = j
    BY <1>2, <1>3, <1>5, <1>9, <2>1
  <2> QED
    BY <2>2 DEF IsInjective
<1>12. FramesLinked'
  <2> SUFFICES ASSUME NEW i \in DOMAIN frames'
               PROVE  /\ frames'[i].who \in Loaded'
                      /\ frames'[i].saved = (IF i = 1 THEN None ELSE frames'[i - 1].who)
                      /\ mark'[frames'[i].who] =
                           (IF i = 1 /\ stage' \in Phases THEN stage' ELSE "construct")
    BY <1>2 DEF FramesLinked
  <2>1. CASE i = n
    <3>1. frames'[i].who = c /\ frames'[i].saved = key
      BY <1>2, <1>5, <2>1
    <3>2. key = (IF i = 1 THEN None ELSE frames'[i - 1].who)
      <4>1. CASE frames = <<>>
        BY <1>3, <2>1, <4>1 DEF CallsExact
      <4>2. CASE frames # <<>>
        <5>1. i - 1 = Len(frames) /\ i - 1 \in DOMAIN frames /\ i # 1
          BY <1>3, <2>1, <4>2
        <5>2. key = frames[Len(frames)].who
          BY <4>2 DEF CallsExact, Last
        <5> QED
          BY <1>2, <5>1, <5>2
      <4> QED
        BY <4>1, <4>2
    <3>3. mark'[c] = phase /\ (i = 1 <=> frames = <<>>)
      BY <1>3, <1>6, <2>1 DEF CallsExact
    <3> QED
      BY <3>1, <3>2, <3>3
  <2>2. CASE i # n
    <3>1. i \in DOMAIN frames /\ (i # 1 => i - 1 \in DOMAIN frames)
      BY <1>2, <1>3, <2>2
    <3>2. frames'[i] = frames[i] /\ (i # 1 => frames'[i - 1] = frames[i - 1])
      BY <1>2, <3>1
    <3>3. mark'[frames[i].who] = mark[frames[i].who]
      <4>1. i \in 1 .. Len(frames)
        BY <1>3, <3>1
      <4>2. frames[i] \in Frame
        BY <1>1, <4>1, ElementOfSeq
      <4>3. frames[i].who \in Controllers
        BY <4>2 DEF Frame
      <4> QED
        BY <1>6, <1>9, <3>1, <4>3 DEF CallsExact
    <3>4. /\ frames[i].who \in Loaded
          /\ frames[i].saved = (IF i = 1 THEN None ELSE frames[i - 1].who)
          /\ mark[frames[i].who] = (IF i = 1 /\ stage \in Phases THEN stage ELSE "construct")
      BY <3>1 DEF CallsExact, FramesLinked
    <3> QED
      BY <3>1, <3>2, <3>3, <3>4
  <2> QED
    BY <2>1, <2>2
<1> QED
  BY <1>2, <1>4, <1>5, <1>6, <1>8, <1>10, <1>11, <1>12 DEF CallsExact
\* A return from the call on top, to the key that it saved.
LEMMA ReturnExact ==
  ASSUME CallsExact, frames # <<>>, NEW c, c = Last(frames).who,
         frames' = Front(frames), key' = Last(frames).saved,
         mark' = [mark EXCEPT ![c] = "none"],
         list' \in Seq(Controllers), IsInjective(list'), Loaded \ {c} \subseteq Loaded',
         UNCHANGED stage
  PROVE  CallsExact'
<1> DEFINE n == Len(frames)
<1>1. /\ frames' \in Seq(Frame) /\ n \in Nat \ {0} /\ DOMAIN frames = 1 .. n
      /\ Last(frames) = frames[n] /\ Last(frames) \in Frame
      /\ DOMAIN frames' = 1 .. n - 1 /\ Len(frames') = n - 1
      /\ \A i \in 1 .. n - 1 : frames'[i] = frames[i]
      /\ frames' = <<>> <=> n = 1
  BY PoppedList DEF CallsExact, FramesLinked
<1>2. c = frames[n].who /\ c \in Controllers /\ n \in DOMAIN frames
  BY <1>1 DEF Frame
<1>3. \A i, j \in DOMAIN frames : frames[i].who = frames[j].who => i = j
  BY DEF CallsExact, IsInjective
<1> HIDE DEF n
<1>4. \A i \in DOMAIN frames' : i \in DOMAIN frames /\ i # n /\ frames[i].who # c
  BY <1>1, <1>2, <1>3
<1>5. mark' \in [Controllers -> Phases \cup {"none", "construct"}]
  BY <1>2 DEF CallsExact
<1>6. \A d \in Controllers : mark'[d] = IF d = c THEN "none" ELSE mark[d]
  BY DEF CallsExact
<1>7. {d \in Controllers : mark'[d] # "none"} = {frames'[i].who : i \in DOMAIN frames'}
  <2>1. {d \in Controllers : mark'[d] # "none"} = {frames[i].who : i \in DOMAIN frames} \ {c}
    BY <1>6 DEF CallsExact
  <2>2. {frames[i].who : i \in DOMAIN frames} \ {c} = {frames'[i].who : i \in DOMAIN frames'}
    <3>1. \A i \in DOMAIN frames : i = n \/ i \in DOMAIN frames'
      BY <1>1
    <3> QED
      BY <1>1, <1>2, <1>4, <3>1
  <2> QED
    BY <2>1, <2>2
<1>8. IsInjective([i \in DOMAIN frames' |-> frames'[i].who])
  <2>1. \A i, j \in DOMAIN frames' : frames'[i].who = frames'[j].who => i = j
    BY <1>1, <1>3, <1>4
  <2> QED
    BY <2>1 DEF IsInjective
<1>9. key' = (IF frames' = <<>> THEN None ELSE Last(frames').who)
  <2>1. key' = (IF n = 1 THEN None ELSE frames[n - 1].who)
    BY <1>1, <1>2 DEF CallsExact, FramesLinked
  <2>2. n # 1 => Last(frames') = frames[n - 1]
    <3>1. n # 1 => n - 1 \in 1 .. n - 1
      BY <1>1
    <3> QED
      BY <1>1, <3>1 DEF Last
  <2> QED
    BY <1>1, <2>1, <2>2
<1>10. FramesLinked'
  <2> SUFFICES ASSUME NEW i \in DOMAIN frames'
               PROVE  /\ frames'[i].who \in Loaded'
                      /\ frames'[i].saved = (IF i = 1 THEN None ELSE frames'[i - 1].who)
                      /\ mark'[frames'[i].who] =
                           (IF i = 1 /\ stage' \in Phases THEN stage' ELSE "construct")
    BY <1>1 DEF FramesLinked
  <2>1. frames'[i] = frames[i] /\ (i # 1 => frames'[i - 1] = frames[i - 1])
    <3>1. i \in 1 .. n - 1 /\ (i # 1 => i - 1 \in 1 .. n - 1)
      BY <1>1
    <3> QED
      BY <1>1, <3>1
  <2>2. i \in DOMAIN frames /\ frames[i].who # c
    BY <1>4
  <2>3. /\ frames[i].who \in Loaded
        /\ frames[i].saved = (IF i = 1 THEN None ELSE frames[i - 1].who)
        /\ mark[frames[i].who] = (IF i = 1 /\ stage \in Phases THEN stage ELSE "construct")
    BY <2>2 DEF CallsExact, FramesLinked
  <2>4. frames[i].who \in Controllers
    BY <2>2 DEF CallsExact
  <2>5. mark'[frames[i].who] = mark[frames[i].who]
    BY <1>6, <2>2, <2>4
  <2> QED
    BY <2>1, <2>2, <2>3, <2>5
<1> QED
  BY <1>1, <1>5, <1>7, <1>8, <1>9, <1>10 DEF CallsExact

\* Of a controller that goes, nothing is left but the order of the others.
LEMMA UnloadedExact ==
  ASSUME NEW c \in Loaded, list \in Seq(Controllers), IsInjective(list),
         list' = RemoveAt(list, Place(c))
  PROVE  /\ list' \in Seq(Controllers) /\ IsInjective(list')
         /\ Loaded' = Loaded \ {c}
         /\ \A a, b \in Loaded \ {c} :
              \A i, j \in DOMAIN list :
                list[i] = a /\ list[j] = b /\ i <= j =>
                  \E k, m \in DOMAIN list' : k <= m /\ list'[k] = a /\ list'[m] = b
<1>1. PICK n \in DOMAIN list : c = list[n]
  BY DEF Loaded, ToSet
<1>2. Place(c) = n
  BY <1>1, PlaceFacts DEF Place
<1>3. /\ list' \in Seq(Controllers) /\ IsInjective(list')
      /\ ToSet(list') = ToSet(list) \ {c}
  BY <1>1, <1>2, RemovedAt, RemovedOnce
<1>4. ASSUME NEW a \in Loaded \ {c}, NEW b \in Loaded \ {c},
             NEW i \in DOMAIN list, NEW j \in DOMAIN list,
             list[i] = a, list[j] = b, i <= j
      PROVE  \E k, m \in DOMAIN list' : k <= m /\ list'[k] = a /\ list'[m] = b
  <2>1. i \in DOMAIN list \ {n} /\ j \in DOMAIN list \ {n}
    BY <1>1, <1>4
  <2> QED
    BY <1>2, <1>4, <2>1, RemovedOrder
<1> QED
  BY <1>3, <1>4 DEF Loaded

-----------------------------------------------------------------------------
(***************************************************************************)
(* The pass over the list.                                                 *)
(***************************************************************************)
Stages == Phases \cup {"stopped", "failed", "ready", "flowing"}

\* Where a stack of calls came from and what it makes of the other parts.
LEMMA StackFacts ==
  ASSUME Inv
  PROVE  /\ \A c \in Controllers : mark[c] # "none" => c \in Loaded
         /\ at # None /\ frames # <<>> => mark[at] = stage
         /\ frames # <<>> => key \in Loaded /\ key = Last(frames).who
         /\ frames = <<>> => key = None /\ \A c \in Controllers : mark[c] = "none"
         /\ Loaded \subseteq Controllers /\ due \subseteq Loaded
         /\ at = None => due = {}
<1>1. frames \in Seq(Frame) /\ list \in Seq(Controllers)
  BY DEF Inv, FramesLinked, KeyIsCaller, TypeOK
<1>2. Len(frames) \in Nat /\ DOMAIN frames = 1 .. Len(frames)
      /\ (frames # <<>> => Len(frames) # 0)
  BY <1>1, LenProperties, EmptySeq
<1>3. \A c \in Controllers : mark[c] # "none" => c \in Loaded
  BY DEF Inv, FramesLinked, KeyIsCaller
<1>4. frames # <<>> => 1 \in DOMAIN frames /\ Len(frames) \in DOMAIN frames
  BY <1>2
<1>5. at # None /\ frames # <<>> => mark[at] = stage
  BY <1>4 DEF Inv, FramesLinked, HookFirst
<1>6. frames # <<>> => key \in Loaded /\ key = Last(frames).who
  BY <1>4 DEF Inv, KeyIsCaller, FramesLinked, Last
<1>7. frames = <<>> => key = None /\ \A c \in Controllers : mark[c] = "none"
  <2>1. frames = <<>> => {frames[i].who : i \in DOMAIN frames} = {}
    BY <1>2, EmptySeq
  <2> QED
    BY <2>1 DEF Inv, KeyIsCaller
<1>8. Loaded \subseteq Controllers
  BY <1>1, LenProperties DEF Loaded, ToSet
<1>9. due \subseteq Loaded
  BY DEF Inv, DueAhead
<1>10. at = None => due = {}
  BY <1>8, Names DEF Inv, DueAhead
<1> QED
  BY <1>3, <1>5, <1>6, <1>7, <1>8, <1>9, <1>10

\* Whoever is next in the list is not past what the pass has before it.
LEMMA NextAhead ==
  ASSUME list \in Seq(Controllers), IsInjective(list), NEW a \in Loaded
  PROVE  /\ NextAt(a, stage) \in Loaded \cup {None}
         /\ \A c \in Loaded \ {a} :
              Ahead(a, c) => NextAt(a, stage) \in Loaded /\ Ahead(NextAt(a, stage), c)
<1>1. PICK n \in DOMAIN list : a = list[n]
  BY DEF Loaded, ToSet
<1>2. Place(a) = n
  BY <1>1, PlaceFacts DEF Place
<1>3. DOMAIN list = 1 .. Len(list) /\ Len(list) \in Nat
  BY LenProperties
<1> DEFINE m == IF IsStop(stage) THEN n - 1 ELSE n + 1
<1>4. NextAt(a, stage) = IF m \in DOMAIN list THEN list[m] ELSE None
  BY <1>2 DEF NextAt
<1>5. ASSUME NEW c \in Loaded \ {a}, Ahead(a, c)
      PROVE  m \in DOMAIN list /\ Ahead(list[m], c)
  <2>1. PICK i \in DOMAIN list, j \in DOMAIN list :
           list[i] = a /\ list[j] = c /\ (IF IsStop(stage) THEN j <= i ELSE i <= j)
    BY <1>5 DEF Ahead
  <2>2. i = n /\ j # n
    BY <1>1, <1>5, <2>1 DEF IsInjective
  <2>3. m \in DOMAIN list /\ (IF IsStop(stage) THEN j <= m ELSE m <= j)
    BY <1>3, <2>1, <2>2
  <2> QED
    BY <2>1, <2>3 DEF Ahead
<1> HIDE DEF m
<1> QED
  BY <1>4, <1>5 DEF Loaded, ToSet

\* A pass begins at one end of the list, with everybody ahead.
LEMMA FirstAhead ==
  ASSUME list \in Seq(Controllers), NEW phase, stage' = phase, at' = FirstOf(phase),
         UNCHANGED list
  PROVE  /\ at' \in Loaded \cup {None}
         /\ \A c \in Loaded : at' \in Loaded /\ Ahead(at, c)'
<1>1. DOMAIN list = 1 .. Len(list) /\ Len(list) \in Nat
      /\ (list # <<>> => Len(list) # 0)
  BY LenProperties, EmptySeq
<1>2. CASE list = <<>>
  <2>1. Loaded = {}
    BY <1>2, EmptySeq DEF Loaded, ToSet
  <2> QED
    BY <1>2, <2>1 DEF FirstOf
<1>3. CASE list # <<>>
  <2> DEFINE n == IF IsStop(phase) THEN Len(list) ELSE 1
  <2>1. n \in DOMAIN list /\ at' = list[n]
    <3>1. Head(list) = list[1]
      BY <1>3
    <3> QED
      BY <1>1, <1>3, <3>1 DEF FirstOf, Last
  <2>2. at' \in Loaded
    BY <2>1 DEF Loaded, ToSet
  <2>3. ASSUME NEW c \in Loaded
        PROVE  Ahead(at, c)'
    <3>1. PICK j \in DOMAIN list : list[j] = c
      BY DEF Loaded, ToSet
    <3>2. IF IsStop(phase) THEN j <= n ELSE n <= j
      BY <1>1, <3>1
    <3> HIDE DEF n
    <3> QED
      BY <2>1, <3>1, <3>2 DEF Ahead, IsStop
  <2> QED
    BY <2>2, <2>3
<1> QED
  BY <1>2, <1>3

-----------------------------------------------------------------------------
(***************************************************************************)
(* Inv is inductive: one lemma for each group of actions.                  *)
(***************************************************************************)

\* Init: nothing is loaded or called.
LEMMA InvInit == Init => Inv
<1> SUFFICES ASSUME Init PROVE Inv
  OBVIOUS
<1>1. list = <<>> /\ frames = <<>> /\ due = {} /\ at = None /\ key = None
  BY DEF Init
<1>2. <<>> \in Seq(Controllers) /\ <<>> \in Seq(Frame) /\ DOMAIN <<>> = {}
  BY EmptySeq
<1>3. IsInjective(list) /\ IsInjective([i \in DOMAIN frames |-> frames[i].who])
  BY <1>1, <1>2 DEF IsInjective
<1>4. mark \in [Controllers -> Phases \cup {"none", "construct"}]
      /\ hooks \in [Controllers -> SUBSET Phases]
  BY DEF Init
<1>5. TypeOK
  BY <1>1, <1>2, <1>3, <1>4 DEF Init, TypeOK
<1>6. {c \in Controllers : mark[c] # "none"} = {frames[i].who : i \in DOMAIN frames}
  BY <1>1, <1>2 DEF Init
<1>7. FramesLinked /\ HookFirst /\ DueAhead
  BY <1>1, <1>2 DEF FramesLinked, HookFirst, DueAhead
<1>8. PostsOwned
  BY <1>2 DEF Init, PostsOwned, CallbackOwned
<1> QED
  BY <1>1, <1>3, <1>5, <1>6, <1>7, <1>8 DEF Inv, KeyIsCaller

\* Steps that change nothing of the calls and the pass.
LEMMA InvPosts ==
  ASSUME Inv, UNCHANGED <<list, mark, hooks, key, frames, stage, at, due>>,
         broken' \in BOOLEAN, PostsOwned'
  PROVE  Inv'
<1>1. KeyIsCaller'
  BY DEF Inv, KeyIsCaller, TypeOK, Loaded
<1>2. FramesLinked' /\ HookFirst' /\ DueAhead'
  BY DEF Inv, FramesLinked, HookFirst, DueAhead, Ahead, Loaded
<1> QED
  BY <1>1, <1>2 DEF Inv

\* qsAddPostFilterInput() is of the controller that is called.
LEMMA InvAddPost ==
  ASSUME Inv, NEW f \in Filters, NEW fn \in Fn, AddPost(f, fn)
  PROVE  Inv'
<1>1. key \in Loaded /\ UNCHANGED <<list, mark, hooks, key, frames, stage, at, due, broken>>
  BY StackFacts DEF AddPost
<1>2. DOMAIN posts' = Filters
  BY DEF AddPost, Inv, PostsOwned
<1>3. \A g \in Filters : DOMAIN posts'[g] = IF g = f THEN DOMAIN posts[f] \cup {key}
                                            ELSE DOMAIN posts[g]
  BY DEF AddPost, Inv, PostsOwned
<1>4. PostsOwned'
  BY <1>1, <1>2, <1>3 DEF Inv, PostsOwned, CallbackOwned, Loaded
<1>5. broken' \in BOOLEAN
  BY <1>1 DEF Inv, KeyIsCaller, TypeOK
<1> QED
  BY <1>1, <1>4, <1>5, InvPosts

\* A callback that returns stays in the table, marked or not.
LEMMA InvInput ==
  ASSUME Inv, NEW f \in Filters, InputReturned(f)
  PROVE  Inv'
<1>1. UNCHANGED <<list, mark, hooks, key, frames, stage, at, due>>
  BY DEF InputReturned
<1>2. broken' \in BOOLEAN
  BY DEF InputReturned
<1>3. PICK finish :
        posts' = [posts EXCEPT ![f] = [c \in DOMAIN @ |->
                   IF c \in finish THEN [@[c] EXCEPT !.returned = TRUE] ELSE @[c]]]
  BY DEF InputReturned
<1>4. DOMAIN posts' = Filters /\ \A g \in Filters : DOMAIN posts'[g] = DOMAIN posts[g]
  BY <1>3 DEF Inv, PostsOwned
<1>5. PostsOwned'
  BY <1>1, <1>4 DEF Inv, PostsOwned, CallbackOwned, Loaded
<1> QED
  BY <1>1, <1>2, <1>5, InvPosts

\* Between passes, with nothing called, the stream moves on.
LEMMA InvMoves ==
  ASSUME Inv, Idle, UNCHANGED <<list, mark, hooks, key, frames, at, due, posts, broken>>,
         stage' \in Stages
  PROVE  Inv'
<1>1. frames = <<>> /\ at = None /\ due = {}
  BY StackFacts DEF Idle
<1>2. KeyIsCaller'
  BY DEF Inv, KeyIsCaller, TypeOK, Loaded, Stages
<1>3. FramesLinked' /\ HookFirst' /\ DueAhead'
  BY <1>1, EmptySeq DEF Inv, FramesLinked, HookFirst, DueAhead
<1>4. PostsOwned'
  BY DEF Inv, PostsOwned, CallbackOwned, Loaded
<1> QED
  BY <1>2, <1>3, <1>4 DEF Inv

\* A pass begins.
LEMMA InvBegin ==
  ASSUME Inv, Idle, NEW phase \in Phases, BeginPass(phase),
         UNCHANGED <<list, mark, hooks, key, frames, broken>>, PostsOwned'
  PROVE  Inv'
<1>1. frames = <<>> /\ frames' = <<>> /\ list \in Seq(Controllers) /\ Loaded' = Loaded
  BY DEF Idle, Inv, KeyIsCaller, TypeOK, Loaded
<1>2. stage' = phase /\ at' = FirstOf(phase) /\ due' = {c \in Loaded : phase \in hooks[c]}
  BY DEF BeginPass
<1>3. /\ at' \in Loaded \cup {None}
      /\ \A c \in Loaded : at' \in Loaded /\ Ahead(at, c)'
  BY <1>1, <1>2, FirstAhead
<1>4. DueAhead'
  BY <1>1, <1>2, <1>3 DEF DueAhead
<1>5. due' \subseteq Controllers
  BY <1>2, StackFacts
<1>6. KeyIsCaller'
  <2>1. TypeOK'
    BY <1>1, <1>2, <1>3, <1>5 DEF Inv, KeyIsCaller, TypeOK
  <2> QED
    BY <2>1 DEF Inv, KeyIsCaller
<1>7. FramesLinked' /\ HookFirst'
  BY <1>1, <1>2, EmptySeq DEF FramesLinked, HookFirst
<1> QED
  BY <1>4, <1>6, <1>7 DEF Inv

\* Inv' from its parts.
LEMMA InvFromParts ==
  ASSUME CallsExact', hooks' \in [Controllers -> SUBSET Phases],
         key' \in Controllers \cup {None}, stage' \in Stages,
         at' \in Loaded' \cup {None}, due' \subseteq Controllers, broken' \in BOOLEAN,
         HookFirst', DueAhead', PostsOwned'
  PROVE  Inv'
<1>1. TypeOK'
  BY DEF CallsExact, TypeOK, Stages
<1>2. KeyIsCaller' /\ FramesLinked'
  BY <1>1 DEF CallsExact, KeyIsCaller
<1> QED
  BY <1>2 DEF Inv

\* qsAppControllerLoad(): the new controller is called on top of the others.
LEMMA InvLoad ==
  ASSUME Inv, NEW c \in Controllers, Load(c)
  PROVE  Inv'
<1>1. /\ c \notin Loaded /\ MayCall /\ list' = Append(list, c)
      /\ hooks' = [hooks EXCEPT ![c] = Provides[c]] /\ Enter(c, "construct")
      /\ UNCHANGED <<stage, at, due, posts, broken>>
  BY DEF Load
<1>2. list \in Seq(Controllers) /\ IsInjective(list) /\ CallsExact
  BY CallsOfInv DEF CallsExact
<1>3. /\ list' \in Seq(Controllers) /\ IsInjective(list') /\ Loaded' = Loaded \cup {c}
      /\ \A i \in DOMAIN list : i \in DOMAIN list' /\ list'[i] = list[i]
  <2>1. DOMAIN list = 1 .. Len(list) /\ Len(list) \in Nat
    BY <1>2, LenProperties
  <2>2. DOMAIN list' = 1 .. Len(list) + 1
    BY <1>1, <1>2, AppendedList
  <2> QED
    BY <1>1, <1>2, <2>1, <2>2, AppendedList, AppendedOnce DEF Loaded
<1>4. mark[c] = "none"
  BY <1>1, StackFacts
<1>5. stage \in Phases => frames # <<>>
  BY <1>1, Names DEF MayCall
<1>6. CallsExact'
  BY <1>1, <1>2, <1>3, <1>4, <1>5, EnterExact
<1>7. hooks' \in [Controllers -> SUBSET Phases]
  BY <1>1, ControllersAssumption DEF Inv, KeyIsCaller, TypeOK
<1>8. key' = c /\ frames' = Append(frames, [who |-> c, saved |-> key])
  BY <1>1 DEF Enter
<1>9. HookFirst'
  <2>1. frames # <<>> => frames'[1] = frames[1]
    <3>1. frames \in Seq(Frame) /\ [who |-> c, saved |-> key] \in Frame
      BY <1>2, KeyTyped DEF CallsExact, FramesLinked, Frame
    <3>2. frames # <<>> => 1 \in DOMAIN frames
      BY <3>1, PoppedList
    <3> QED
      BY <1>8, <3>1, <3>2, AppendedList
  <2> QED
    BY <1>1, <1>5, <2>1 DEF Inv, HookFirst, MayCall
<1>10. DueAhead'
  <2> SUFFICES ASSUME NEW d \in due
               PROVE  d \in Loaded' /\ at \in Loaded' /\ stage \in hooks'[d]
                      /\ d # at /\ Ahead(at, d)'
    BY <1>1 DEF DueAhead
  <2>1. d \in Loaded /\ at \in Loaded /\ stage \in hooks[d] /\ Ahead(at, d)
        /\ (frames # <<>> => d # at)
    BY DEF Inv, DueAhead
  <2>2. d # c /\ at # None
    BY <1>1, <2>1, Names, StackFacts
  <2>3. hooks'[d] = hooks[d]
    BY <1>1, <2>1, <2>2, StackFacts DEF Inv, KeyIsCaller, TypeOK
  <2>4. d # at
    BY <1>5, <2>1, <2>2 DEF Inv, HookFirst
  <2>5. Ahead(at, d)'
    BY <1>1, <1>3, <2>1 DEF Ahead
  <2> QED
    BY <1>3, <2>1, <2>3, <2>4, <2>5
<1>11. PostsOwned'
  BY <1>1, <1>3 DEF Inv, PostsOwned, CallbackOwned
<1>12. /\ stage' \in Stages /\ at' \in Loaded' \cup {None} /\ due' \subseteq Controllers
       /\ broken' \in BOOLEAN
  BY <1>1, <1>3 DEF Inv, KeyIsCaller, TypeOK, Stages
<1> QED
  BY <1>6, <1>7, <1>8, <1>9, <1>10, <1>11, <1>12, InvFromParts

\* What goes with a controller that the pass is not at.
LEMMA UnloadedKeeps ==
  ASSUME Inv, NEW c \in Loaded, c # at, Unloaded(c), UNCHANGED <<stage, at>>,
         frames' # <<>> => frames # <<>>
  PROVE  /\ list' \in Seq(Controllers) /\ IsInjective(list') /\ Loaded' = Loaded \ {c}
         /\ hooks' \in [Controllers -> SUBSET Phases]
         /\ at' \in Loaded' \cup {None} /\ due' \subseteq Controllers
         /\ DueAhead' /\ PostsOwned'
<1>1. /\ posts' = [f \in Filters |-> Without(posts[f], c)]
      /\ list' = RemoveAt(list, Place(c))
      /\ hooks' = [hooks EXCEPT ![c] = {}] /\ due' = due \ {c}
  BY DEF Unloaded
<1>2. list \in Seq(Controllers) /\ IsInjective(list) /\ at \in Loaded \cup {None}
      /\ hooks \in [Controllers -> SUBSET Phases] /\ due \subseteq Controllers
  BY DEF Inv, KeyIsCaller, TypeOK
<1>3. /\ list' \in Seq(Controllers) /\ IsInjective(list') /\ Loaded' = Loaded \ {c}
      /\ \A a, b \in Loaded \ {c} :
           \A i, j \in DOMAIN list :
             list[i] = a /\ list[j] = b /\ i <= j =>
               \E k, m \in DOMAIN list' : k <= m /\ list'[k] = a /\ list'[m] = b
  BY <1>1, <1>2, UnloadedExact
<1>4. hooks' \in [Controllers -> SUBSET Phases]
  BY <1>1, <1>2
<1>5. DueAhead'
  <2> SUFFICES ASSUME NEW d \in due \ {c}
               PROVE  d \in Loaded' /\ at \in Loaded' /\ stage \in hooks'[d]
                      /\ (frames' # <<>> => d # at) /\ Ahead(at, d)'
    BY <1>1 DEF DueAhead
  <2>1. d \in Loaded /\ at \in Loaded /\ stage \in hooks[d] /\ Ahead(at, d)
        /\ (frames # <<>> => d # at)
    BY DEF Inv, DueAhead
  <2>2. hooks'[d] = hooks[d]
    BY <1>1, <1>2
  <2>3. PICK i \in DOMAIN list, j \in DOMAIN list :
          list[i] = at /\ list[j] = d /\ (IF IsStop(stage) THEN j <= i ELSE i <= j)
    BY <2>1 DEF Ahead
  <2>4. CASE IsStop(stage)
    <3>1. \E k, m \in DOMAIN list' : k <= m /\ list'[k] = d /\ list'[m] = at
      BY <1>3, <2>1, <2>3, <2>4
    <3> QED
      BY <1>3, <2>1, <2>2, <2>4, <3>1 DEF Ahead
  <2>5. CASE ~IsStop(stage)
    <3>1. \E k, m \in DOMAIN list' : k <= m /\ list'[k] = at /\ list'[m] = d
      BY <1>3, <2>1, <2>3, <2>5
    <3> QED
      BY <1>3, <2>1, <2>2, <2>5, <3>1 DEF Ahead
  <2> QED
    BY <2>4, <2>5
<1>6. PostsOwned'
  <2>1. DOMAIN posts' = Filters /\ \A f \in Filters : DOMAIN posts'[f] = DOMAIN posts[f] \ {c}
    BY <1>1 DEF Without, Restrict
  <2> QED
    BY <1>3, <2>1 DEF Inv, PostsOwned, CallbackOwned
<1> QED
  BY <1>1, <1>2, <1>3, <1>4, <1>5, <1>6

\* A return from construct(), which may have failed.
LEMMA InvConstructed ==
  ASSUME Inv, NEW ok \in BOOLEAN, Constructed(ok)
  PROVE  Inv'
<1> DEFINE c == Last(frames).who
<1>1. /\ frames # <<>> /\ mark[c] = "construct"
      /\ key' = Last(frames).saved /\ frames' = Front(frames)
      /\ mark' = [mark EXCEPT ![c] = "none"]
      /\ IF ok THEN UNCHANGED <<list, hooks, due, posts>> ELSE Unloaded(c)
      /\ UNCHANGED <<stage, at, broken>>
  BY DEF Constructed
<1>2. CallsExact
  BY CallsOfInv
<1>3. c \in Loaded
  BY <1>1, StackFacts
<1>4. /\ Last(frames) \in Frame
      /\ frames' # <<>> => frames'[1] = frames[1]
  <2>1. frames \in Seq(Frame)
    BY <1>2 DEF CallsExact, FramesLinked
  <2>2. /\ Last(frames) \in Frame /\ Len(frames) \in Nat \ {0}
        /\ \A i \in 1 .. Len(frames) - 1 : Front(frames)[i] = frames[i]
        /\ Front(frames) = <<>> <=> Len(frames) = 1
    BY <1>1, <2>1, PoppedList
  <2>3. \A n \in Nat \ {0} : n # 1 => 1 \in 1 .. n - 1
    OBVIOUS
  <2>4. Front(frames) # <<>> => Len(frames) # 1
    BY <2>2
  <2>5. Front(frames) # <<>> => 1 \in 1 .. Len(frames) - 1
    BY <2>2, <2>3, <2>4
  <2> QED
    BY <1>1, <2>2, <2>5
<1>5. key' \in Controllers \cup {None}
  BY <1>1, <1>4 DEF Frame
<1>6. c # at
  <2>1. SUFFICES ASSUME c = at PROVE FALSE
    OBVIOUS
  <2>2. at # None
    BY <1>3, <2>1, Names, StackFacts
  <2>3. stage = "construct" /\ stage \in Phases
    BY <1>1, <2>1, <2>2, StackFacts DEF Inv, HookFirst
  <2> QED
    BY <2>3, Names
<1>7. HookFirst'
  BY <1>1, <1>4 DEF Inv, HookFirst
<1> HIDE DEF c
<1>8. CASE ok
  <2>1. UNCHANGED <<list, hooks, due, posts>> /\ Loaded' = Loaded
    BY <1>1, <1>8 DEF Loaded
  <2>2. CallsExact'
    BY <1>1, <1>2, <2>1, ReturnExact DEF CallsExact, c
  <2>3. DueAhead'
    BY <1>1, <2>1 DEF Inv, DueAhead, Ahead
  <2>4. PostsOwned'
    BY <2>1 DEF Inv, PostsOwned, CallbackOwned
  <2> QED
    BY <1>1, <1>5, <1>7, <2>1, <2>2, <2>3, <2>4, InvFromParts
    DEF Inv, KeyIsCaller, TypeOK, Stages
<1>9. CASE ~ok
  <2>1. /\ list' \in Seq(Controllers) /\ IsInjective(list') /\ Loaded' = Loaded \ {c}
        /\ hooks' \in [Controllers -> SUBSET Phases]
        /\ at' \in Loaded' \cup {None} /\ due' \subseteq Controllers
        /\ DueAhead' /\ PostsOwned'
    BY <1>1, <1>3, <1>6, <1>9, UnloadedKeeps
  <2>2. CallsExact'
    BY <1>1, <1>2, <2>1, ReturnExact DEF c
  <2> QED
    BY <1>1, <1>5, <1>7, <2>1, <2>2, InvFromParts DEF Inv, KeyIsCaller, TypeOK, Stages
<1> QED
  BY <1>8, <1>9

\* qsControllerUnload() leaves the calls alone.
LEMMA InvUnload ==
  ASSUME Inv, NEW c \in Controllers, Unload(c)
  PROVE  Inv'
<1>1. /\ MayCall /\ c \in Loaded /\ mark[c] = "none" /\ Unloaded(c)
      /\ UNCHANGED <<mark, key, frames, stage, at, broken>>
  BY DEF Unload
<1>2. c # at
  <2>1. SUFFICES ASSUME c = at PROVE FALSE
    OBVIOUS
  <2>2. at # None
    BY <1>1, <2>1, Names
  <2>3. stage \in Phases
    BY <2>2 DEF Inv, HookFirst
  <2>4. frames # <<>>
    BY <1>1, <2>3, Names DEF MayCall
  <2>5. mark[at] = stage
    BY <2>2, <2>4, StackFacts
  <2> QED
    BY <1>1, <2>1, <2>3, <2>5, Names
<1>3. /\ list' \in Seq(Controllers) /\ IsInjective(list') /\ Loaded' = Loaded \ {c}
      /\ hooks' \in [Controllers -> SUBSET Phases]
      /\ at' \in Loaded' \cup {None} /\ due' \subseteq Controllers
      /\ DueAhead' /\ PostsOwned'
  BY <1>1, <1>2, UnloadedKeeps
<1>4. \A i \in DOMAIN frames : frames[i].who # c
  BY <1>1 DEF Inv, KeyIsCaller
<1>5. FramesLinked'
  BY <1>1, <1>3, <1>4 DEF Inv, FramesLinked
<1>6. CallsExact'
  BY <1>1, <1>3, <1>5 DEF Inv, KeyIsCaller, TypeOK, CallsExact
<1>7. HookFirst'
  BY <1>1 DEF Inv, HookFirst
<1> QED
  BY <1>1, <1>3, <1>6, <1>7, InvFromParts DEF Inv, KeyIsCaller, TypeOK, Stages

\* pSt_callback() calls the hook of the controller that the pass is at.
LEMMA InvCallHook ==
  ASSUME Inv, CallHook
  PROVE  Inv'
<1>1. /\ frames = <<>> /\ at # None /\ stage \in hooks[at]
      /\ Enter(at, stage) /\ due' = due \ {at}
      /\ UNCHANGED <<list, hooks, stage, at, posts, broken>>
  BY DEF CallHook
<1>2. at \in Loaded /\ at \in Controllers /\ stage \in Phases /\ Loaded' = Loaded
  BY <1>1, StackFacts DEF Inv, KeyIsCaller, TypeOK, HookFirst, Loaded
<1>3. CallsExact /\ mark[at] = "none"
  BY <1>1, <1>2, CallsOfInv, StackFacts
<1>4. CallsExact'
  BY <1>1, <1>2, <1>3, EnterExact DEF CallsExact
<1>5. key' = at /\ frames' = Append(<<>>, [who |-> at, saved |-> key])
  BY <1>1 DEF Enter
<1>6. HookFirst'
  <2>1. [who |-> at, saved |-> key] \in Frame
    BY <1>2, <1>3, KeyTyped DEF Frame
  <2>2. frames'[1].who = at
    <3>1. <<>> \in Seq(Frame) /\ Len(<<>>) + 1 = 1
      BY EmptySeq
    <3>2. frames'[1] = [who |-> at, saved |-> key]
      BY <1>5, <2>1, <3>1, AppendedList
    <3> QED
      BY <3>2
  <2> QED
    BY <1>1, <1>2, <2>2, Names DEF HookFirst
<1>7. DueAhead'
  BY <1>1, <1>2 DEF Inv, DueAhead, Ahead
<1>8. PostsOwned'
  BY <1>1, <1>2 DEF Inv, PostsOwned, CallbackOwned
<1> QED
  BY <1>1, <1>2, <1>4, <1>5, <1>6, <1>7, <1>8, InvFromParts
  DEF Inv, KeyIsCaller, TypeOK, Stages

\* A controller without the hook is passed over: it was not due.
LEMMA InvSkipHook ==
  ASSUME Inv, SkipHook
  PROVE  Inv'
<1>1. /\ frames = <<>> /\ at # None /\ stage \in Phases \ hooks[at] /\ at' = NextAt(at, stage)
      /\ UNCHANGED <<list, mark, hooks, key, frames, stage, due, posts, broken>>
  BY DEF SkipHook
<1>2. at \in Loaded /\ Loaded' = Loaded /\ list \in Seq(Controllers) /\ IsInjective(list)
  BY <1>1 DEF Inv, KeyIsCaller, TypeOK, Loaded
<1>3. /\ at' \in Loaded \cup {None}
      /\ \A c \in Loaded \ {at} : Ahead(at, c) => at' \in Loaded /\ Ahead(at', c)
  BY <1>1, <1>2, NextAhead
<1>4. DueAhead'
  <2> SUFFICES ASSUME NEW c \in due
               PROVE  c \in Loaded /\ at' \in Loaded /\ stage \in hooks[c] /\ Ahead(at, c)'
    BY <1>1, <1>2 DEF DueAhead
  <2>1. c \in Loaded /\ stage \in hooks[c] /\ Ahead(at, c)
    BY DEF Inv, DueAhead
  <2>2. c # at
    BY <1>1, <2>1
  <2>3. at' \in Loaded /\ Ahead(at', c)
    BY <1>3, <2>1, <2>2
  <2> QED
    BY <1>1, <2>1, <2>3 DEF Ahead
<1>5. KeyIsCaller'
  BY <1>1, <1>2, <1>3 DEF Inv, KeyIsCaller, TypeOK
<1>6. FramesLinked' /\ HookFirst'
  BY <1>1, <1>2 DEF Inv, FramesLinked, HookFirst
<1>7. PostsOwned'
  BY <1>1, <1>2 DEF Inv, PostsOwned, CallbackOwned
<1> QED
  BY <1>4, <1>5, <1>6, <1>7 DEF Inv

\* A hook returns: it is the first and only call, of the controller the pass
\* is at, and the pass goes on to the next.
LEMMA InvHookReturned ==
  ASSUME Inv, NEW ret \in {1, 3}, HookReturned(ret)
  PROVE  Inv'
<1>1. /\ frames # <<>> /\ mark[Last(frames).who] = stage
      /\ key' = None /\ frames' = <<>> /\ mark' = [mark EXCEPT ![at] = "none"]
      /\ hooks' = IF ret > 2 THEN [hooks EXCEPT ![at] = @ \ {stage}] ELSE hooks
      /\ at' = NextAt(at, stage)
      /\ UNCHANGED <<list, stage, due, posts, broken>>
  BY DEF HookReturned
<1>2. CallsExact /\ stage \in Stages
  BY CallsOfInv DEF Inv, KeyIsCaller, TypeOK, Stages
<1>3. /\ Len(frames) \in Nat \ {0} /\ Len(frames) \in DOMAIN frames
      /\ Last(frames) = frames[Len(frames)]
      /\ Front(frames) = <<>> <=> Len(frames) = 1
  <2>1. frames \in Seq(Frame)
    BY <1>2 DEF CallsExact, FramesLinked
  <2>2. /\ Len(frames) \in Nat \ {0} /\ DOMAIN frames = 1 .. Len(frames)
        /\ Last(frames) = frames[Len(frames)]
        /\ Front(frames) = <<>> <=> Len(frames) = 1
    BY <1>1, <2>1, PoppedList
  <2>3. \A n \in Nat \ {0} : n \in 1 .. n
    OBVIOUS
  <2> QED
    BY <2>2, <2>3
<1>4. Len(frames) = 1 /\ stage \in Phases
  <2>1. stage # "construct"
    BY <1>2, Names DEF Stages
  <2> QED
    BY <1>1, <1>3, <2>1 DEF Inv, FramesLinked
<1>5. Last(frames).who = at /\ Last(frames).saved = None /\ Front(frames) = <<>>
  BY <1>1, <1>3, <1>4 DEF Inv, FramesLinked, HookFirst
<1>6. at \in Loaded /\ Loaded' = Loaded /\ list \in Seq(Controllers) /\ IsInjective(list)
  BY <1>1, <1>5, StackFacts DEF Inv, KeyIsCaller, TypeOK, Loaded
<1>7. CallsExact'
  BY <1>1, <1>2, <1>5, <1>6, ReturnExact
<1>8. /\ at' \in Loaded \cup {None}
      /\ \A c \in Loaded \ {at} : Ahead(at, c) => at' \in Loaded /\ Ahead(at', c)
  BY <1>1, <1>6, NextAhead
<1>9. hooks' \in [Controllers -> SUBSET Phases] /\ \A c \in Controllers \ {at} : hooks'[c] = hooks[c]
  BY <1>1 DEF Inv, KeyIsCaller, TypeOK
<1>10. DueAhead'
  <2> SUFFICES ASSUME NEW c \in due
               PROVE  c \in Loaded /\ at' \in Loaded /\ stage \in hooks'[c] /\ Ahead(at, c)'
    BY <1>1, <1>6 DEF DueAhead
  <2>1. c \in Loaded /\ stage \in hooks[c] /\ Ahead(at, c) /\ c # at
    BY <1>1 DEF Inv, DueAhead
  <2>2. at' \in Loaded /\ Ahead(at', c)
    BY <1>8, <2>1
  <2>3. c \in Controllers \ {at}
    BY <2>1, StackFacts
  <2> QED
    BY <1>1, <1>9, <2>1, <2>2, <2>3 DEF Ahead
<1>11. HookFirst'
  BY <1>1, <1>4 DEF HookFirst
<1>12. PostsOwned'
  BY <1>1, <1>6 DEF Inv, PostsOwned, CallbackOwned
<1> QED
  BY <1>1, <1>6, <1>7, <1>8, <1>9, <1>10, <1>11, <1>12, InvFromParts
  DEF Inv, KeyIsCaller, TypeOK, Stages

\* The stream: what the app and the flow do with it.
LEMMA InvStream ==
  ASSUME Inv, \/ Ready \/ StartFilters \/ ReadyReturned \/ Launch \/ FlowEnded
              \/ Stop \/ StopFilters \/ StopReturned
  PROVE  Inv'
<1>1. ASSUME UNCHANGED <<posts, list>> PROVE PostsOwned'
  BY <1>1 DEF Inv, PostsOwned, CallbackOwned, Loaded
<1>2. CASE Ready
  BY <1>1, <1>2, InvBegin DEF Ready, Phases
<1>3. CASE StartFilters
  <2>1. CASE BeginPass("postStart")
    BY <1>1, <1>3, <2>1, InvBegin DEF StartFilters, Phases
  <2>2. CASE stage' = "failed" /\ UNCHANGED <<at, due>>
    BY <1>3, <2>2, InvMoves DEF StartFilters, Stages
  <2> QED
    BY <1>3, <2>1, <2>2 DEF StartFilters
<1>4. CASE ReadyReturned
  BY <1>4, InvMoves DEF ReadyReturned, Stages
<1>5. CASE Launch
  BY <1>5, InvMoves DEF Launch, Stages
<1>6. CASE FlowEnded
  <2>1. Idle
    BY <1>6, Names DEF FlowEnded, Idle, Inv, HookFirst
  <2> QED
    BY <1>6, <2>1, InvMoves DEF FlowEnded, Stages
<1>7. CASE Stop
  BY <1>1, <1>7, InvBegin DEF Stop, Phases
<1>8. CASE StopFilters
  <2>1. PICK pass : posts' = [f \in Filters |-> Swept(posts[f], pass[f])]
    BY <1>8 DEF StopFilters
  <2>2. DOMAIN posts' = Filters /\ \A f \in Filters : DOMAIN posts'[f] \subseteq DOMAIN posts[f]
    BY <2>1 DEF Swept, Restrict
  <2>3. Idle /\ BeginPass("postStop") /\ UNCHANGED <<list, mark, hooks, key, frames, broken>>
    BY <1>8 DEF StopFilters
  <2>4. PostsOwned'
    BY <2>2, <2>3 DEF Inv, PostsOwned, CallbackOwned, Loaded
  <2> QED
    BY <2>3, <2>4, InvBegin DEF Phases
<1>9. CASE StopReturned
  BY <1>9, InvMoves DEF StopReturned, Stages
<1> QED
  BY <1>2, <1>3, <1>4, <1>5, <1>6, <1>7, <1>8, <1>9

LEMMA InvStutter == Inv /\ UNCHANGED vars => Inv'
<1> SUFFICES ASSUME Inv, UNCHANGED vars PROVE Inv'
  OBVIOUS
<1>1. UNCHANGED <<list, mark, hooks, key, frames, stage, at, due>> /\ UNCHANGED <<posts, broken>>
  BY DEF vars
<1>2. broken' \in BOOLEAN /\ PostsOwned'
  BY <1>1 DEF Inv, KeyIsCaller, TypeOK, PostsOwned, CallbackOwned, Loaded
<1> QED
  BY <1>1, <1>2, InvPosts

\* Inv holds in every state that the controllers come to.
THEOREM ControllersInv == Spec => []Inv
<1>1. Init => Inv
  BY InvInit
<1>2. Inv /\ [Next]_vars => Inv'
  <2> SUFFICES ASSUME Inv, [Next]_vars PROVE Inv'
    OBVIOUS
  <2>1. CASE UNCHANGED vars
    BY <2>1, InvStutter
  <2>2. CASE Next
    <3>1. ASSUME NEW c \in Controllers, Load(c) \/ Unload(c) PROVE Inv'
      BY <3>1, InvLoad, InvUnload
    <3>2. ASSUME NEW ok \in BOOLEAN, Constructed(ok) PROVE Inv'
      BY <3>2, InvConstructed
    <3>3. CASE CallHook \/ SkipHook
      BY <3>3, InvCallHook, InvSkipHook
    <3>4. ASSUME NEW ret \in {1, 3}, HookReturned(ret) PROVE Inv'
      BY <3>4, InvHookReturned
    <3>5. ASSUME NEW f \in Filters, NEW fn \in Fn, AddPost(f, fn) PROVE Inv'
      BY <3>5, InvAddPost
    <3>6. ASSUME NEW f \in Filters, InputReturned(f) PROVE Inv'
      BY <3>6, InvInput
    <3> QED
      BY <2>2, <3>1, <3>2, <3>3, <3>4, <3>5, <3>6, InvStream DEF Next
  <2> QED
    BY <2>1, <2>2
<1> QED
  BY <1>1, <1>2, PTL DEF Spec

\* The thread's key names the controller whose function runs, however deep
\* construct() and hooks load each other (controller.c:547).
THEOREM KeyAlwaysCaller == Spec => []KeyIsCaller
<1>1. Inv => KeyIsCaller
  BY DEF Inv
<1> QED
  BY <1>1, ControllersInv, PTL

\* No input() calls back into a controller that was unloaded
\* (include/quickstream/controller.h).
THEOREM CallbacksAlwaysOwned == Spec => []CallbackOwned
<1>1. Inv => CallbackOwned
  BY DEF Inv, PostsOwned
<1> QED
  BY <1>1, ControllersInv, PTL

\* A pass that is over has called every hook that was due and still is there.
THEOREM NeverSkipped == Spec => []NoneSkipped
<1>1. Inv => NoneSkipped
  BY StackFacts DEF NoneSkipped, Idle
<1> QED
  BY <1>1, ControllersInv, PTL

\* What is due comes later in load order in a start, earlier in a stop
\* (streamReady.c:509).
THEOREM AlwaysLoadOrder == Spec => []LoadOrder
<1>1. Inv => LoadOrder
  <2> SUFFICES ASSUME Inv, NEW c \in due
               PROVE  IF IsStop(stage) THEN Place(c) <= Place(at) ELSE Place(c) >= Place(at)
    BY DEF LoadOrder
  <2>1. PICK i \in DOMAIN list, j \in DOMAIN list :
          list[i] = at /\ list[j] = c /\ (IF IsStop(stage) THEN j <= i ELSE i <= j)
    BY DEF Inv, DueAhead, Ahead
  <2>2. list \in Seq(Controllers) /\ IsInjective(list)
    BY DEF Inv, KeyIsCaller, TypeOK
  <2>3. Place(at) = i /\ Place(c) = j
    BY <2>1, <2>2, PlaceFacts DEF Place
  <2>4. i \in Nat /\ j \in Nat
    BY <2>2, LenProperties
  <2> QED
    BY <2>1, <2>3, <2>4
<1> QED
  BY <1>1, ControllersInv, PTL
=============================================================================
