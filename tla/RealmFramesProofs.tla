-------------------------- MODULE RealmFramesProofs --------------------------
(***************************************************************************)
(* Proofs about the call frames: for any realms, libraries and depth of    *)
(* the stack, the frames and the chain of crossings stay in step, and      *)
(* AssertOriginCall passes only in a function that a MsgCall called.       *)
(***************************************************************************)
EXTENDS RealmFrames, FiniteSets, FiniteSetTheorems, SequenceTheorems, WellFoundedInduction, TLAPS

(* The frames, beyond the message's own, that were written with cross. *)
Crossings == {i \in 2 .. Len(frames) : frames[i].cross}

(* The realm that the message's own frame entered. *)
Target == IF Len(frames) = 1 THEN realm ELSE frames[2].realm

(* The types of the stack: TypeOK but for the bankers, whose owners the    *)
(* walk of GetRealm finds.                                                 *)
FrameTypes ==
    /\ stage \in {"none", "add", "run"}
    /\ frames \in Seq(Frames)
    /\ pkg \in Paths /\ realm \in Paths
    /\ crossed \in Seq(Realms \cup {RunPath, User})

(* OriginCallIsDirect is not inductive: a Return to the message's own      *)
(* frame must find the chain as short as it was, which takes counting the  *)
(* crossings still on the stack, and the realm that was saved above it.    *)
FrameInv ==
    /\ FrameTypes
    /\ Running =>
         /\ Len(frames) >= 1
         /\ Head(frames).pkg = NoPath => Head(frames).cross
         /\ Len(crossed) = 2 + Cardinality(Crossings)
         /\ crossed[1] = User /\ crossed[2] = Target

(* A stack that is not empty holds one frame, or more. *)
LEMMA LengthCases ==
    \A n \in Nat : n >= 1 => (n # 1 => n >= 2) /\ (n + 1 <= 2 => n = 1)
  OBVIOUS

(* The crossings on the stack can be counted. *)
LEMMA CrossingsFinite ==
    ASSUME frames \in Seq(Frames)
    PROVE  IsFiniteSet(Crossings) /\ Cardinality(Crossings) \in Nat
  <1>1. Len(frames) \in Nat
    OBVIOUS
  <1>2. IsFiniteSet(2 .. Len(frames))
    BY <1>1, FS_Interval
  <1>3. Crossings \in SUBSET (2 .. Len(frames))
    BY DEF Crossings
  <1>4. IsFiniteSet(Crossings)
    BY <1>2, <1>3, FS_Subset
  <1> QED
    BY <1>4, FS_CardinalityType

(* What a call, a crossing or a block adds to the stack. *)
LEMMA Pushed ==
    ASSUME frames \in Seq(Frames), Len(frames) >= 1,
           NEW fr \in Frames, fr.realm = realm, frames' = Append(frames, fr)
    PROVE  /\ frames' \in Seq(Frames) /\ Len(frames') >= 2
           /\ Head(frames') = Head(frames)
           /\ frames'[2].realm = Target
           /\ Cardinality(Crossings') =
                Cardinality(Crossings) + (IF fr.cross THEN 1 ELSE 0)
  <1> DEFINE n == Len(frames)
  <1>1. /\ frames' \in Seq(Frames) /\ Len(frames') = n + 1 /\ n \in Nat
        /\ \A i \in 1 .. n : frames'[i] = frames[i]
        /\ frames'[n + 1] = fr
    BY DEF Frames
  <1>2. Head(frames') = Head(frames)
    BY <1>1
  <1>3. frames'[2].realm = Target
    <2>1. CASE n = 1
      BY <1>1, <2>1 DEF Target
    <2>2. CASE n # 1
      BY <1>1, <2>2 DEF Target
    <2> QED
      BY <2>1, <2>2
  <1>4. IsFiniteSet(Crossings) /\ Cardinality(Crossings) \in Nat /\ n + 1 \notin Crossings
    BY <1>1, CrossingsFinite DEF Crossings
  <1>5. CASE fr.cross
    <2>1. Crossings' = Crossings \cup {n + 1}
      BY <1>1, <1>5 DEF Crossings
    <2>2. Cardinality(Crossings \cup {n + 1}) = Cardinality(Crossings) + 1
      BY <1>4, FS_AddElement
    <2> QED
      BY <1>1, <1>2, <1>3, <1>5, <2>1, <2>2
  <1>6. CASE ~fr.cross
    <2>1. Crossings' = Crossings
      BY <1>1, <1>6 DEF Crossings
    <2> QED
      BY <1>1, <1>2, <1>3, <1>4, <1>6, <2>1
  <1> QED
    BY <1>5, <1>6

(* What Return takes off a stack of more than the message's own frame. *)
LEMMA Popped ==
    ASSUME frames \in Seq(Frames), Len(frames) >= 2,
           frames' = Front(frames), realm' = Last(frames).realm
    PROVE  /\ frames' \in Seq(Frames) /\ Len(frames') >= 1
           /\ Last(frames) \in Frames
           /\ Head(frames') = Head(frames)
           /\ Target' = Target
           /\ Cardinality(Crossings) =
                Cardinality(Crossings') + (IF Last(frames).cross THEN 1 ELSE 0)
           /\ Cardinality(Crossings') \in Nat
  <1> DEFINE n == Len(frames)
  <1>1. /\ frames' \in Seq(Frames) /\ Len(frames') = n - 1 /\ n \in Nat
        /\ \A i \in 1 .. n - 1 : frames'[i] = frames[i]
    BY DEF Front
  <1>2. Last(frames) = frames[n] /\ frames[n] \in Frames
    BY <1>1 DEF Last
  <1>3. Head(frames') = Head(frames)
    BY <1>1
  <1>4. Target' = Target
    <2>1. CASE n = 2
      BY <1>1, <1>2, <2>1 DEF Target
    <2>2. CASE n # 2
      BY <1>1, <2>2 DEF Target
    <2> QED
      BY <2>1, <2>2
  <1>5. Crossings' = Crossings \ {n}
    BY <1>1 DEF Crossings
  <1>6. IsFiniteSet(Crossings) /\ Cardinality(Crossings) \in Nat
    BY CrossingsFinite
  <1>7. /\ IsFiniteSet(Crossings')
        /\ Cardinality(Crossings') =
             IF n \in Crossings THEN Cardinality(Crossings) - 1 ELSE Cardinality(Crossings)
    BY <1>5, <1>6, FS_RemoveElement
  <1>8. Cardinality(Crossings') \in Nat
    BY <1>7, FS_CardinalityType
  <1>9. n \in Crossings <=> frames[n].cross
    BY <1>1 DEF Crossings
  <1> QED
    BY <1>1, <1>2, <1>3, <1>4, <1>6, <1>7, <1>8, <1>9

(* The frame of the code that runs is a frame. *)
LEMMA FrameTyped ==
    ASSUME FrameTypes, NEW c \in BOOLEAN, NEW x \in BOOLEAN
    PROVE  /\ Frame(c, x) \in Frames
           /\ Frame(c, x).realm = realm /\ Frame(c, x).cross = x /\ Frame(c, x).pkg = pkg
  BY DEF FrameTypes, Frame, Frames

LEMMA NoCrossingTyped ==
    ASSUME FrameTypes
    PROVE  /\ NoCrossing \in Frames /\ NoCrossing.realm = realm
           /\ NoCrossing.cross = TRUE /\ NoCrossing.call = TRUE
  BY DEF FrameTypes, NoCrossing, Frame, Frames

(* A message's own frame starts a chain of the user and the target. *)
LEMMA Entered ==
    ASSUME FrameTypes, NEW first \in Frames, first.pkg = NoPath => first.cross,
           NEW s \in {"add", "run"}, NEW path \in Realms \cup {RunPath},
           Enter(s, first, path)
    PROVE  FrameInv'
  <1>1. /\ frames' = <<first>> /\ crossed' = <<User, path>> /\ stage' = s
        /\ pkg' = path /\ realm' = path
    BY DEF Enter
  <1>2. /\ frames' \in Seq(Frames) /\ Len(frames') = 1 /\ Head(frames') = first
        /\ crossed' \in Seq(Realms \cup {RunPath, User})
        /\ Len(crossed') = 2 /\ crossed'[1] = User /\ crossed'[2] = path
    BY <1>1
  <1>3. Crossings' = {} /\ Target' = path
    BY <1>1, <1>2 DEF Crossings, Target
  <1>4. Cardinality(Crossings') = 0
    BY <1>3, FS_EmptySet
  <1>5. FrameTypes'
    BY <1>1, <1>2 DEF FrameTypes, Paths
  <1> QED
    BY <1>2, <1>3, <1>4, <1>5 DEF FrameInv

(* A frame that does not cross leaves the chain alone. *)
LEMMA Nested ==
    ASSUME FrameInv, NEW c \in BOOLEAN, Push(Frame(c, FALSE)),
           pkg' \in Paths, realm' \in Paths, crossed' = crossed
    PROVE  FrameInv'
  <1>1. /\ Running /\ frames' = Append(frames, Frame(c, FALSE))
        /\ stage' = stage
    BY DEF Push
  <1>2. /\ FrameTypes /\ frames \in Seq(Frames) /\ Len(frames) >= 1
        /\ Head(frames).pkg = NoPath => Head(frames).cross
        /\ Len(crossed) = 2 + Cardinality(Crossings)
        /\ crossed[1] = User /\ crossed[2] = Target
    BY <1>1 DEF FrameInv, FrameTypes
  <1>3. Frame(c, FALSE) \in Frames /\ Frame(c, FALSE).realm = realm /\ ~Frame(c, FALSE).cross
    BY <1>2, FrameTyped
  <1>4. /\ frames' \in Seq(Frames) /\ Len(frames') >= 2
        /\ Head(frames') = Head(frames) /\ frames'[2].realm = Target
        /\ Cardinality(Crossings') = Cardinality(Crossings) + 0
    BY <1>1, <1>2, <1>3, Pushed
  <1>5. Target' = Target
    BY <1>4 DEF Target
  <1>6. FrameTypes'
    BY <1>1, <1>2, <1>4 DEF FrameTypes
  <1>7. Cardinality(Crossings) \in Nat
    BY <1>2, CrossingsFinite
  <1> QED
    BY <1>2, <1>4, <1>5, <1>6, <1>7 DEF FrameInv

(* A crossing adds its realm to the end of the chain. *)
LEMMA Crossed ==
    ASSUME FrameInv, NEW r \in Realms,
           NEW fr \in Frames, fr.realm = realm, fr.cross, CrossInto(fr, r)
    PROVE  FrameInv'
  <1>1. /\ Running /\ frames' = Append(frames, fr)
        /\ stage' = stage
        /\ pkg' = r /\ realm' = r /\ crossed' = Append(crossed, r)
    BY DEF CrossInto, Push
  <1>2. /\ FrameTypes /\ frames \in Seq(Frames) /\ Len(frames) >= 1
        /\ crossed \in Seq(Realms \cup {RunPath, User})
        /\ Head(frames).pkg = NoPath => Head(frames).cross
        /\ Len(crossed) = 2 + Cardinality(Crossings)
        /\ crossed[1] = User /\ crossed[2] = Target
    BY <1>1 DEF FrameInv, FrameTypes
  <1>4. /\ frames' \in Seq(Frames) /\ Len(frames') >= 2
        /\ Head(frames') = Head(frames) /\ frames'[2].realm = Target
        /\ Cardinality(Crossings') = Cardinality(Crossings) + 1
    BY <1>1, <1>2, Pushed
  <1>5. Target' = Target
    BY <1>4 DEF Target
  <1>6. Cardinality(Crossings) \in Nat
    BY <1>2, CrossingsFinite
  <1>7. /\ crossed' \in Seq(Realms \cup {RunPath, User})
        /\ Len(crossed') = Len(crossed) + 1
        /\ crossed'[1] = crossed[1] /\ crossed'[2] = crossed[2]
    BY <1>1, <1>2, <1>6
  <1>8. FrameTypes'
    BY <1>1, <1>2, <1>4, <1>7 DEF FrameTypes, Paths
  <1> QED
    BY <1>2, <1>4, <1>5, <1>6, <1>7, <1>8 DEF FrameInv

(* Leaving a frame restores the realm and the chain it was pushed with. *)
LEMMA Returned ==
    ASSUME FrameInv, Return
    PROVE  FrameInv'
  <1>1. /\ Running /\ FrameTypes /\ frames \in Seq(Frames) /\ Len(frames) >= 1
        /\ crossed \in Seq(Realms \cup {RunPath, User})
        /\ Head(frames).pkg = NoPath => Head(frames).cross
        /\ Len(crossed) = 2 + Cardinality(Crossings)
        /\ crossed[1] = User /\ crossed[2] = Target
    BY DEF Return, FrameInv, FrameTypes
  <1>2. CASE Len(frames) = 1
    <2>1. /\ stage' = "none" /\ frames' = <<>> /\ pkg' = NoPath /\ realm' = NoPath
          /\ crossed' = <<>>
      BY <1>2 DEF Return
    <2> QED
      BY <2>1 DEF FrameInv, FrameTypes, Paths, Running
  <1>3. CASE Len(frames) # 1
    <2> DEFINE top == Last(frames)
    <2>1. /\ frames' = Front(frames) /\ pkg' = top.pkg /\ realm' = top.realm
          /\ crossed' = IF top.cross THEN Front(crossed) ELSE crossed
          /\ stage' = stage
      BY <1>3 DEF Return
    <2>0. Len(frames) \in Nat /\ Len(frames) >= 1
      BY <1>1
    <2>2. Len(frames) >= 2
      BY <1>3, <2>0, LengthCases, Zenon
    <2>3. /\ frames' \in Seq(Frames) /\ Len(frames') >= 1 /\ top \in Frames
          /\ Head(frames') = Head(frames) /\ Target' = Target
          /\ Cardinality(Crossings) = Cardinality(Crossings') + (IF top.cross THEN 1 ELSE 0)
          /\ Cardinality(Crossings') \in Nat
      BY <1>1, <2>1, <2>2, Popped
    <2>4. top.pkg \in Paths /\ top.realm \in Paths /\ top.cross \in BOOLEAN
      BY <2>3 DEF Frames
    <2> HIDE DEF top
    <2>5. /\ crossed' \in Seq(Realms \cup {RunPath, User})
          /\ Len(crossed') = 2 + Cardinality(Crossings')
          /\ crossed'[1] = User /\ crossed'[2] = Target
      <3>1. CASE top.cross
        <4>1. crossed' = SubSeq(crossed, 1, Len(crossed) - 1) /\ Len(crossed) >= 3
          BY <1>1, <2>1, <2>3, <3>1 DEF Front
        <4>2. Len(crossed) - 1 = 2 + Cardinality(Crossings')
          BY <1>1, <2>3, <3>1
        <4>3. /\ crossed' \in Seq(Realms \cup {RunPath, User})
              /\ Len(crossed') = Len(crossed) - 1
              /\ crossed'[1] = crossed[1] /\ crossed'[2] = crossed[2]
          BY <1>1, <4>1
        <4> QED
          BY <1>1, <4>2, <4>3
      <3>2. CASE ~top.cross
        BY <1>1, <2>1, <2>3, <3>2
      <3> QED
        BY <3>1, <3>2
    <2>6. FrameTypes'
      BY <1>1, <2>1, <2>3, <2>4, <2>5 DEF FrameTypes
    <2> QED
      BY <1>1, <2>3, <2>5, <2>6 DEF FrameInv
  <1> QED
    BY <1>2, <1>3

LEMMA FrameStep ==
    ASSUME FrameInv, [Next]_vars
    PROVE  FrameInv'
  <1>0. FrameTypes
    BY DEF FrameInv
  <1>1. ASSUME NEW r \in Realms, MsgCall(r)
        PROVE  FrameInv'
    BY <1>0, <1>1, FrameTyped, Entered DEF MsgCall
  <1>2. ASSUME NEW r \in Realms, MsgAddPackage(r)
        PROVE  FrameInv'
    <2>1. Own(r) \in Frames /\ Own(r).pkg # NoPath
      BY PathAssumption DEF Own, Frames, Paths
    <2> QED
      BY <1>0, <1>2, <2>1, Entered DEF MsgAddPackage
  <1>3. CASE MsgRun
    <2>1. Own(RunPath) \in Frames /\ Own(RunPath).pkg # NoPath
      BY PathAssumption DEF Own, Frames, Paths
    <2> QED
      BY <1>0, <1>3, <2>1, Entered DEF MsgRun
  <1>4. CASE Block
    <2>1. pkg' = pkg /\ realm' = realm /\ crossed' = crossed /\ Push(Frame(FALSE, FALSE))
      BY <1>4 DEF Block
    <2> QED
      BY <1>0, <2>1, Nested DEF FrameTypes
  <1>5. ASSUME NEW p \in Realms \cup Libs, Call(p)
        PROVE  FrameInv'
    <2>1. pkg' = p /\ realm' = realm /\ crossed' = crossed /\ Push(Frame(TRUE, FALSE))
      BY <1>5 DEF Call
    <2> QED
      BY <1>0, <2>1, Nested DEF FrameTypes, Paths
  <1>6. ASSUME NEW p \in Realms \cup Libs, NEW r \in Realms, CallMethod(p, r)
        PROVE  FrameInv'
    <2>1. pkg' = p /\ realm' = r /\ crossed' = crossed /\ Push(Frame(TRUE, FALSE))
      BY <1>6 DEF CallMethod
    <2> QED
      BY <2>1, Nested DEF Paths
  <1>7. CASE OriginBanker
    <2>1. UNCHANGED <<stage, frames, pkg, realm, crossed>>
      BY <1>7 DEF OriginBanker
    <2> QED
      BY <2>1 DEF FrameInv, FrameTypes, Running, Crossings, Target
  <1>8. CASE UNCHANGED vars
    BY <1>8 DEF vars, FrameInv, FrameTypes, Running, Crossings, Target
  <1>9. ASSUME NEW r \in Realms, Cross(r)
        PROVE  FrameInv'
    BY <1>0, <1>9, FrameTyped, Crossed DEF Cross
  <1>10. ASSUME NEW r \in Realms, CrossUndone(r)
         PROVE  FrameInv'
    BY <1>0, <1>10, NoCrossingTyped, Crossed DEF CrossUndone
  <1> QED
    BY <1>1, <1>2, <1>3, <1>4, <1>5, <1>6, <1>7, <1>8, <1>9, <1>10, Returned DEF Next

(* Whatever realms and libraries there are, however deep they call one     *)
(* another, AssertOriginCall (realm.go, isOriginCall) passes only in a     *)
(* function that a MsgCall called, with nothing in between.                *)
THEOREM OriginCallsAreDirect == Spec => []OriginCallIsDirect
  <1>1. Init => FrameInv
    BY DEF Init, FrameInv, FrameTypes, Running, Paths
  <1>2. FrameInv => OriginCallIsDirect
    <2> SUFFICES ASSUME FrameInv, Running, IsOriginCall(InNative)
                 PROVE  Len(frames) = 1 /\ Head(frames).cross /\ crossed = <<User, realm>>
      BY DEF OriginCallIsDirect
    <2>1. /\ FrameTypes /\ frames \in Seq(Frames) /\ Len(frames) >= 1
          /\ crossed \in Seq(Realms \cup {RunPath, User})
          /\ Head(frames).pkg = NoPath => Head(frames).cross
          /\ Len(crossed) = 2 + Cardinality(Crossings)
          /\ crossed[1] = User /\ crossed[2] = Target
      BY DEF FrameInv, FrameTypes
    <2>2. Frame(TRUE, FALSE) \in Frames
      BY <2>1, FrameTyped
    <2>3. Len(InNative) = Len(frames) + 1 /\ Head(InNative) = Head(frames)
      BY <2>1, <2>2 DEF InNative
    <2>4. Len(frames) = 1 /\ Head(frames).cross
      <3>1. Len(frames) \in Nat /\ Len(frames) >= 1
        BY <2>1
      <3>2. Len(frames) + 1 <= 2 /\ Head(frames).pkg = NoPath
        BY <2>3 DEF IsOriginCall
      <3>3. Len(frames) = 1
        BY <3>1, <3>2, LengthCases, Zenon
      <3> QED
        BY <2>1, <3>2, <3>3, Zenon
    <2>5. Crossings = {} /\ Target = realm
      BY <2>4 DEF Crossings, Target
    <2>6. Len(crossed) = 2
      BY <2>1, <2>5, FS_EmptySet
    <2>7. crossed = <<crossed[1], crossed[2]>>
      <3>1. crossed \in Seq(Realms \cup {RunPath, User})
        BY <2>1
      <3> QED
        BY ONLY <2>6, <3>1
    <2> QED
      BY <2>1, <2>4, <2>5, <2>7
  <1> QED
    BY <1>1, <1>2, FrameStep, PTL DEF Spec

-----------------------------------------------------------------------------
(* The walk of GetRealm. *)

LEMMA LeastElement ==
    ASSUME NEW T \in SUBSET Nat, T # {}
    PROVE  \E m \in T : \A y \in T : m <= y
  <1>1. \E m \in T : \A y \in T : ~ (<<y, m>> \in OpToRel(<, Nat))
    BY WFMin, NatLessThanWellFounded
  <1>2. PICK m \in T : \A y \in T : ~ (<<y, m>> \in OpToRel(<, Nat))
    BY <1>1
  <1>3. ASSUME NEW y \in T PROVE m <= y
    <2>1. m \in Nat /\ y \in Nat /\ <<y, m>> \in Nat \X Nat
      OBVIOUS
    <2>2. ~ (y < m)
      BY <1>2, <2>1 DEF OpToRel
    <2> QED
      BY <2>1, <2>2
  <1> QED
    BY <1>3

(* What holds before a loop and survives each of its iterations holds      *)
(* after the last.                                                         *)
LEMMA Iterations ==
    ASSUME NEW n \in Nat, NEW Good, 0 \in Good,
           \A i \in 1 .. n : i - 1 \in Good => i \in Good
    PROVE  n \in Good
  <1> DEFINE Bad == {i \in 0 .. n : i \notin Good}
  <1>1. SUFFICES ASSUME Bad # {} PROVE FALSE
    OBVIOUS
  <1>2. Bad \in SUBSET Nat
    OBVIOUS
  <1>3. PICK i \in Bad : \A j \in Bad : i <= j
    BY <1>1, <1>2, LeastElement
  <1>4. i \in 1 .. n /\ i - 1 \in 0 .. n /\ ~(i <= i - 1)
    <2>1. i \in 0 .. n /\ i # 0
      BY <1>3
    <2> QED
      BY <2>1
  <1>5. i - 1 \in Good
    BY <1>3, <1>4
  <1> QED
    BY <1>3, <1>4, <1>5

(* The loop of GetRealm has a state after each of its iterations. *)
LEMMA WalkLoop ==
    ASSUME NEW fs, Len(fs) \in Nat, NEW height
    PROVE  \E s : /\ Walk(fs, height) = s[Len(fs)]
                  /\ s[0] = [lfr |-> Last(fs), crosses |-> 0, found |-> FALSE, panics |-> FALSE]
                  /\ \A i \in 1 .. Len(fs) :
                       s[i] = Visit(s[i - 1], fs[Len(fs) - i + 1], height)
  <1> DEFINE n == Len(fs)
             start == [lfr |-> Last(fs), crosses |-> 0, found |-> FALSE, panics |-> FALSE]
             Iterate(s, i) == Visit(s[i - 1], fs[n - i + 1], height)
             Loop(s, k) == s = [i \in 0 .. k |-> IF i = 0 THEN start ELSE Iterate(s, i)]
             Good == {k \in 0 .. n : \E s : Loop(s, k)}
  <1>1. Walk(fs, height) = (CHOOSE s : Loop(s, n))[n]
    BY DEF Walk
  <1>2. 0 \in Good
    <2> DEFINE s == [i \in 0 .. 0 |-> start]
    <2>1. Loop(s, 0)
      OBVIOUS
    <2> HIDE DEF s
    <2> QED
      BY <2>1
  <1> HIDE DEF n, start
  <1>3. ASSUME NEW k \in 1 .. n, k - 1 \in Good
        PROVE  k \in Good
    <2>1. PICK s : Loop(s, k - 1)
      BY <1>3
    <2> DEFINE t == [i \in 0 .. k |-> IF i = k THEN Iterate(s, k) ELSE s[i]]
    <2>2. k \in Nat /\ k # 0 /\ n \in Nat
      BY DEF n
    <2>3. t[k] = Iterate(s, k) /\ \A i \in 0 .. k : i # k => t[i] = s[i]
      BY <2>2
    <2>4. t = [i \in 0 .. k |-> t[i]]
      OBVIOUS
    <2>5. s[0] = start /\ \A i \in 1 .. k - 1 : s[i] = Iterate(s, i)
      BY <2>1, <2>2
    <2> HIDE DEF t
    <2>6. ASSUME NEW i \in 0 .. k
          PROVE  t[i] = IF i = 0 THEN start ELSE Iterate(t, i)
      <3>1. CASE i = 0
        BY <2>2, <2>3, <2>5, <3>1
      <3>2. CASE i # 0
        <4>1. i \in Nat /\ i - 1 \in 0 .. k /\ i - 1 # k
          BY <2>2, <3>2
        <4>2. t[i - 1] = s[i - 1]
          BY <2>3, <4>1
        <4>3. t[i] = Iterate(s, i)
          <5>1. CASE i = k
            BY <2>3, <5>1
          <5>2. CASE i # k
            <6>1. i \in 1 .. k - 1
              BY <2>2, <3>2, <5>2
            <6> QED
              BY <2>3, <2>5, <5>2, <6>1
          <5> QED
            BY <5>1, <5>2
        <4> QED
          BY <3>2, <4>2, <4>3
      <3> QED
        BY <3>1, <3>2
    <2>7. [i \in 0 .. k |-> t[i]] = [i \in 0 .. k |-> IF i = 0 THEN start ELSE Iterate(t, i)]
      BY <2>6
    <2>8. Loop(t, k)
      BY <2>4, <2>7
    <2> QED
      BY <2>2, <2>8
  <1>4. n \in Nat
    BY DEF n
  <1>5. n \in Good
    <2> HIDE DEF Good
    <2> QED
      BY <1>2, <1>3, <1>4, Iterations
  <1> DEFINE s == CHOOSE s : Loop(s, n)
  <1>6. Loop(s, n)
    BY <1>5
  <1>7. Walk(fs, height) = s[n]
    BY <1>1
  <1> HIDE DEF s
  <1>8. s[0] = start /\ \A i \in 1 .. n : s[i] = Iterate(s, i)
    BY <1>4, <1>6
  <1> QED
    BY <1>7, <1>8 DEF n, start

-----------------------------------------------------------------------------
(* What the walk finds. *)

(* How long the chain of crossings was once the i-th frame was pushed. *)
Depth(fs, i) == 2 + Cardinality({j \in 2 .. i : fs[j].cross})

(* The realm that ran when the i-th frame was pushed, or that runs now. *)
RealmAt(i) == IF i <= Len(frames) THEN frames[i].realm ELSE realm

(* A frame that crossed was followed by the realm it entered, a loop or    *)
(* a switch by the realm that ran; so the realm saved in the next call     *)
(* above a crossing is the one it entered.                                 *)
StackInv ==
    /\ ~Running => pkg = NoPath /\ bankers = {}
    /\ Running =>
         /\ Head(frames).call
         /\ Head(frames).cross => stage = "run" /\ Head(frames).pkg = NoPath
         /\ ~Head(frames).cross => Head(frames).pkg = crossed[2]
         /\ \A i \in 2 .. Len(crossed) : crossed[i] \in Realms \cup {RunPath}
         /\ \A i \in 1 .. Len(frames) :
              /\ frames[i].cross => frames[i].call /\ RealmAt(i + 1) = crossed[Depth(frames, i)]
              /\ ~frames[i].call => RealmAt(i + 1) = RealmAt(i)
         /\ bankers \subseteq {crossed[2]}

(* The chain grows by one with each frame that crosses. *)
LEMMA DepthFacts ==
    ASSUME NEW fs, NEW i \in Nat, i >= 1
    PROVE  /\ Depth(fs, i) \in Nat /\ Depth(fs, i) >= 2
           /\ Depth(fs, 1) = 2
           /\ Depth(fs, i + 1) = Depth(fs, i) + (IF fs[i + 1].cross THEN 1 ELSE 0)
           /\ \A n \in Nat : i <= n => Depth(fs, i) <= Depth(fs, n)
  <1> DEFINE C(k) == {j \in 2 .. k : fs[j].cross}
  <1>1. ASSUME NEW k \in Nat
        PROVE  IsFiniteSet(C(k)) /\ Cardinality(C(k)) \in Nat
    <2>1. IsFiniteSet(2 .. k) /\ C(k) \in SUBSET (2 .. k)
      BY FS_Interval
    <2> QED
      BY <2>1, FS_Subset, FS_CardinalityType
  <1>2. C(1) = {} /\ Cardinality({}) = 0
    BY FS_EmptySet
  <1>3. Cardinality(C(i + 1)) = Cardinality(C(i)) + (IF fs[i + 1].cross THEN 1 ELSE 0)
    <2>1. i + 1 \notin C(i)
      OBVIOUS
    <2>2. CASE fs[i + 1].cross
      <3>1. C(i + 1) = C(i) \cup {i + 1}
        BY <2>2
      <3>2. Cardinality(C(i) \cup {i + 1}) = Cardinality(C(i)) + 1
        BY <1>1, <2>1, FS_AddElement
      <3> QED
        BY <2>2, <3>1, <3>2
    <2>3. CASE ~fs[i + 1].cross
      <3>1. C(i + 1) = C(i)
        BY <2>3
      <3> QED
        BY <1>1, <2>3, <3>1
    <2> QED
      BY <2>2, <2>3
  <1>4. ASSUME NEW n \in Nat, i <= n
        PROVE  Cardinality(C(i)) <= Cardinality(C(n))
    <2>1. C(i) \in SUBSET C(n)
      BY <1>4
    <2>2. IsFiniteSet(C(n))
      BY <1>1
    <2> HIDE DEF C
    <2> QED
      BY <2>1, <2>2, FS_Subset
  <1>5. \A k : Depth(fs, k) = 2 + Cardinality(C(k))
    BY DEF Depth
  <1>6. \A k \in Nat : Cardinality(C(k)) \in Nat
    BY <1>1
  <1> HIDE DEF C
  <1>7. Depth(fs, i) \in Nat /\ Depth(fs, i) >= 2 /\ Depth(fs, 1) = 2
    <2>1. Cardinality(C(i)) \in Nat /\ Depth(fs, i) = 2 + Cardinality(C(i))
      BY <1>5, <1>6
    <2>2. Depth(fs, 1) = 2 + Cardinality(C(1)) /\ Cardinality(C(1)) = 0
      BY <1>2, <1>5
    <2> QED
      BY <2>1, <2>2
  <1>8. Depth(fs, i + 1) = Depth(fs, i) + (IF fs[i + 1].cross THEN 1 ELSE 0)
    <2>1. Cardinality(C(i)) \in Nat
      BY <1>6
    <2> QED
      BY <1>3, <1>5, <2>1
  <1>9. \A n \in Nat : i <= n => Depth(fs, i) <= Depth(fs, n)
    BY <1>4, <1>5, <1>6
  <1> QED
    BY <1>7, <1>8, <1>9

(* It depends on the frames up to there only. *)
LEMMA DepthSame ==
    ASSUME NEW fs, NEW gs, NEW i, \A j \in 2 .. i : fs[j] = gs[j]
    PROVE  Depth(fs, i) = Depth(gs, i)
  <1>1. {j \in 2 .. i : fs[j].cross} = {j \in 2 .. i : gs[j].cross}
    OBVIOUS
  <1> QED
    BY <1>1 DEF Depth

States == [lfr : Frames, crosses : Nat, found : BOOLEAN, panics : BOOLEAN]

(* One iteration of the loop, case by case. *)
LEMMA VisitCases ==
    ASSUME NEW s \in States, NEW fr \in Frames, NEW h \in Nat
    PROVE  LET t == Visit(s, fr, h)
           IN  /\ t \in States
               /\ s.found \/ s.panics \/ ~fr.call => t = s
               /\ ~s.found /\ ~s.panics =>
                    /\ fr.call /\ ~fr.cross =>
                         t.lfr = fr /\ t.crosses = s.crosses /\ ~t.found /\ ~t.panics
                    /\ fr.call /\ fr.cross /\ ~fr.did => t.panics
                    /\ fr.call /\ fr.cross /\ fr.did /\ s.crosses + 1 > h =>
                         t.lfr = s.lfr /\ t.found /\ ~t.panics
                    /\ fr.call /\ fr.cross /\ fr.did /\ ~(s.crosses + 1 > h) =>
                         t.lfr = fr /\ t.crosses = s.crosses + 1 /\ ~t.found /\ ~t.panics
  <1> DEFINE t == Visit(s, fr, h)
  <1>0. PICK lfr \in Frames, crosses \in Nat, found \in BOOLEAN, panics \in BOOLEAN :
          s = [lfr |-> lfr, crosses |-> crosses, found |-> found, panics |-> panics]
    BY DEF States
  <1>1. CASE s.found \/ s.panics \/ ~fr.call
    BY <1>1 DEF Visit
  <1>2. CASE ~s.found /\ ~s.panics /\ fr.call /\ ~fr.cross
    <2>1. t = [s EXCEPT !.lfr = fr]
      BY <1>2 DEF Visit
    <2>2. t = [lfr |-> fr, crosses |-> crosses, found |-> found, panics |-> panics]
      BY <1>0, <2>1
    <2> QED
      BY <1>0, <1>2, <2>2 DEF States
  <1>3. CASE ~s.found /\ ~s.panics /\ fr.call /\ fr.cross /\ ~fr.did
    <2>1. t = [s EXCEPT !.panics = TRUE]
      BY <1>3 DEF Visit
    <2>2. t = [lfr |-> lfr, crosses |-> crosses, found |-> found, panics |-> TRUE]
      BY <1>0, <2>1
    <2>3. t \in States
      BY <2>2 DEF States
    <2>4. t.panics = TRUE
      BY <2>2
    <2> QED
      BY <1>3, <2>3, <2>4
  <1>4. CASE ~s.found /\ ~s.panics /\ fr.call /\ fr.cross /\ fr.did /\ s.crosses + 1 > h
    <2>1. t = [s EXCEPT !.crosses = @ + 1, !.found = TRUE]
      BY <1>4 DEF Visit
    <2>2. t = [lfr |-> lfr, crosses |-> crosses + 1, found |-> TRUE, panics |-> panics]
      BY <1>0, <2>1
    <2>3. t \in States /\ t.lfr = s.lfr /\ t.found /\ ~t.panics
      <3>1. crosses + 1 \in Nat /\ s.lfr = lfr /\ s.panics = panics
        BY <1>0
      <3>2. t \in States
        BY <2>2, <3>1 DEF States
      <3>3. t.lfr = lfr /\ t.panics = panics
        BY <2>2
      <3>4. t.found = TRUE
        BY <2>2
      <3> QED
        BY <1>4, <3>1, <3>2, <3>3, <3>4
    <2> QED
      BY <1>4, <2>3
  <1>5. CASE ~s.found /\ ~s.panics /\ fr.call /\ fr.cross /\ fr.did /\ ~(s.crosses + 1 > h)
    <2>1. t = [s EXCEPT !.crosses = @ + 1, !.lfr = fr]
      BY <1>5 DEF Visit
    <2>2. t = [lfr |-> fr, crosses |-> crosses + 1, found |-> found, panics |-> panics]
      BY <1>0, <2>1
    <2> QED
      BY <1>0, <1>5, <2>2 DEF States
  <1> QED
    BY <1>1, <1>2, <1>3, <1>4, <1>5

(* How long the chain was below the frames already visited. *)
Below(j) == IF j = 0 THEN IF Head(frames).cross THEN 1 ELSE 2 ELSE Depth(frames, j)

LEMMA BelowStep ==
    ASSUME frames \in Seq(Frames), NEW j \in 1 .. Len(frames)
    PROVE  /\ Below(j) \in Nat /\ Below(j - 1) \in Nat
           /\ Below(j) = Below(j - 1) + (IF frames[j].cross THEN 1 ELSE 0)
  <1>1. CASE j = 1
    <2>1. Below(1) = 2 /\ Below(1 - 1) = (IF frames[1].cross THEN 1 ELSE 2)
      BY <1>1, DepthFacts DEF Below
    <2> QED
      BY <1>1, <2>1
  <1>2. CASE j # 1
    <2>1. j - 1 \in Nat /\ j - 1 >= 1 /\ (j - 1) + 1 = j /\ j # 0 /\ j - 1 # 0
      BY <1>2
    <2>2. Depth(frames, j) = Depth(frames, j - 1) + (IF frames[j].cross THEN 1 ELSE 0)
      BY <2>1, DepthFacts
    <2>3. Depth(frames, j - 1) \in Nat /\ Depth(frames, j) \in Nat
      BY <2>1, DepthFacts
    <2> QED
      BY <2>1, <2>2, <2>3 DEF Below
  <1> QED
    BY <1>1, <1>2

(* The frames a native function finds: those of the message, then its own. *)
LEMMA NativeFrames ==
    ASSUME FrameTypes
    PROVE  /\ InRuntime \in Seq(Frames) /\ Len(InRuntime) = Len(frames) + 2
           /\ \A j \in 1 .. Len(frames) : InRuntime[j] = frames[j]
           /\ \A j \in Len(frames) + 1 .. Len(frames) + 2 :
                InRuntime[j] = Frame(TRUE, FALSE)
           /\ Last(InRuntime) = Frame(TRUE, FALSE)
           /\ Len(frames) >= 1 => Head(InRuntime) = Head(frames)
  <1> DEFINE fr == Frame(TRUE, FALSE)
             n == Len(frames)
  <1>1. frames \in Seq(Frames) /\ fr \in Frames /\ n \in Nat
    <2>1. fr \in Frames
      BY FrameTyped
    <2>2. frames \in Seq(Frames)
      BY DEF FrameTypes
    <2> HIDE DEF fr
    <2> QED
      BY <2>1, <2>2
  <1> HIDE DEF fr
  <1>2. /\ Append(frames, fr) \in Seq(Frames) /\ Len(Append(frames, fr)) = n + 1
        /\ \A j \in 1 .. n : Append(frames, fr)[j] = frames[j]
        /\ Append(frames, fr)[n + 1] = fr
    BY <1>1
  <1>3. InRuntime = Append(Append(frames, fr), fr)
    BY DEF InRuntime, InNative, fr
  <1>4. /\ InRuntime \in Seq(Frames) /\ Len(InRuntime) = n + 2
        /\ \A j \in 1 .. n + 1 : InRuntime[j] = Append(frames, fr)[j]
        /\ InRuntime[n + 2] = fr
    BY <1>1, <1>2, <1>3
  <1>5. \A j \in 1 .. n : InRuntime[j] = frames[j]
    BY <1>1, <1>2, <1>4
  <1>6. \A j \in n + 1 .. n + 2 : InRuntime[j] = fr
    BY <1>1, <1>2, <1>4
  <1>7. Last(InRuntime) = fr
    BY <1>4 DEF Last
  <1>8. n >= 1 => Head(InRuntime) = Head(frames)
    BY <1>1, <1>4, <1>5
  <1> QED
    BY <1>4, <1>5, <1>6, <1>7, <1>8 DEF fr

(* The loop's invariant, with the j outermost frames still to visit: it    *)
(* has met a function that does not cross, or found the realm it looks     *)
(* for, or has counted the crossings it has passed and holds the realm     *)
(* that the next one below entered.                                        *)
Walking(s, height, j) ==
    /\ s \in States
    /\ s.panics => ~AllCrossed
    /\ ~s.panics /\ s.found => s.lfr.realm = crossed[Len(crossed) - height]
    /\ ~s.panics /\ ~s.found =>
         /\ s.lfr.realm = RealmAt(j + 1)
         /\ s.crosses <= height
         /\ s.crosses = Len(crossed) - Below(j)

LEMMA WalkStep ==
    ASSUME FrameInv, StackInv, Running, NEW height \in Nat,
           NEW j \in 1 .. Len(frames), NEW s, Walking(s, height, j)
    PROVE  Walking(Visit(s, frames[j], height), height, j - 1)
  <1> DEFINE fr == frames[j]
             t == Visit(s, fr, height)
  <1>1. /\ frames \in Seq(Frames) /\ crossed \in Seq(Realms \cup {RunPath, User})
        /\ Len(crossed) \in Nat /\ s \in States
    BY DEF FrameInv, FrameTypes, Walking
  <1>2. /\ fr \in Frames /\ fr.call \in BOOLEAN /\ fr.cross \in BOOLEAN /\ fr.did \in BOOLEAN
        /\ fr.cross /\ ~fr.did => ~AllCrossed
    <2>1. fr \in Frames
      BY <1>1
    <2>2. fr.cross /\ ~fr.did => ~AllCrossed
      BY <1>1 DEF AllCrossed
    <2> HIDE DEF fr
    <2> QED
      BY <2>1, <2>2 DEF Frames
  <1>3. /\ fr.cross => fr.call /\ RealmAt(j + 1) = crossed[Depth(frames, j)]
        /\ ~fr.call => RealmAt(j + 1) = RealmAt(j)
    BY DEF StackInv
  <1>4. RealmAt((j - 1) + 1) = fr.realm /\ RealmAt((j - 1) + 1) = RealmAt(j)
    <2>1. (j - 1) + 1 = j /\ j <= Len(frames)
      BY <1>1
    <2> QED
      BY <2>1 DEF RealmAt
  <1>5. /\ Below(j) \in Nat /\ Below(j - 1) \in Nat /\ Below(j) = Depth(frames, j)
        /\ Below(j) = Below(j - 1) + (IF fr.cross THEN 1 ELSE 0)
    <2>1. j # 0
      OBVIOUS
    <2> QED
      BY <1>1, <2>1, BelowStep DEF Below
  <1> HIDE DEF fr
  <1>6. /\ t \in States
        /\ s.found \/ s.panics \/ ~fr.call => t = s
        /\ ~s.found /\ ~s.panics =>
             /\ fr.call /\ ~fr.cross =>
                  t.lfr = fr /\ t.crosses = s.crosses /\ ~t.found /\ ~t.panics
             /\ fr.call /\ fr.cross /\ ~fr.did => t.panics
             /\ fr.call /\ fr.cross /\ fr.did /\ s.crosses + 1 > height =>
                  t.lfr = s.lfr /\ t.found /\ ~t.panics
             /\ fr.call /\ fr.cross /\ fr.did /\ ~(s.crosses + 1 > height) =>
                  t.lfr = fr /\ t.crosses = s.crosses + 1 /\ ~t.found /\ ~t.panics
    BY <1>1, <1>2, VisitCases
  <1> HIDE DEF t
  <1> SUFFICES Walking(t, height, j - 1)
    BY DEF t, fr
  <1>7. s.crosses \in Nat
    BY <1>1 DEF States
  <1>8. CASE s.found \/ s.panics
    BY <1>6, <1>8 DEF Walking
  <1>9. CASE ~s.found /\ ~s.panics
    <2>1. /\ s.lfr.realm = RealmAt(j + 1) /\ s.crosses <= height
          /\ s.crosses = Len(crossed) - Below(j)
      BY <1>9 DEF Walking
    <2>2. CASE ~fr.call
      <3>1. t = s /\ ~fr.cross
        BY <1>3, <1>6, <2>2
      <3>2. RealmAt(j + 1) = RealmAt((j - 1) + 1) /\ Below(j) = Below(j - 1)
        BY <1>3, <1>4, <1>5, <2>2, <3>1
      <3> QED
        BY <1>1, <1>9, <2>1, <3>1, <3>2 DEF Walking
    <2>3. CASE fr.call /\ ~fr.cross
      <3>1. Below(j) = Below(j - 1)
        BY <1>5, <2>3
      <3> QED
        BY <1>4, <1>6, <1>9, <2>1, <2>3, <3>1 DEF Walking
    <2>4. CASE fr.cross /\ ~fr.did
      <3>1. t.panics
        BY <1>3, <1>6, <1>9, <2>4
      <3> QED
        BY <1>2, <1>6, <2>4, <3>1 DEF Walking
    <2>5. CASE fr.cross /\ fr.did /\ s.crosses + 1 > height
      <3>1. t.lfr = s.lfr /\ t.found /\ ~t.panics
        BY <1>3, <1>6, <1>9, <2>5
      <3>2. Below(j) = Len(crossed) - height
        BY <1>1, <1>5, <1>7, <2>1, <2>5, SMTT(30)
      <3>3. s.lfr.realm = crossed[Len(crossed) - height]
        BY <1>3, <1>5, <2>1, <2>5, <3>2
      <3> QED
        BY <1>6, <3>1, <3>3 DEF Walking
    <2>6. CASE fr.cross /\ fr.did /\ ~(s.crosses + 1 > height)
      <3>1. t.lfr = fr /\ t.crosses = s.crosses + 1 /\ ~t.found /\ ~t.panics
        BY <1>3, <1>6, <1>9, <2>6
      <3>2. s.crosses + 1 <= height /\ s.crosses + 1 = Len(crossed) - Below(j - 1)
        BY <1>1, <1>5, <1>7, <2>1, <2>6
      <3> QED
        BY <1>4, <1>6, <3>1, <3>2 DEF Walking
    <2> QED
      BY <1>2, <2>2, <2>3, <2>4, <2>5, <2>6
  <1> QED
    BY <1>8, <1>9

(* The walk ends as the loop's invariant says. *)
LEMMA WalkEnds ==
    ASSUME FrameInv, StackInv, Running, NEW height \in Nat
    PROVE  Walking(Walk(InRuntime, height), height, 0)
  <1> DEFINE n == Len(frames)
             fr == Frame(TRUE, FALSE)
  <1>1. FrameTypes /\ n \in Nat /\ n >= 1 /\ Len(crossed) \in Nat
    BY DEF FrameInv, FrameTypes
  <1>2. PICK s : /\ Walk(InRuntime, height) = s[n + 2]
                 /\ s[0] = [lfr |-> fr, crosses |-> 0, found |-> FALSE, panics |-> FALSE]
                 /\ \A i \in 1 .. n + 2 :
                      s[i] = Visit(s[i - 1], InRuntime[(n + 2) - i + 1], height)
    <2>1. Len(InRuntime) = n + 2 /\ n + 2 \in Nat /\ Last(InRuntime) = fr
      BY <1>1, NativeFrames
    <2> DEFINE fs == InRuntime
    <2> HIDE DEF n, fr, fs
    <2>2. Len(fs) = n + 2 /\ n + 2 \in Nat /\ Last(fs) = fr
      BY <2>1 DEF fs
    <2>3. PICK s : /\ Walk(fs, height) = s[Len(fs)]
                   /\ s[0] = [lfr |-> Last(fs), crosses |-> 0, found |-> FALSE, panics |-> FALSE]
                   /\ \A i \in 1 .. Len(fs) :
                        s[i] = Visit(s[i - 1], fs[Len(fs) - i + 1], height)
      BY <2>2, WalkLoop, ZenonT(60)
    <2>4. /\ Walk(fs, height) = s[n + 2]
          /\ s[0] = [lfr |-> fr, crosses |-> 0, found |-> FALSE, panics |-> FALSE]
          /\ \A i \in 1 .. n + 2 : s[i] = Visit(s[i - 1], fs[(n + 2) - i + 1], height)
      BY <2>2, <2>3
    <2> QED
      BY <2>4 DEF fs
  <1>3. fr \in Frames /\ fr.realm = realm /\ ~fr.cross /\ fr.call
    BY <1>1, FrameTyped DEF Frame
  <1> HIDE DEF fr
  <1> DEFINE start == [lfr |-> fr, crosses |-> 0, found |-> FALSE, panics |-> FALSE]
  <1>4. /\ start \in States /\ start.lfr = fr /\ start.crosses = 0
        /\ start.found = FALSE /\ start.panics = FALSE
    BY <1>3 DEF States
  <1>5. Visit(start, fr, height) = start
    BY <1>3, <1>4 DEF Visit
  <1>6. s[2] = start
    <2>1. /\ InRuntime[(n + 2) - 1 + 1] = fr /\ InRuntime[(n + 2) - 2 + 1] = fr
      <3>1. (n + 2) - 1 + 1 \in n + 1 .. n + 2 /\ (n + 2) - 2 + 1 \in n + 1 .. n + 2
        BY <1>1
      <3> QED
        BY <1>1, <3>1, NativeFrames DEF fr
    <2>2. /\ s[1] = Visit(s[1 - 1], InRuntime[(n + 2) - 1 + 1], height)
          /\ s[2] = Visit(s[2 - 1], InRuntime[(n + 2) - 2 + 1], height)
          /\ 1 - 1 = 0 /\ 2 - 1 = 1
      <3>1. 1 \in 1 .. n + 2 /\ 2 \in 1 .. n + 2
        BY <1>1
      <3> QED
        BY <1>2, <3>1
    <2> HIDE DEF start
    <2> QED
      BY <1>2, <1>5, <2>1, <2>2 DEF start
  <1> DEFINE Good == {k \in 0 .. n : Walking(s[k + 2], height, n - k)}
  <1>7. 0 \in Good
    <2>1. RealmAt(n + 1) = realm
      BY <1>1 DEF RealmAt
    <2>2. Len(crossed) - Below(n) = 0
      <3>1. Len(crossed) = Depth(frames, n) /\ Below(n) = Depth(frames, n)
        BY <1>1 DEF FrameInv, Crossings, Depth, Below
      <3> QED
        BY <1>1, <3>1
    <2>3. Walking(start, height, n)
      <3> HIDE DEF start
      <3> QED
        BY <1>3, <1>4, <2>1, <2>2 DEF Walking
    <2>4. 0 \in 0 .. n /\ n - 0 = n /\ 0 + 2 = 2
      BY <1>1
    <2> HIDE DEF start
    <2> QED
      BY <1>6, <2>3, <2>4
  <1> HIDE DEF start
  <1>8. ASSUME NEW k \in 1 .. n, k - 1 \in Good
        PROVE  k \in Good
    <2>1. Walking(s[(k - 1) + 2], height, n - (k - 1))
      BY <1>8
    <2>2. /\ k \in 0 .. n /\ (k - 1) + 2 = (k + 2) - 1 /\ n - (k - 1) \in 1 .. n
          /\ (n - (k - 1)) - 1 = n - k /\ k + 2 \in 1 .. n + 2
          /\ (n + 2) - (k + 2) + 1 = n - (k - 1)
      BY <1>1
    <2>3. s[k + 2] = Visit(s[(k + 2) - 1], InRuntime[n - (k - 1)], height)
      BY <1>2, <2>2
    <2>4. InRuntime[n - (k - 1)] = frames[n - (k - 1)]
      BY <1>1, <2>2, NativeFrames
    <2>5. Walking(Visit(s[(k + 2) - 1], frames[n - (k - 1)], height), height, (n - (k - 1)) - 1)
      BY <2>1, <2>2, WalkStep
    <2> QED
      BY <2>2, <2>3, <2>4, <2>5
  <1>9. n \in Good
    <2> HIDE DEF Good
    <2> QED
      BY <1>1, <1>7, <1>8, Iterations
  <1>10. n - n = 0
    BY <1>1
  <1> QED
    BY <1>2, <1>9, <1>10

(* GetRealm finds the realm that many crossings back in the chain, unless  *)
(* a function was called with cross that is none that crosses.             *)
LEMMA RealmFound ==
    ASSUME FrameInv, StackInv, Running, NEW height \in {0, 1}
    PROVE  \/ GetRealm(InRuntime, height) = crossed[Len(crossed) - height]
           \/ GetRealm(InRuntime, height) = NoRealm /\ ~AllCrossed
  <1> DEFINE s == Walk(InRuntime, height)
             first == Head(InRuntime).pkg
             m == Len(crossed)
  <1>1. FrameTypes /\ crossed[1] = User /\ m \in Nat /\ m >= 2
    <2>1. FrameTypes /\ crossed[1] = User /\ m = 2 + Cardinality(Crossings)
      BY DEF FrameInv
    <2>2. Cardinality(Crossings) \in Nat
      BY <2>1, CrossingsFinite DEF FrameTypes
    <2> QED
      BY <2>1, <2>2
  <1>2. first = Head(frames).pkg
    BY <1>1, NativeFrames DEF FrameInv
  <1>3. Walking(s, height, 0)
    BY WalkEnds
  <1> HIDE DEF s, first
  <1>4. GetRealm(InRuntime, height) =
          IF s.panics THEN NoRealm
          ELSE CASE s.found -> s.lfr.realm
                 [] ~s.found /\ height = s.crosses ->
                      IF stage = "run" /\ first = NoPath THEN User ELSE first
                 [] ~s.found /\ height = s.crosses + 1 -> User
                 [] OTHER -> NoRealm
    BY DEF GetRealm, s, first
  <1>5. CASE s.panics
    BY <1>3, <1>4, <1>5 DEF Walking
  <1>6. CASE s.found /\ ~s.panics
    BY <1>3, <1>4, <1>6 DEF Walking
  <1>7. CASE ~s.found /\ ~s.panics
    <2>1. s.crosses <= height /\ s.crosses = m - Below(0) /\ s.crosses \in Nat
      BY <1>3, <1>7 DEF Walking, States
    <2>2. CASE Head(frames).cross
      <3>1. Below(0) = 1
        BY <2>2 DEF Below
      <3>2. height = 1 /\ s.crosses = 1 /\ m = 2
        <4>1. s.crosses <= height /\ s.crosses = m - 1 /\ s.crosses \in Nat
          BY <2>1, <3>1
        <4>2. m \in Nat /\ m >= 2 /\ (height = 0 \/ height = 1)
          BY <1>1
        <4> HIDE DEF m
        <4> QED
          BY <4>1, <4>2
      <3>3. stage = "run" /\ first = NoPath
        BY <1>2, <2>2 DEF StackInv
      <3>4. GetRealm(InRuntime, height) = User
        BY <1>4, <1>7, <3>2, <3>3
      <3> QED
        BY <1>1, <3>2, <3>4
    <2>3. CASE ~Head(frames).cross
      <3>1. Below(0) = 2
        BY <2>3 DEF Below
      <3>2. first = crossed[2] /\ first # NoPath
        <4>1. first = crossed[2]
          BY <1>2, <2>3 DEF StackInv
        <4>2. crossed[2] \in Realms \cup {RunPath}
          BY <1>1 DEF StackInv
        <4> QED
          BY <4>1, <4>2, PathAssumption
      <3>3. CASE height = s.crosses
        <4>1. GetRealm(InRuntime, height) = first
          BY <1>4, <1>7, <3>2, <3>3
        <4>2. m - height = 2
          BY <1>1, <2>1, <3>1, <3>3
        <4> QED
          BY <3>2, <4>1, <4>2
      <3>4. CASE height # s.crosses
        <4>1. height = 1 /\ s.crosses = 0 /\ m = 2
          <5>1. s.crosses <= height /\ s.crosses = m - 2 /\ s.crosses \in Nat
            BY <2>1, <3>1
          <5>2. m \in Nat /\ m >= 2 /\ (height = 0 \/ height = 1)
            BY <1>1
          <5> HIDE DEF m
          <5> QED
            BY <3>4, <5>1, <5>2
        <4>2. GetRealm(InRuntime, height) = User
          BY <1>4, <1>7, <4>1
        <4> QED
          BY <1>1, <4>1, <4>2
      <3> QED
        BY <3>3, <3>4
    <2> QED
      BY <2>2, <2>3
  <1> QED
    BY <1>5, <1>6, <1>7

-----------------------------------------------------------------------------
(* The stack's invariant. *)

LEMMA StackEntered ==
    ASSUME StackInv, NEW first \in Frames, first.call,
           NEW s \in {"add", "run"}, NEW path \in Realms \cup {RunPath},
           first.cross => s = "run" /\ first.pkg = NoPath,
           ~first.cross => first.pkg = path,
           Enter(s, first, path)
    PROVE  StackInv'
  <1>1. /\ frames' = <<first>> /\ crossed' = <<User, path>> /\ stage' = s
        /\ realm' = path /\ bankers' = bankers /\ bankers = {}
    BY DEF Enter, StackInv, Running
  <1>2. /\ Len(frames') = 1 /\ Head(frames') = first /\ frames'[1] = first
        /\ Len(crossed') = 2 /\ crossed'[2] = path
    BY <1>1
  <1>3. RealmAt(1 + 1)' = path
    BY <1>1, <1>2 DEF RealmAt
  <1>4. Depth(frames', 1) = 2
    BY DepthFacts
  <1>5. \A i \in 1 .. Len(frames') :
          /\ frames'[i].cross => frames'[i].call /\ RealmAt(i + 1)' = crossed'[Depth(frames', i)]
          /\ ~frames'[i].call => RealmAt(i + 1)' = RealmAt(i)'
    <2>1. \A i \in 1 .. Len(frames') : i = 1
      BY <1>2
    <2> QED
      BY <1>2, <1>3, <1>4, <2>1
  <1>6. \A i \in 2 .. Len(crossed') : crossed'[i] \in Realms \cup {RunPath}
    BY <1>2
  <1> QED
    BY <1>1, <1>2, <1>5, <1>6 DEF StackInv, Running

(* A frame is pushed. *)
LEMMA StackPushed ==
    ASSUME FrameInv, StackInv, Running, NEW fr \in Frames, fr.realm = realm,
           frames' = Append(frames, fr), stage' = stage, bankers' = bankers,
           ~fr.call => realm' = realm /\ ~fr.cross,
           \/ ~fr.cross /\ crossed' = crossed
           \/ fr.cross /\ realm' \in Realms /\ crossed' = Append(crossed, realm')
    PROVE  StackInv'
  <1> DEFINE n == Len(frames)
             m == Len(crossed)
  <1>1. /\ frames \in Seq(Frames) /\ crossed \in Seq(Realms \cup {RunPath, User})
        /\ n \in Nat /\ n >= 1 /\ m \in Nat
    BY DEF FrameInv, FrameTypes
  <1>2. m = Depth(frames, n) /\ m >= 2
    <2>1. m = Depth(frames, n)
      BY DEF FrameInv, Crossings, Depth
    <2> QED
      BY <1>1, <2>1, DepthFacts
  <1>3. /\ Len(frames') = n + 1 /\ Head(frames') = Head(frames)
        /\ \A i \in 1 .. n : frames'[i] = frames[i]
        /\ frames'[n + 1] = fr
    BY <1>1
  <1>4. /\ Len(crossed') = m + (IF fr.cross THEN 1 ELSE 0)
        /\ \A i \in 1 .. m : crossed'[i] = crossed[i]
        /\ fr.cross => crossed'[m + 1] = realm' /\ realm' \in Realms
    BY <1>1
  <1>5. \A i \in 2 .. Len(crossed') : crossed'[i] \in Realms \cup {RunPath}
    <2>1. ASSUME NEW i \in 2 .. Len(crossed')
          PROVE  crossed'[i] \in Realms \cup {RunPath}
      <3>1. CASE i \in 2 .. m
        BY <1>1, <1>4, <3>1 DEF StackInv
      <3>2. CASE i \notin 2 .. m
        <4>1. fr.cross /\ i = m + 1
          BY <1>1, <1>4, <2>1, <3>2
        <4> QED
          BY <1>4, <4>1
      <3> QED
        BY <3>1, <3>2
    <2> QED
      BY <2>1
  <1>6. \A i \in 1 .. n + 1 : RealmAt(i)' = RealmAt(i)
    <2>1. ASSUME NEW i \in 1 .. n + 1 PROVE RealmAt(i)' = RealmAt(i)
      <3>1. CASE i \in 1 .. n
        BY <1>1, <1>3, <3>1 DEF RealmAt
      <3>2. CASE i = n + 1
        <4>1. ~(n + 1 <= n)
          BY <1>1
        <4> QED
          BY <1>3, <3>2, <4>1 DEF RealmAt
      <3> QED
        BY <1>1, <3>1, <3>2
    <2> QED
      BY <2>1
  <1>7. ASSUME NEW i \in Nat, i = n + 1
        PROVE  RealmAt(i + 1)' = realm' /\ RealmAt(i)' = realm
    <2>1. Len(frames') = i /\ frames'[i].realm = realm
      BY <1>3, <1>7
    <2>2. ~(i + 1 <= i) /\ i <= i
      OBVIOUS
    <2> HIDE DEF n
    <2> QED
      BY <2>1, <2>2 DEF RealmAt
  <1>8. \A i \in 1 .. n : Depth(frames', i) = Depth(frames, i) /\ Depth(frames, i) \in 1 .. m
    <2>1. ASSUME NEW i \in 1 .. n
          PROVE  Depth(frames', i) = Depth(frames, i) /\ Depth(frames, i) \in 1 .. m
      <3>1. \A j \in 2 .. i : frames'[j] = frames[j]
        BY <1>1, <1>3
      <3>2. i \in Nat /\ i >= 1 /\ i <= n
        BY <1>1
      <3>3. Depth(frames, i) \in Nat /\ Depth(frames, i) >= 2 /\ Depth(frames, i) <= m
        BY <1>1, <1>2, <3>2, DepthFacts
      <3>4. Depth(frames', i) = Depth(frames, i)
        BY <3>1, DepthSame
      <3> QED
        BY <1>1, <3>3, <3>4
    <2> QED
      BY <2>1
  <1>9. Depth(frames', n + 1) = m + (IF fr.cross THEN 1 ELSE 0)
    <2>1. Depth(frames', n + 1) = Depth(frames', n) + (IF frames'[n + 1].cross THEN 1 ELSE 0)
      BY <1>1, DepthFacts
    <2>2. Depth(frames', n) = m
      BY <1>1, <1>2, <1>8
    <2> QED
      BY <1>3, <2>1, <2>2
  <1>10. ASSUME NEW i \in 1 .. Len(frames')
         PROVE  /\ frames'[i].cross => frames'[i].call /\ RealmAt(i + 1)' = crossed'[Depth(frames', i)]
                /\ ~frames'[i].call => RealmAt(i + 1)' = RealmAt(i)'
    <2>1. CASE i \in 1 .. n
      <3>1. i + 1 \in 1 .. n + 1 /\ i \in 1 .. n + 1
        BY <1>1, <2>1
      <3>2. /\ frames[i].cross => frames[i].call /\ RealmAt(i + 1) = crossed[Depth(frames, i)]
            /\ ~frames[i].call => RealmAt(i + 1) = RealmAt(i)
        BY <2>1 DEF StackInv
      <3>3. crossed'[Depth(frames', i)] = crossed[Depth(frames, i)]
        BY <1>4, <1>8, <2>1
      <3>4. RealmAt(i + 1)' = RealmAt(i + 1) /\ RealmAt(i)' = RealmAt(i)
        BY <1>6, <3>1
      <3>5. frames'[i] = frames[i]
        BY <1>3, <2>1
      <3> QED
        BY <3>2, <3>3, <3>4, <3>5
    <2>2. CASE i = n + 1
      <3>1. frames'[i] = fr /\ RealmAt(i + 1)' = realm' /\ RealmAt(i)' = realm
        <4>1. frames'[n + 1] = fr /\ i \in Nat
          BY <1>3
        <4> HIDE DEF n
        <4> QED
          BY <1>7, <2>2, <4>1
      <3>2. fr.cross => Depth(frames', i) = m + 1 /\ crossed'[m + 1] = realm' /\ fr.call
        BY <1>4, <1>9, <2>2
      <3> QED
        BY <3>1, <3>2
    <2> QED
      BY <1>1, <1>3, <2>1, <2>2
  <1>11. crossed'[2] = crossed[2]
    BY <1>1, <1>2, <1>4
  <1>12. Running' = Running
    BY DEF Running
  <1> QED
    BY <1>3, <1>5, <1>10, <1>11, <1>12 DEF StackInv

(* A frame is left. *)
LEMMA StackReturned ==
    ASSUME FrameInv, StackInv, Return
    PROVE  StackInv'
  <1> DEFINE n == Len(frames)
             m == Len(crossed)
  <1>1. /\ frames \in Seq(Frames) /\ crossed \in Seq(Realms \cup {RunPath, User})
        /\ n \in Nat /\ n >= 1 /\ m \in Nat /\ Running
    BY DEF Return, FrameInv, FrameTypes
  <1>2. CASE n = 1
    <2>1. stage' = "none" /\ pkg' = NoPath /\ bankers' = {}
      BY <1>2 DEF Return
    <2> QED
      BY <2>1 DEF StackInv, Running
  <1>3. CASE n # 1
    <2>1. /\ frames' = Front(frames) /\ realm' = Last(frames).realm
          /\ crossed' = IF Last(frames).cross THEN Front(crossed) ELSE crossed
          /\ stage' = stage /\ bankers' = bankers
      BY <1>3 DEF Return
    <2>2. n >= 2 /\ n - 1 \in Nat /\ n - 1 >= 1 /\ (n - 1) + 1 = n
      <3>1. n \in Nat /\ n >= 1 /\ n # 1
        BY <1>1, <1>3
      <3> HIDE DEF n
      <3> QED
        BY <3>1
    <2>3. /\ Len(frames') = n - 1 /\ frames' \in Seq(Frames)
          /\ \A i \in 1 .. n - 1 : frames'[i] = frames[i]
          /\ Head(frames') = Head(frames)
          /\ Last(frames) = frames[n]
      <3>1. frames' = SubSeq(frames, 1, n - 1)
        BY <2>1 DEF Front
      <3>2. /\ Len(frames') = n - 1 /\ frames' \in Seq(Frames)
            /\ \A i \in 1 .. n - 1 : frames'[i] = frames[i]
        BY <1>1, <2>2, <3>1
      <3>3. Head(frames') = frames'[1] /\ Head(frames) = frames[1] /\ 1 \in 1 .. n - 1
        BY <1>1, <2>2, <3>2
      <3> QED
        BY <3>2, <3>3 DEF Last
    <2>4. FrameInv' /\ Running'
      BY <1>1, <2>1, Returned DEF Running
    <2>5. /\ Len(crossed') = Depth(frames', n - 1) /\ Len(crossed') \in Nat /\ Len(crossed') >= 2
          /\ Len(crossed') <= m
          /\ \A i \in 1 .. Len(crossed') : crossed'[i] = crossed[i]
      <3>1. Len(crossed') = Depth(frames', n - 1)
        BY <2>3, <2>4 DEF FrameInv, Crossings, Depth
      <3>2. Depth(frames', n - 1) \in Nat /\ Depth(frames', n - 1) >= 2
        BY <2>2, DepthFacts
      <3>3. Len(crossed') <= m /\ \A i \in 1 .. Len(crossed') : crossed'[i] = crossed[i]
        <4>1. CASE Last(frames).cross
          <5>1. m >= 1
            <6>1. m = 2 + Cardinality(Crossings) /\ Cardinality(Crossings) \in Nat
              BY <1>1, CrossingsFinite DEF FrameInv
            <6> QED
              BY <6>1
          <5>2. crossed' = SubSeq(crossed, 1, m - 1)
            BY <2>1, <4>1 DEF Front
          <5> QED
            BY <1>1, <5>1, <5>2
        <4>2. CASE ~Last(frames).cross
          BY <1>1, <2>1, <4>2
        <4> QED
          BY <4>1, <4>2
      <3> QED
        BY <3>1, <3>2, <3>3
    <2>6. \A i \in 1 .. n : RealmAt(i)' = RealmAt(i)
      <3>1. ASSUME NEW i \in 1 .. n PROVE RealmAt(i)' = RealmAt(i)
        <4>1. CASE i = n
          <5>1. ~(n <= n - 1) /\ n <= n
            BY <1>1
          <5> QED
            BY <2>1, <2>3, <4>1, <5>1 DEF RealmAt
        <4>2. CASE i # n
          <5>1. i \in 1 .. n - 1 /\ i <= n - 1 /\ i <= n
            BY <1>1, <4>2
          <5> QED
            BY <2>3, <5>1 DEF RealmAt
        <4> QED
          BY <4>1, <4>2
      <3> QED
        BY <3>1
    <2>7. ASSUME NEW i \in 1 .. Len(frames')
          PROVE  /\ frames'[i].cross => frames'[i].call /\ RealmAt(i + 1)' = crossed'[Depth(frames', i)]
                 /\ ~frames'[i].call => RealmAt(i + 1)' = RealmAt(i)'
      <3>1. i \in 1 .. n - 1 /\ i \in 1 .. n /\ i + 1 \in 1 .. n /\ i \in Nat /\ i >= 1 /\ i <= n - 1
        BY <1>1, <2>3
      <3>2. /\ frames[i].cross => frames[i].call /\ RealmAt(i + 1) = crossed[Depth(frames, i)]
            /\ ~frames[i].call => RealmAt(i + 1) = RealmAt(i)
        BY <1>1, <3>1 DEF StackInv
      <3>3. RealmAt(i + 1)' = RealmAt(i + 1) /\ RealmAt(i)' = RealmAt(i)
        BY <2>6, <3>1
      <3>4. Depth(frames', i) = Depth(frames, i)
        <4>1. \A j \in 2 .. i : frames'[j] = frames[j]
          BY <2>3, <3>1
        <4> QED
          BY <4>1, DepthSame
      <3>5. crossed'[Depth(frames', i)] = crossed[Depth(frames', i)]
        <4>1. /\ Depth(frames', i) \in Nat /\ Depth(frames', i) >= 2
              /\ Depth(frames', i) <= Depth(frames', n - 1)
          BY <2>2, <3>1, DepthFacts
        <4>2. Depth(frames', i) \in 1 .. Len(crossed')
          BY <2>5, <4>1
        <4> QED
          BY <2>5, <4>2
      <3>6. frames'[i] = frames[i]
        BY <2>3, <3>1
      <3> QED
        BY <3>2, <3>3, <3>4, <3>5, <3>6
    <2>8. \A i \in 2 .. Len(crossed') : crossed'[i] \in Realms \cup {RunPath}
      <3>1. ASSUME NEW i \in 2 .. Len(crossed') PROVE crossed'[i] \in Realms \cup {RunPath}
        <4>1. i \in 2 .. m /\ i \in 1 .. Len(crossed')
          BY <1>1, <2>5
        <4> QED
          BY <1>1, <2>5, <4>1 DEF StackInv
      <3> QED
        BY <3>1
    <2>9. crossed'[2] = crossed[2]
      BY <2>5
    <2> QED
      BY <1>1, <2>1, <2>3, <2>4, <2>7, <2>8, <2>9 DEF StackInv
  <1> QED
    BY <1>2, <1>3

(* Only the message's own realm gets an origin-send banker: the user       *)
(* crossed into the realm that asks, so it is the first of the chain.      *)
LEMMA StackBanker ==
    ASSUME FrameInv, StackInv, OriginBanker
    PROVE  StackInv'
  <1> DEFINE m == Len(crossed)
  <1>1. /\ Running /\ CurrentRealm # NoRealm /\ PreviousRealm = User
        /\ bankers' = bankers \cup {CurrentRealm}
        /\ UNCHANGED <<stage, frames, pkg, realm, crossed>>
    BY DEF OriginBanker
  <1>2. m \in Nat /\ m >= 2
    <2>1. frames \in Seq(Frames) /\ m = 2 + Cardinality(Crossings)
      BY <1>1 DEF FrameInv, FrameTypes
    <2> QED
      BY <2>1, CrossingsFinite
  <1>3. crossed[m - 1] = User
    BY <1>1, RealmFound, PathAssumption DEF PreviousRealm
  <1>4. m = 2
    <2>1. SUFFICES ASSUME m # 2 PROVE FALSE
      OBVIOUS
    <2>2. m - 1 \in 2 .. m
      <3> HIDE DEF m
      <3> QED
        BY <1>2, <2>1
    <2>3. User \in Realms \cup {RunPath}
      BY <1>1, <1>3, <2>2 DEF StackInv
    <2> QED
      BY <2>3, PathAssumption
  <1>5. CurrentRealm = crossed[m - 0]
    BY <1>1, RealmFound DEF CurrentRealm
  <1>6. CurrentRealm = crossed[2]
    BY <1>4, <1>5
  <1>7. \A i : RealmAt(i)' = RealmAt(i)
    BY <1>1 DEF RealmAt
  <1>8. bankers' \subseteq {crossed[2]}
    BY <1>1, <1>6 DEF StackInv
  <1>9. Running'
    BY <1>1 DEF Running
  <1> QED
    BY <1>1, <1>7, <1>8, <1>9 DEF StackInv

LEMMA StackStep ==
    ASSUME FrameInv, StackInv, [Next]_vars
    PROVE  StackInv'
  <1>0. FrameTypes /\ realm \in Paths
    BY DEF FrameInv, FrameTypes
  <1>1. ASSUME NEW r \in Realms, MsgCall(r)
        PROVE  StackInv'
    <2>1. /\ Frame(TRUE, TRUE) \in Frames /\ Frame(TRUE, TRUE).call = TRUE
          /\ Frame(TRUE, TRUE).cross = TRUE /\ Frame(TRUE, TRUE).pkg = pkg
      BY <1>0, FrameTyped DEF Frame
    <2>2. Enter("run", Frame(TRUE, TRUE), r)
      BY <1>1 DEF MsgCall
    <2>3. pkg = NoPath
      BY <2>2 DEF Enter, StackInv, Running
    <2> QED
      BY <2>1, <2>2, <2>3, StackEntered
  <1>2. ASSUME NEW path \in Realms \cup {RunPath}, NEW s \in {"add", "run"},
               Enter(s, Own(path), path)
        PROVE  StackInv'
    <2>1. /\ Own(path) \in Frames /\ Own(path).call = TRUE /\ Own(path).cross = FALSE
          /\ Own(path).pkg = path
      BY DEF Own, Frames, Paths
    <2> QED
      BY <1>2, <2>1, StackEntered
  <1>3. CASE MsgRun \/ \E r \in Realms : MsgAddPackage(r)
    BY <1>2, <1>3 DEF MsgRun, MsgAddPackage
  <1>4. CASE Block
    <2>1. /\ Running /\ frames' = Append(frames, Frame(FALSE, FALSE))
          /\ stage' = stage /\ bankers' = bankers /\ realm' = realm /\ crossed' = crossed
      BY <1>4 DEF Block, Push
    <2>2. Frame(FALSE, FALSE) \in Frames /\ Frame(FALSE, FALSE).realm = realm
          /\ Frame(FALSE, FALSE).cross = FALSE
      BY <1>0, FrameTyped
    <2> QED
      BY <2>1, <2>2, StackPushed
  <1>5. CASE \/ \E p \in Realms \cup Libs : Call(p)
             \/ \E p \in Realms \cup Libs, r \in Realms : CallMethod(p, r)
    <2>1. /\ Running /\ frames' = Append(frames, Frame(TRUE, FALSE))
          /\ stage' = stage /\ bankers' = bankers /\ crossed' = crossed
      BY <1>5 DEF Call, CallMethod, Push
    <2>2. /\ Frame(TRUE, FALSE) \in Frames /\ Frame(TRUE, FALSE).realm = realm
          /\ Frame(TRUE, FALSE).cross = FALSE /\ Frame(TRUE, FALSE).call = TRUE
      BY <1>0, FrameTyped DEF Frame
    <2> QED
      BY <2>1, <2>2, StackPushed
  <1>6. ASSUME NEW r \in Realms, Cross(r) \/ CrossUndone(r)
        PROVE  StackInv'
    <2>1. PICK fr \in {Frame(TRUE, TRUE), NoCrossing} : CrossInto(fr, r)
      BY <1>6 DEF Cross, CrossUndone
    <2>2. /\ Running /\ frames' = Append(frames, fr)
          /\ stage' = stage /\ bankers' = bankers
          /\ realm' = r /\ crossed' = Append(crossed, r)
      BY <2>1 DEF CrossInto, Push
    <2>3. /\ Frame(TRUE, TRUE) \in Frames /\ Frame(TRUE, TRUE).realm = realm
          /\ Frame(TRUE, TRUE).cross = TRUE /\ Frame(TRUE, TRUE).call = TRUE
      BY <1>0, FrameTyped DEF Frame
    <2>4. fr \in Frames /\ fr.realm = realm /\ fr.cross = TRUE /\ fr.call = TRUE
      BY <1>0, <2>1, <2>3, NoCrossingTyped
    <2> QED
      BY <2>2, <2>4, StackPushed
  <1>7. CASE Return
    BY <1>7, StackReturned
  <1>8. CASE OriginBanker
    BY <1>8, StackBanker
  <1>9. CASE UNCHANGED vars
    <2>0. UNCHANGED <<stage, frames, pkg, realm, crossed, bankers>>
      BY <1>9 DEF vars
    <2>1. \A i : RealmAt(i)' = RealmAt(i)
      BY <2>0 DEF RealmAt
    <2> QED
      BY <2>0, <2>1 DEF StackInv, Running
  <1> QED
    BY <1>1, <1>3, <1>4, <1>5, <1>6, <1>7, <1>8, <1>9 DEF Next

LEMMA StackHolds == Spec => [](FrameInv /\ StackInv)
  <1>1. Init => FrameInv /\ StackInv
    BY DEF Init, FrameInv, FrameTypes, StackInv, Running, Paths
  <1> QED
    BY <1>1, FrameStep, StackStep, PTL DEF Spec

(* Whatever crosses into, calls or loops in whatever, at any depth and in  *)
(* any message, GetRealm (realm.go) finds the realm last crossed into and  *)
(* the one, or the user, that crossed into it; it panics only if a         *)
(* function on the stack was called with cross and is none that crosses.   *)
THEOREM RealmsFollowCrossings == Spec => []RealmsAreTheCrossings
  <1>1. FrameInv /\ StackInv => RealmsAreTheCrossings
    <2> SUFFICES ASSUME FrameInv, StackInv, Running
                 PROVE  /\ CurrentRealm \in {Last(crossed), NoRealm}
                        /\ PreviousRealm \in {crossed[Len(crossed) - 1], NoRealm}
                        /\ AllCrossed => NoRealm \notin {CurrentRealm, PreviousRealm}
      BY DEF RealmsAreTheCrossings
    <2>1. \/ CurrentRealm = crossed[Len(crossed) - 0]
          \/ CurrentRealm = NoRealm /\ ~AllCrossed
      BY RealmFound DEF CurrentRealm
    <2>2. Len(crossed) - 0 = Len(crossed)
      BY DEF FrameInv, FrameTypes
    <2>3. \/ PreviousRealm = crossed[Len(crossed) - 1]
          \/ PreviousRealm = NoRealm /\ ~AllCrossed
      BY RealmFound DEF PreviousRealm
    <2>4. crossed[Len(crossed)] # NoRealm /\ crossed[Len(crossed) - 1] # NoRealm
      <3>1. /\ crossed \in Seq(Realms \cup {RunPath, User}) /\ frames \in Seq(Frames)
            /\ Len(crossed) = 2 + Cardinality(Crossings)
        BY DEF FrameInv, FrameTypes
      <3>2. Len(crossed) \in 1 .. Len(crossed) /\ Len(crossed) - 1 \in 1 .. Len(crossed)
        BY <3>1, CrossingsFinite
      <3>3. \A i \in 1 .. Len(crossed) : crossed[i] \in Realms \cup {RunPath, User}
        BY <3>1
      <3> QED
        BY <3>2, <3>3, PathAssumption
    <2> QED
      BY <2>1, <2>2, <2>3, <2>4 DEF Last
  <1> QED
    BY <1>1, StackHolds, PTL

(* Nobody but the package that the message named, and that got its coins,  *)
(* holds an origin-send banker (banker.gno, NewBanker), however many       *)
(* realms the message crosses.                                             *)
THEOREM BankersAreTargets == Spec => []OriginBankersAreTheTargets
  <1>1. StackInv => OriginBankersAreTheTargets
    BY DEF StackInv, OriginBankersAreTheTargets
  <1> QED
    BY <1>1, StackHolds, PTL

(* The stack, the chain and the owners of bankers are well typed.          *)
THEOREM FramesTyped == Spec => []TypeOK
  <1>1. FrameInv /\ StackInv => TypeOK
    <2> SUFFICES ASSUME FrameInv, StackInv PROVE TypeOK
      OBVIOUS
    <2>1. bankers \subseteq Realms \cup {RunPath, User}
      <3>1. CASE ~Running
        BY <3>1 DEF StackInv
      <3>2. CASE Running
        <4>1. crossed[2] \in Realms \cup {RunPath}
          <5>1. frames \in Seq(Frames) /\ Len(crossed) = 2 + Cardinality(Crossings)
            BY <3>2 DEF FrameInv, FrameTypes
          <5>2. Len(crossed) \in Nat /\ Len(crossed) >= 2
            BY <5>1, CrossingsFinite
          <5> QED
            BY <3>2, <5>2 DEF StackInv
        <4> QED
          BY <3>2, <4>1 DEF StackInv
      <3> QED
        BY <3>1, <3>2
    <2> QED
      BY <2>1 DEF FrameInv, FrameTypes, TypeOK
  <1> QED
    BY <1>1, StackHolds, PTL
=============================================================================
