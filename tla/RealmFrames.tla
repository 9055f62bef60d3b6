----------------------------- MODULE RealmFrames -----------------------------
(***************************************************************************)
(* How native functions of the standard library find out which realm runs  *)
(* and who called it: GetRealm and isOriginCall walk the call frames of    *)
(* the Gno machine, and NewBanker decides by them.                         *)
(*                                                                         *)
(* The machine is not part of the repository: its frames are modelled as   *)
(* far as realm.go and native.go read them.  Beside them goes what they    *)
(* stand for, the chain of realms that crossed into one another.           *)
(***************************************************************************)
EXTENDS Naturals, Sequences, SequencesExt

CONSTANTS
    Realms,     \* paths of code realms
    Libs,       \* paths of packages without a realm
    RunPath,    \* the ephemeral path of a MsgRun
    User,       \* who signed the message (OriginCaller), whose path is ""
    NoPath,     \* the package path "" a MsgCall starts from
    NoRealm,    \* GetRealm panics
    MaxFrames   \* bound of the model: depth of the call stack

ASSUME PathAssumption ==
    /\ Realms \cap Libs = {}
    /\ RunPath \notin Realms \cup Libs
    /\ {User, NoPath} \cap (Realms \cup Libs \cup {RunPath}) = {}
    /\ NoRealm \notin Realms \cup Libs \cup {RunPath, NoPath, User}
ASSUME DepthAssumption == MaxFrames \in Nat

Paths == Realms \cup Libs \cup {RunPath, NoPath}

(* gno.Frame: is it a call (loops and switches push frames too), was it    *)
(* written with cross, is the function one that crosses (DidCrossing), and *)
(* the package and realm that were running.                                *)
Frames == [call : BOOLEAN, cross : BOOLEAN, did : BOOLEAN, pkg : Paths, realm : Paths]

VARIABLES
    stage,      \* Machine.Stage: "add" or "run", or "none" between messages
    frames,     \* Machine.Frames
    pkg, realm, \* the package and the realm that run
    crossed,    \* the chain of callers: the user, then each realm entered
    bankers     \* the owners of the origin-send bankers made in this message

vars == <<stage, frames, pkg, realm, crossed, bankers>>

TypeOK ==
    /\ stage \in {"none", "add", "run"}
    /\ frames \in Seq(Frames)
    /\ pkg \in Paths /\ realm \in Paths
    /\ crossed \in Seq(Realms \cup {RunPath, User})
    /\ bankers \subseteq Realms \cup {RunPath, User}

Init ==
    /\ stage = "none" /\ frames = <<>>
    /\ pkg = NoPath /\ realm = NoPath
    /\ crossed = <<>> /\ bankers = {}

Frame(isCall, withCross) ==
    [call |-> isCall, cross |-> withCross, did |-> withCross, pkg |-> pkg, realm |-> realm]

-----------------------------------------------------------------------------
(* A message starts: MsgCall crosses into its realm, MsgRun and            *)
(* MsgAddPackage call main and init of their own package.                  *)
Enter(s, first, path) ==
    /\ stage = "none"
    /\ stage' = s
    /\ frames' = <<first>>
    /\ pkg' = path /\ realm' = path
    /\ crossed' = <<User, path>>
    /\ UNCHANGED bankers

MsgCall(r) == Enter("run", Frame(TRUE, TRUE), r)
Own(path)  == [call |-> TRUE, cross |-> FALSE, did |-> FALSE, pkg |-> path, realm |-> path]
MsgRun     == Enter("run", Own(RunPath), RunPath)
MsgAddPackage(r) == Enter("add", Own(r), r)

Running == stage # "none"

Push(fr) ==
    /\ Running /\ Len(frames) < MaxFrames
    /\ frames' = Append(frames, fr)
    /\ UNCHANGED <<stage, bankers>>

(* A plain call, into another package or not, stays in the realm. *)
Call(p) ==
    /\ Push(Frame(TRUE, FALSE))
    /\ pkg' = p /\ UNCHANGED <<realm, crossed>>

(* A method runs in the realm that stores its receiver. *)
CallMethod(p, r) ==
    /\ Push(Frame(TRUE, FALSE))
    /\ pkg' = p /\ realm' = r /\ UNCHANGED crossed

CrossInto(fr, r) ==
    /\ Push(fr)
    /\ pkg' = r /\ realm' = r /\ crossed' = Append(crossed, r)
Cross(r) == CrossInto(Frame(TRUE, TRUE), r)

(* A function called with cross that is none that crosses. *)
NoCrossing == [Frame(TRUE, TRUE) EXCEPT !.did = FALSE]
CrossUndone(r) == CrossInto(NoCrossing, r)

(* A loop or a switch. *)
Block == Push(Frame(FALSE, FALSE)) /\ UNCHANGED <<pkg, realm, crossed>>

(* The innermost frame is left; with the first one the message ends. *)
Return ==
    /\ Running
    /\ LET top == Last(frames)
       IN  IF Len(frames) = 1
           THEN /\ stage' = "none" /\ frames' = <<>>
                /\ pkg' = NoPath /\ realm' = NoPath
                /\ crossed' = <<>> /\ bankers' = {}
           ELSE /\ frames' = Front(frames)
                /\ pkg' = top.pkg /\ realm' = top.realm
                /\ crossed' = IF top.cross THEN Front(crossed) ELSE crossed
                /\ UNCHANGED <<stage, bankers>>

-----------------------------------------------------------------------------
(* GetRealm.  The walk goes from the innermost frame outwards.             *)

(* Faulty variant: the last frame is not advanced past a crossing.         *)
VisitStuck(s, fr, height) ==
    IF s.found \/ s.panics \/ ~fr.call THEN s
    ELSE IF ~fr.cross THEN [s EXCEPT !.lfr = fr]
    ELSE IF ~fr.did THEN [s EXCEPT !.panics = TRUE]
    ELSE IF s.crosses + 1 > height THEN [s EXCEPT !.crosses = @ + 1, !.found = TRUE]
    ELSE [s EXCEPT !.crosses = @ + 1]
(* Faulty variant: the last frame is advanced before it is used.           *)
VisitEarly(s, fr, height) ==
    IF s.found \/ s.panics \/ ~fr.call THEN s
    ELSE IF ~fr.cross THEN [s EXCEPT !.lfr = fr]
    ELSE IF ~fr.did THEN [s EXCEPT !.panics = TRUE]
    ELSE IF s.crosses + 1 > height
         THEN [s EXCEPT !.crosses = @ + 1, !.found = TRUE, !.lfr = fr]
    ELSE [s EXCEPT !.crosses = @ + 1, !.lfr = fr]
(* One iteration: lfr is the call frame visited before this one. *)
Visit(s, fr, height) ==
    IF s.found \/ s.panics \/ ~fr.call THEN s
    ELSE IF ~fr.cross THEN [s EXCEPT !.lfr = fr]
    ELSE IF ~fr.did THEN [s EXCEPT !.panics = TRUE]     \* "did not call crossing"
    ELSE IF s.crosses + 1 > height THEN [s EXCEPT !.crosses = @ + 1, !.found = TRUE]
    ELSE [s EXCEPT !.crosses = @ + 1, !.lfr = fr]

(* The state of the loop after it has visited the i innermost frames.      *)
Walk(fs, height) ==
    LET after[i \in 0 .. Len(fs)] ==
          IF i = 0 THEN [lfr |-> Last(fs), crosses |-> 0, found |-> FALSE, panics |-> FALSE]
          ELSE Visit(after[i - 1], fs[Len(fs) - i + 1], height)
    IN  after[Len(fs)]

GetRealm(fs, height) ==
    LET s     == Walk(fs, height)
        first == Head(fs).pkg
    IN  IF s.panics THEN NoRealm
        ELSE CASE s.found -> s.lfr.realm
               [] ~s.found /\ height = s.crosses ->
                    IF stage = "run" /\ first = NoPath THEN User ELSE first
               [] ~s.found /\ height = s.crosses + 1 -> User
               [] OTHER -> NoRealm      \* "frame not found"

(* The frames a native function finds: CurrentRealm and PreviousRealm call *)
(* it from Gno code of chain/runtime; AssertOriginCall is one itself.      *)
InNative == Append(frames, Frame(TRUE, FALSE))
InRuntime == Append(InNative, Frame(TRUE, FALSE))

CurrentRealm  == GetRealm(InRuntime, 0)
PreviousRealm == GetRealm(InRuntime, 1)

(* Faulty variant: off by one. *)
IsOriginCallDeeper(fs) == Head(fs).pkg = NoPath /\ Len(fs) <= 3
IsOriginCall(fs) == Head(fs).pkg = NoPath /\ Len(fs) <= 2

(* Faulty variant: anybody's code gets the banker. *)
OriginBankerAnybody == Running /\ bankers' = bankers \cup {CurrentRealm}
                       /\ UNCHANGED <<stage, frames, pkg, realm, crossed>>
(* NewBanker(BankerTypeOriginSend): only realm code may ask, and only the  *)
(* origin package gets it.                                                 *)
OriginBanker ==
    /\ Running
    /\ pkg \in Realms \cup {RunPath}
    /\ CurrentRealm # NoRealm
    /\ PreviousRealm = User
    /\ bankers' = bankers \cup {CurrentRealm}
    /\ UNCHANGED <<stage, frames, pkg, realm, crossed>>

Next ==
    \/ \E r \in Realms : MsgCall(r) \/ MsgAddPackage(r) \/ Cross(r) \/ CrossUndone(r)
    \/ MsgRun \/ Block \/ Return \/ OriginBanker
    \/ \E p \in Realms \cup Libs : Call(p)
    \/ \E p \in Realms \cup Libs, r \in Realms : CallMethod(p, r)

Spec == Init /\ [][Next]_vars

-----------------------------------------------------------------------------
(* The walk finds the realm last crossed into and the one, or the user,    *)
(* that crossed into it, however calls, methods and blocks are nested and  *)
(* whatever kind of message started them; it refuses to name any realm     *)
(* only when a function on the stack was called with cross and is none     *)
(* that crosses (realm.go, GetRealm).                                      *)
AllCrossed == \A i \in DOMAIN frames : frames[i].cross => frames[i].did
RealmsAreTheCrossings ==
    Running => /\ CurrentRealm \in {Last(crossed), NoRealm}
               /\ PreviousRealm \in {crossed[Len(crossed) - 1], NoRealm}
               /\ AllCrossed => NoRealm \notin {CurrentRealm, PreviousRealm}

(* AssertOriginCall passes only in a function that a MsgCall called, with  *)
(* nothing in between ("invoked via a direct MsgCall", native.gno).        *)
OriginCallIsDirect ==
    Running /\ IsOriginCall(InNative) =>
        /\ Len(frames) = 1 /\ Head(frames).cross
        /\ crossed = <<User, realm>>

(* Whoever holds an origin-send banker is the package the message named,   *)
(* the one the coins were sent to (banker.gno, NewBanker).                 *)
OriginBankersAreTheTargets == Running => bankers \subseteq {crossed[2]}
=============================================================================
