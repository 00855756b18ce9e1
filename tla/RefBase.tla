------------------------------ MODULE RefBase ------------------------------
(***************************************************************************)
(* The intrusive reference counts of src/libutils/RefBase.cpp, one object  *)
(* and its weakref_impl, at the granularity of the atomic instructions on  *)
(* mStrong and mWeak.  Threads hold strong references (sp<>) and weak ones *)
(* (wp<>), copy, drop and hand them over, and promote weak ones, all       *)
(* concurrently.  The thread that ran `new' holds a raw pointer, of which  *)
(* it makes the first sp<> or the first wp<>.                              *)
(***************************************************************************)
EXTENDS Integers, FiniteSets

CONSTANTS
  Threads,
  Creator,         \* the thread that ran `new'
  InitialStrong,   \* INITIAL_STRONG_VALUE, more than twice any number of references
  MaxHeld,         \* bound: references of a kind a thread holds
  Beginnings       \* what creators make of their raw pointer: sets of "strong",
                   \* "weak", one of which each object is created with

VARIABLES
  weakLifetime,    \* it called extendObjectLifetime(OBJECT_LIFETIME_WEAK)
  firstRefs,       \* what its creator makes of the raw pointer
  mStrong, mWeak,  \* the two counts of weakref_impl
  object,          \* the object: "live" or "deleted"
  impl,            \* its weakref_impl: "live" or "freed"
  strong, weak,    \* the sp<> and wp<> each thread holds
  raw,             \* the creator, while it may still use its raw pointer
  pc,              \* where each thread is inside an operation
  cur,             \* the count the thread last read
  fault            \* history: freed memory was used, or freed twice

kind == <<weakLifetime, firstRefs>>
vars == <<kind, mStrong, mWeak, object, impl, strong, weak, raw, pc, cur, fault>>
handles == <<strong, weak, raw>>
memory == <<object, impl>>

PCs == {"idle", "inc1", "inc2", "inc3", "dec1", "dec2", "decWeak1", "decWeak2",
        "try1", "try2", "try3", "first", "revive", "last", "fix1", "fix2"}

Init ==
  /\ weakLifetime \in BOOLEAN /\ firstRefs \in Beginnings
  /\ mStrong = InitialStrong /\ mWeak = 0
  /\ object = "live" /\ impl = "live"
  /\ strong = [t \in Threads |-> 0] /\ weak = [t \in Threads |-> 0]
  /\ raw = {Creator}
  /\ pc = [t \in Threads |-> "idle"] /\ cur = [t \in Threads |-> 0]
  /\ fault = FALSE

Goto(t, label) == pc' = [pc EXCEPT ![t] = label]
Read(t, n) == cur' = [cur EXCEPT ![t] = n]
Gain(f, t) == [f EXCEPT ![t] = @ + 1]
Lose(f, t) == [f EXCEPT ![t] = @ - 1]

(* What a step uses must not have been freed.                              *)
Use(used) ==
  fault' = (fault \/ ("impl" \in used /\ impl = "freed")
                  \/ ("object" \in used /\ object = "deleted"))
----------------------------------------------------------------------------
(* What a thread may begin *)

(* sp<T>(p), from a strong reference or from the creator's raw pointer.    *)
CopyStrong(t) ==
  /\ pc[t] = "idle" /\ strong[t] < MaxHeld
  /\ strong[t] > 0 \/ (t \in raw /\ "strong" \in firstRefs)
  /\ raw' = raw \ {t}
  /\ Goto(t, "inc1")
  /\ UNCHANGED <<kind, mStrong, mWeak, memory, strong, weak, cur, fault>>

(* createWeak(): wp<T> from any reference.                                 *)
CreateWeak(t) ==
  /\ pc[t] = "idle" /\ weak[t] < MaxHeld
  /\ strong[t] > 0 \/ weak[t] > 0 \/ (t \in raw /\ "weak" \in firstRefs)
  /\ raw' = IF "strong" \in firstRefs THEN raw ELSE raw \ {t}
  /\ mWeak' = mWeak + 1 /\ weak' = Gain(weak, t)
  /\ Use({"impl"})
  /\ UNCHANGED <<kind, mStrong, memory, strong, pc, cur>>

(* A reference is moved to another thread; no count changes.               *)
HandOver(t, u) ==
  /\ pc[t] = "idle" /\ pc[u] = "idle" /\ t # u
  /\ \/ /\ strong[t] > 0 /\ strong[u] < MaxHeld
        /\ strong' = Gain(Lose(strong, t), u) /\ UNCHANGED weak
     \/ /\ weak[t] > 0 /\ weak[u] < MaxHeld
        /\ weak' = Gain(Lose(weak, t), u) /\ UNCHANGED strong
  /\ UNCHANGED <<kind, mStrong, mWeak, memory, raw, pc, cur, fault>>

DropStrong(t) ==
  /\ pc[t] = "idle" /\ strong[t] > 0
  /\ strong' = Lose(strong, t)
  /\ Goto(t, "dec1")
  /\ UNCHANGED <<kind, mStrong, mWeak, memory, weak, raw, cur, fault>>

DropWeak(t) ==
  /\ pc[t] = "idle" /\ weak[t] > 0
  /\ weak' = Lose(weak, t)
  /\ Goto(t, "decWeak1")
  /\ UNCHANGED <<kind, mStrong, mWeak, memory, strong, raw, cur, fault>>

Promote(t) ==
  /\ pc[t] = "idle" /\ weak[t] > 0 /\ strong[t] < MaxHeld
  /\ Goto(t, "try1")
  /\ UNCHANGED <<kind, mStrong, mWeak, memory, handles, cur, fault>>
----------------------------------------------------------------------------
(* incStrong(): incWeak(), fetch_and_add, and for the first reference the  *)
(* subtraction of INITIAL_STRONG_VALUE and onFirstRef().                   *)
IncStrong1(t) ==
  /\ pc[t] = "inc1"
  /\ mWeak' = mWeak + 1 /\ Use({"impl", "object"})
  /\ Goto(t, "inc2")
  /\ UNCHANGED <<kind, mStrong, memory, handles, cur>>

IncStrong2(t) ==
  /\ pc[t] = "inc2"
  /\ mStrong' = mStrong + 1 /\ Use({"impl"})
  /\ IF mStrong = InitialStrong
       THEN Goto(t, "inc3") /\ UNCHANGED strong
       ELSE Goto(t, "idle") /\ strong' = Gain(strong, t)
  /\ UNCHANGED <<kind, mWeak, memory, weak, raw, cur>>

IncStrong3(t) ==
  /\ pc[t] = "inc3"
  /\ mStrong' = mStrong - InitialStrong /\ Use({"impl", "object"})
  /\ Goto(t, "idle") /\ strong' = Gain(strong, t)
  /\ UNCHANGED <<kind, mWeak, memory, weak, raw, cur>>

(* decStrong(): the thread that drops the last strong reference deletes an *)
(* object of ordinary lifetime; everyone then gives back the weak count.   *)
Last(c) == c = 1

DecStrong1(t) ==
  /\ pc[t] = "dec1"
  /\ mStrong' = mStrong - 1 /\ Use({"impl"})
  /\ Goto(t, IF Last(mStrong) THEN "dec2" ELSE "decWeak1")
  /\ UNCHANGED <<kind, mWeak, memory, handles, cur>>

(* ~RefBase(): frees the weakref_impl if there never was a strong          *)
(* reference, or if it does not outlive an object of extended lifetime.    *)
FreesImpl == mStrong = InitialStrong \/ (weakLifetime /\ mWeak = 0)

DeleteObject ==
  /\ object' = "deleted"
  /\ impl' = IF FreesImpl THEN "freed" ELSE impl
  /\ fault' = (fault \/ object = "deleted" \/ impl = "freed")

DecStrong2(t) ==
  /\ pc[t] = "dec2"
  /\ IF weakLifetime THEN Use({"impl", "object"}) /\ UNCHANGED memory ELSE DeleteObject
  /\ Goto(t, "decWeak1")
  /\ UNCHANGED <<kind, mStrong, mWeak, handles, cur>>

DecWeak1(t) ==
  /\ pc[t] = "decWeak1"
  /\ mWeak' = mWeak - 1 /\ Use({"impl"})
  /\ Goto(t, IF Last(mWeak) THEN "decWeak2" ELSE "idle")
  /\ UNCHANGED <<kind, mStrong, memory, handles, cur>>

(* The last reference of any kind: an object of ordinary lifetime that was *)
(* never strongly referenced is deleted now, otherwise only the impl goes; *)
(* an object of extended lifetime is deleted now.                          *)
FreeImpl ==
  /\ impl' = "freed" /\ fault' = (fault \/ impl = "freed")
  /\ UNCHANGED object

DecWeak2(t) ==
  /\ pc[t] = "decWeak2"
  /\ IF weakLifetime \/ mStrong = InitialStrong THEN DeleteObject ELSE FreeImpl
  /\ Goto(t, "idle")
  /\ UNCHANGED <<kind, mStrong, mWeak, handles, cur>>
----------------------------------------------------------------------------
(* attemptIncStrong() *)

(* mutant of Try1: the weak count given back on failure was never taken    *)
TryWithoutWeak(t) ==
  /\ pc[t] = "try1"
  /\ Goto(t, "try2")
  /\ UNCHANGED <<kind, mStrong, mWeak, memory, handles, cur, fault>>

Try1(t) ==
  /\ pc[t] = "try1"
  /\ mWeak' = mWeak + 1 /\ Use({"impl"})
  /\ Goto(t, "try2")
  /\ UNCHANGED <<kind, mStrong, memory, handles, cur>>

(* The count is (re)read, and the case it calls for is chosen.             *)
Easy(c) == c > 0 /\ c # InitialStrong
Hopeless(c) == ~weakLifetime /\ c <= 0

Choice(c) ==
  CASE Easy(c) -> "try3"
    [] ~Easy(c) /\ Hopeless(c) -> "decWeak1"
    [] ~Easy(c) /\ ~Hopeless(c) -> IF weakLifetime THEN "revive" ELSE "first"

Try2(t) ==
  /\ pc[t] = "try2"
  /\ Read(t, mStrong) /\ Use({"impl"})
  /\ Goto(t, Choice(mStrong))
  /\ UNCHANGED <<kind, mStrong, mWeak, memory, handles>>

(* compare_and_swap(curCount, curCount + 1)                                *)
Try3(t) ==
  /\ pc[t] = "try3" /\ Use({"impl"})
  /\ IF mStrong = cur[t]
       THEN mStrong' = mStrong + 1 /\ Goto(t, "fix1")
       ELSE UNCHANGED mStrong /\ Goto(t, "try2")
  /\ UNCHANGED <<kind, mWeak, memory, handles, cur>>

(* Never strongly referenced: the same swap, but once it has failed any    *)
(* positive count is tried, and onLastStrongRef() is called if the         *)
(* reference turned out not to be the first.                               *)
First(t) ==
  /\ pc[t] = "first" /\ Use({"impl"})
  /\ \/ /\ mStrong = cur[t]
        /\ mStrong' = mStrong + 1
        /\ Goto(t, IF cur[t] < InitialStrong THEN "last" ELSE "fix1")
        /\ UNCHANGED cur
     \/ /\ mStrong # cur[t]
        /\ Read(t, mStrong)
        /\ Goto(t, IF mStrong <= 0 THEN "decWeak1" ELSE "first")
        /\ UNCHANGED mStrong
  /\ UNCHANGED <<kind, mWeak, memory, handles>>

(* Extended lifetime: onIncStrongAttempted() agrees, fetch_and_add.        *)
Revive(t) ==
  /\ pc[t] = "revive" /\ Use({"impl", "object"})
  /\ mStrong' = mStrong + 1 /\ Read(t, mStrong)
  /\ Goto(t, IF mStrong > 0 /\ mStrong < InitialStrong THEN "last" ELSE "fix1")
  /\ UNCHANGED <<kind, mWeak, memory, handles>>

LastStrongRef(t) ==
  /\ pc[t] = "last" /\ Use({"object"})
  /\ Goto(t, "fix1")
  /\ UNCHANGED <<kind, mStrong, mWeak, memory, handles, cur>>

(* The fix-up: whoever sees the initial bias still there takes it away.    *)
NeverBiased(c) == FALSE                 \* mutant of Biased: no fix-up
Biased(c) == c >= InitialStrong

Fix1(t) ==
  /\ pc[t] = "fix1" /\ Use({"impl"})
  /\ Read(t, mStrong)
  /\ IF Biased(mStrong)
       THEN Goto(t, "fix2") /\ UNCHANGED strong
       ELSE Goto(t, "idle") /\ strong' = Gain(strong, t)
  /\ UNCHANGED <<kind, mStrong, mWeak, memory, weak, raw>>

Fix2(t) ==
  /\ pc[t] = "fix2" /\ Use({"impl"})
  /\ IF mStrong = cur[t]
       THEN /\ mStrong' = mStrong - InitialStrong
            /\ Goto(t, "idle") /\ strong' = Gain(strong, t)
       ELSE UNCHANGED <<mStrong, strong>> /\ Goto(t, "fix1")
  /\ UNCHANGED <<kind, mWeak, memory, weak, raw, cur>>
----------------------------------------------------------------------------
Step(t) ==
  \/ IncStrong1(t) \/ IncStrong2(t) \/ IncStrong3(t)
  \/ DecStrong1(t) \/ DecStrong2(t) \/ DecWeak1(t) \/ DecWeak2(t)
  \/ Try1(t) \/ Try2(t) \/ Try3(t) \/ First(t) \/ Revive(t) \/ LastStrongRef(t)
  \/ Fix1(t) \/ Fix2(t)

Begin(t) ==
  \/ CopyStrong(t) \/ CreateWeak(t) \/ DropStrong(t) \/ DropWeak(t) \/ Promote(t)
  \/ \E u \in Threads : HandOver(t, u)

Next == \E t \in Threads : Step(t) \/ Begin(t)

Spec == Init /\ [][Next]_vars
----------------------------------------------------------------------------
(* Properties *)

\* the references that threads hold, or count, one by one
Refs(f) == UNION {{t} \X (1 .. f[t]) : t \in Threads}
Held(f) == Cardinality(Refs(f))
Quiet == \A t \in Threads : pc[t] = "idle"
Started == Creator \notin raw

(* Every variable stays in its domain.                                     *)
TypeOK ==
  /\ weakLifetime \in BOOLEAN /\ firstRefs \in Beginnings
  /\ mStrong \in Int /\ mWeak \in Nat
  /\ object \in {"live", "deleted"} /\ impl \in {"live", "freed"}
  /\ strong \in [Threads -> 0 .. MaxHeld + 1] /\ weak \in [Threads -> 0 .. MaxHeld]
  /\ raw \subseteq {Creator}
  /\ pc \in [Threads -> PCs] /\ cur \in [Threads -> Int] /\ fault \in BOOLEAN

(* No step uses the object or its counts after they were freed, and        *)
(* neither is freed twice.                                                 *)
NoFault == ~fault

(* A strong reference keeps the object, a weak one the counts.             *)
HeldIsAlive ==
  \A t \in Threads :
    /\ strong[t] > 0 => object = "live"
    /\ weak[t] > 0 => impl = "live"

(* Between operations the counts are exactly the references held.          *)
CountsAgree ==
  Quiet /\ Started /\ impl = "live" =>
    /\ mStrong \in {Held(strong), InitialStrong}
    /\ mStrong = InitialStrong => Held(strong) = 0
    /\ mWeak = Held(strong) + Held(weak)

(* Nothing outlives its references: an object of ordinary lifetime goes    *)
(* with its last strong one, and with the last of all nothing is left.     *)
NoLeak ==
  Quiet /\ Started /\ Held(strong) = 0 =>
    /\ ~weakLifetime /\ mStrong # InitialStrong => object = "deleted"
    /\ Held(weak) = 0 => object = "deleted" /\ impl = "freed"

(* The counts are right and so is what they keep, and nothing is left.     *)
ReferencesAreRight == NoFault /\ HeldIsAlive /\ CountsAgree /\ NoLeak

(* "attemptIncStrong called on %p after underflow": the strong count is    *)
(* never read negative while the object lives.                             *)
NoUnderflow == mStrong >= 0
----------------------------------------------------------------------------
(* The inductive invariant behind ReferencesAreRight *)

(* What the constants stand for: the bias exceeds any number of references *)
(* and an object is first referred to by either a strong or a weak one.    *)
Bounded ==
  /\ IsFiniteSet(Threads) /\ Creator \in Threads /\ MaxHeld \in Nat
  /\ InitialStrong \in Nat /\ MaxHeld * Cardinality(Threads) < InitialStrong
OneFirst == Beginnings \subseteq {{"strong"}, {"weak"}}

One(b) == IF b THEN 1 ELSE 0
TakenStrong == {"inc3", "dec1", "last", "fix1", "fix2"}
TakenWeak == TakenStrong \cup {"inc2", "dec2", "decWeak1", "try2", "try3", "first", "revive"}
CountedStrong == [t \in Threads |-> strong[t] + One(pc[t] \in TakenStrong)]
CountedWeak == [t \in Threads |-> strong[t] + weak[t] + One(pc[t] \in TakenWeak)]

Domains ==
  /\ weakLifetime \in BOOLEAN /\ firstRefs \in {{"strong"}, {"weak"}}
  /\ mStrong \in Int /\ mWeak \in Int
  /\ object \in {"live", "deleted"} /\ impl \in {"live", "freed"}
  /\ strong \in [Threads -> 0 .. MaxHeld] /\ weak \in [Threads -> 0 .. MaxHeld]
  /\ raw \subseteq {Creator}
  /\ pc \in [Threads -> PCs] /\ cur \in [Threads -> Int] /\ fault \in BOOLEAN
  /\ \A t \in Threads :
       pc[t] \notin {"idle", "dec2", "decWeak1", "decWeak2"} => strong[t] < MaxHeld

(* Inside operations too, mWeak is what threads hold or have counted, and  *)
(* so is mStrong, but for the bias.                                        *)
CountsAreTaken ==
  /\ mStrong \in {Held(CountedStrong), Held(CountedStrong) + InitialStrong}
  /\ mWeak = Held(CountedWeak)

(* The bias is gone once there is a strong reference.                      *)
Unbiased ==
  \A t \in Threads : strong[t] > 0 \/ pc[t] \in {"dec1", "dec2"} => mStrong < InitialStrong

(* What a thread that promotes a weak reference knows.                     *)
Promoting ==
  \A t \in Threads :
    /\ pc[t] \in {"try1", "try2", "try3", "first", "revive"} => weak[t] > 0
    /\ pc[t] \in {"try3", "first"} => cur[t] > 0
    /\ pc[t] = "first" => ~weakLifetime
    /\ pc[t] = "revive" => weakLifetime
    /\ pc[t] = "fix2" => cur[t] >= InitialStrong

Nothing(t) == pc[t] = "idle" /\ strong[t] = 0 /\ weak[t] = 0
Alone(t) == raw = {} /\ \A u \in Threads \ {t} : Nothing(u)

(* Until the first reference is made, its maker is alone with the object.  *)
FirstIsAlone ==
  /\ raw # {} => mStrong = InitialStrong /\ \A t \in Threads : Nothing(t)
  /\ \A t \in Threads :
       /\ pc[t] = "inc3" => strong[t] = 0
       /\ pc[t] \in {"inc1", "inc2", "inc3"} /\ strong[t] = 0 =>
            Alone(t) /\ weak[t] = 0 /\ mStrong = InitialStrong + One(pc[t] = "inc3")

(* The last strong reference of an ordinary object is dropped once.        *)
LastStrong ==
  \A t \in Threads : pc[t] = "dec2" /\ ~weakLifetime =>
    mStrong = 0 /\ \A u \in Threads \ {t} : pc[u] # "dec2"

(* The last reference of all leaves nobody who could use the counts.       *)
LastOfAll ==
  /\ \A t \in Threads : pc[t] = "decWeak2" => Alone(t) /\ strong[t] = 0 /\ weak[t] = 0
  /\ impl = "freed" => raw = {} /\ \A t \in Threads : Nothing(t)
  /\ impl = "live" /\ mWeak = 0 =>
       raw # {} \/ \E t \in Threads : pc[t] \in {"inc1", "decWeak2"}

(* The object is there exactly as long as somebody keeps it.               *)
ObjectIsKept ==
  object = "live" <=>
    impl = "live" /\ (weakLifetime \/ mStrong > 0 \/ \E t \in Threads : pc[t] = "dec2")

IInv ==
  /\ Domains /\ CountsAreTaken /\ Unbiased /\ Promoting /\ FirstIsAlone
  /\ LastStrong /\ LastOfAll /\ ObjectIsKept /\ NoFault
=============================================================================
