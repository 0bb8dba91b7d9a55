-------------------------- MODULE IdlePower_proofs --------------------------
(***************************************************************************)
(* What IdlePower.tla says of the CPU's ceiling holds for any number of    *)
(* pages and any range of ceilings.                                        *)
(*                                                                         *)
(* The inductive invariant is about the limiter alone: the journal, the    *)
(* agent's copy of it and what it found agree, and every file operation to *)
(* come finds what the look before it left, unless somebody has set the    *)
(* ceiling since.  Pages only decide when an update begins.                *)
(***************************************************************************)
EXTENDS IdlePower, TLAPS

USE IdlePowerAssumption

Above == (Min + 1)..Max

LimitTypes ==
    /\ ceiling \in Min..Max
    /\ journal \in Min..Max \cup {None} /\ saved \in Min..Max \cup {None}
    /\ found \in Min..Max \cup {None} /\ theirs \in Above \cup {None}
    /\ blocked \in BOOLEAN /\ lowered \in BOOLEAN
    /\ at \in {"ready", "look", "raise", "unlink", "measure", "lower"}
    /\ why \in {"woken", "overruled", "asleep", None}

(* What is held in memory is what is in the journal, which is what was     *)
(* found.                                                                  *)
Agree == found = journal /\ (saved = None \/ saved = journal)

(* The operations of an update that are yet to come.                       *)
Underway ==
    /\ at \in {"look", "raise"} => saved # None
    /\ at = "lower" => journal # None
    /\ at = "measure" => journal = None
    /\ at \in {"unlink", "measure"} => ~lowered

(* What others have set, where the agent has looked and is to act on it.   *)
Looked ==
    theirs # None =>
      /\ at = "raise" => ceiling = Min /\ theirs = journal
      /\ at = "lower" => theirs = journal
      /\ at = "unlink" => theirs = ceiling

LimitInv ==
    LimitTypes /\ Agree /\ Underway /\ Looked /\ Recoverable /\ OthersCeilingKept

PageTypes ==
    /\ up \in BOOLEAN /\ enabled \in BOOLEAN /\ calm \in BOOLEAN
    /\ up \/ at = "ready"
    /\ open \subseteq Pages /\ hung \subseteq Pages
    /\ report \in [Pages -> Mode]
    /\ mail \in [Pages -> Mode \cup {None}]
    /\ shown \in [Pages -> Mode]

Inv == LimitInv /\ PageTypes

(* restore's look, at the start of an update or after a first one.         *)
LEMMA LookKeeps ==
    ASSUME LimitInv, at \in {"ready", "look"}, Held # None, Look,
           why' \in {"woken", "overruled", "asleep", None}
    PROVE  LimitInv'
<1> USE DEF LimitInv, LimitTypes, Agree, Underway, Looked, Recoverable, OthersCeilingKept
<1>1. saved' = journal /\ journal # None
  BY DEF Look, Held
<1>2. UNCHANGED <<ceiling, journal, lowered, found, theirs, blocked>>
  BY DEF Look, fileVars
<1>3. CASE ceiling = Min
  <2>1. at' = "raise" /\ theirs # Min
    BY <1>3 DEF Look, AfterLook, Above
  <2> QED BY <1>1, <1>2, <1>3, <2>1
<1>4. CASE ceiling # Min
  <2>1. at' = "unlink"
    BY <1>4 DEF Look, AfterLook
  <2> QED BY <1>1, <1>2, <1>4, <2>1
<1> QED BY <1>3, <1>4

LEMMA MeasureKeeps ==
    ASSUME LimitInv, journal = None, saved = None, at \in {"ready", "measure"}, Measure
    PROVE  LimitInv'
<1> USE DEF LimitInv, LimitTypes, Agree, Underway, Looked, Recoverable, OthersCeilingKept
<1>1. UNCHANGED <<ceiling, lowered, theirs, blocked, why>> /\ ~lowered
  BY DEF Measure
<1>2. CASE ceiling = Min
  BY <1>1, <1>2 DEF Measure
<1>3. CASE ceiling # Min
  BY <1>1, <1>3 DEF Measure, JournalAfterLowering
<1> QED BY <1>2, <1>3

(* A step that changes nothing but the reason keeps it.                    *)
LEMMA StillKeeps ==
    ASSUME LimitInv, UNCHANGED <<fileVars, saved, at>>, blocked' \in BOOLEAN,
           why' \in {"woken", "overruled", "asleep", None}
    PROVE  LimitInv'
  BY DEF LimitInv, LimitTypes, Agree, Underway, Looked, Recoverable, OthersCeilingKept,
         fileVars

(* An update that begins keeps the limiter's invariant.                    *)
LEMMA UpdateKeeps ==
    ASSUME LimitInv, at = "ready", NEW asleep, Update(asleep)
    PROVE  LimitInv'
<1>1. CASE saved' \in {saved, Held} /\ UNCHANGED <<fileVars, blocked, at, why>>
  BY <1>1 DEF Held, LimitInv, LimitTypes, Agree, Underway, Looked, Recoverable,
              OthersCeilingKept, fileVars
<1>2. CASE Begins(asleep)
  <2>0. blocked \in BOOLEAN /\ why \in {"woken", "overruled", "asleep", None}
    BY DEF LimitInv, LimitTypes
  <2>1. CASE ~asleep /\ Held # None
    BY <1>2, <2>1, LookKeeps DEF Begins
  <2>2. CASE ~asleep /\ Held = None
    BY <1>2, <2>0, <2>2, StillKeeps DEF Begins
  <2>3. CASE asleep /\ blocked
    BY <1>2, <2>0, <2>3, StillKeeps DEF Begins, limitVars
  <2>4. CASE asleep /\ ~blocked /\ saved # None
    <3>1. CASE ceiling = Min
      BY <1>2, <2>0, <2>4, <3>1, StillKeeps DEF Begins, limitVars
    <3>2. CASE ceiling # Min
      BY <1>2, <2>4, <3>2 DEF Begins, LimitInv, LimitTypes, Agree, Underway, Looked,
                              Recoverable, OthersCeilingKept, fileVars
    <3> QED BY <3>1, <3>2
  <2>5. CASE asleep /\ ~blocked /\ saved = None /\ journal # None
    BY <1>2, <2>5, LookKeeps DEF Begins, Held
  <2>6. CASE asleep /\ ~blocked /\ saved = None /\ journal = None
    BY <1>2, <2>6, MeasureKeeps DEF Begins
  <2> QED BY <2>1, <2>2, <2>3, <2>4, <2>5, <2>6
<1> QED BY <1>1, <1>2 DEF Update

(* So does the rest of it.                                                 *)
LEMMA GoOnKeeps ==
    ASSUME LimitInv, GoOn
    PROVE  LimitInv'
<1> USE DEF LimitInv, LimitTypes, Agree, Underway, Looked, Recoverable, OthersCeilingKept
<1>1. CASE LookAgain
  BY <1>1, LookKeeps DEF LookAgain, Held
<1>2. CASE Raise
  BY <1>2 DEF Raise
<1>3. CASE Unlink
  <2>1. BlockedAfter \in BOOLEAN
    BY DEF BlockedAfter
  <2>2. at' \in {"measure", "ready"}
    BY <1>3 DEF Unlink
  <2> QED BY <1>3, <2>1, <2>2 DEF Unlink, SavedAfterUnlink
<1>4. CASE at = "measure" /\ Measure
  BY <1>4, MeasureKeeps
<1>5. CASE Lower
  BY <1>5 DEF Lower
<1> QED BY <1>1, <1>2, <1>3, <1>4, <1>5 DEF GoOn

-----------------------------------------------------------------------------
(* It holds at the start.                                                  *)
LEMMA InvInit == Init => Inv
<1> SUFFICES ASSUME Init PROVE Inv
  OBVIOUS
<1>1. LimitInv
  <2>1. theirs \in Above \cup {None} /\ (theirs # None => ceiling = theirs)
    BY DEF Init, Above
  <2> QED BY <2>1 DEF Init, LimitInv, LimitTypes, Agree, Underway, Looked,
                      Recoverable, OthersCeilingKept
<1>2. PageTypes
  BY DEF Init, PageTypes, Mode
<1> QED BY <1>1, <1>2 DEF Inv

(* A process that is gone leaves the card's and the kernel's side of it.   *)
LEMMA ProcessGoneKeeps ==
    ASSUME LimitInv, ProcessGone,
           \/ UNCHANGED fileVars
           \/ /\ ceiling' = Max /\ journal' = None
              /\ lowered' = FALSE /\ found' = None /\ theirs' = Max
    PROVE  LimitInv'
<1>1. Max \in Min..Max /\ Max \in Above
  BY DEF Above
<1>2. saved' = None /\ blocked' = FALSE /\ at' = "ready" /\ why' = None
  BY DEF ProcessGone
<1> USE DEF LimitInv, LimitTypes, Agree, Underway, Looked, Recoverable, OthersCeilingKept
<1>3. CASE UNCHANGED fileVars
  BY <1>2, <1>3 DEF fileVars
<1>4. CASE /\ ceiling' = Max /\ journal' = None
           /\ lowered' = FALSE /\ found' = None /\ theirs' = Max
  BY <1>1, <1>2, <1>4
<1> QED BY <1>3, <1>4

(* What others set is seen, unless it comes between a look and its write.  *)
LEMMA SetCeilingKeeps ==
    ASSUME LimitInv, NEW v \in Min..Max, SetCeiling(v)
    PROVE  LimitInv'
<1>1. /\ ceiling' = v /\ lowered' = FALSE
      /\ UNCHANGED <<journal, saved, blocked, at, why, found>>
  BY DEF SetCeiling
<1>2. theirs' = IF v = Min \/ at \in {"raise", "lower"} THEN None ELSE v
  BY DEF SetCeiling, TheirsAfter
<1>3. theirs' \in Above \cup {None}
  BY <1>2 DEF Above
<1> QED BY <1>1, <1>2, <1>3 DEF LimitInv, LimitTypes, Agree, Underway, Looked,
                                Recoverable, OthersCeilingKept

(* What every step does to the limiter: nothing, an update or the rest of  *)
(* one, or one of the things that happen to it.                            *)
LEMMA LimitStep ==
    ASSUME Inv, [Next]_vars
    PROVE  LimitInv'
<1>1. LimitInv /\ PageTypes
  BY DEF Inv
<1>2. ASSUME UNCHANGED limitVars PROVE LimitInv'
  BY <1>1, <1>2, StillKeeps DEF limitVars, LimitInv, LimitTypes
<1>3. CASE GoOn
  BY <1>1, <1>3, GoOnKeeps
<1>4. CASE Loop \/ TellPages
  BY <1>1, <1>4, UpdateKeeps DEF Loop, TellPages, Reconcile, Ready
<1>5. ASSUME NEW p \in Pages, Receive(p) \/ PageOpens(p) \/ PageGone(p)
      PROVE  LimitInv'
  BY <1>1, <1>5, UpdateKeeps DEF Receive, PageOpens, PageGone, Reconcile, Ready
<1>6. CASE Start
  BY <1>1, <1>6, UpdateKeeps DEF Start, PageTypes
<1>7. CASE Crash \/ Reboot
  BY <1>1, <1>7, ProcessGoneKeeps DEF Crash, Reboot
<1>8. CASE FileFails
  BY <1>1, <1>8 DEF FileFails, fileVars, LimitInv, LimitTypes, Agree, Underway,
                    Looked, Recoverable, OthersCeilingKept
<1>9. ASSUME NEW v \in Min..Max, SetCeiling(v) PROVE LimitInv'
  BY <1>1, <1>9, SetCeilingKeeps
<1>10. CASE Configure \/ Settle \/ UNCHANGED vars
  BY <1>2, <1>10 DEF Configure, Settle, vars
<1>11. ASSUME NEW p \in Pages, Report(p) \/ Expire(p) \/ ScreenChanges(p) \/ Hang(p)
       PROVE  LimitInv'
  BY <1>2, <1>11 DEF Report, Expire, ScreenChanges, Hang
<1> QED BY <1>3, <1>4, <1>5, <1>6, <1>7, <1>8, <1>9, <1>10, <1>11 DEF Next

(* The rest of the invariant is about types, which every step keeps.       *)
LEMMA PagesStep ==
    ASSUME Inv, [Next]_vars
    PROVE  PageTypes'
<1> USE DEF Inv, PageTypes, Mode
<1>1. CASE GoOn \/ FileFails
  BY <1>1 DEF GoOn, FileFails, reportVars, pageVars
<1>2. CASE Loop
  BY <1>2 DEF Loop, Ready, reportVars, pageVars
<1>3. ASSUME NEW p \in Pages, PageOpens(p) PROVE PageTypes'
  BY <1>3 DEF PageOpens, Ready
<1>4. ASSUME NEW p \in Pages, Receive(p) PROVE PageTypes'
  BY <1>4 DEF Receive, Ready
<1>5. ASSUME NEW p \in Pages, PageGone(p) PROVE PageTypes'
  BY <1>5 DEF PageGone, Ready
<1>6. CASE TellPages
  BY <1>6 DEF TellPages, Ready, pageVars
<1>7. ASSUME NEW p \in Pages, ScreenChanges(p) PROVE PageTypes'
  BY <1>7 DEF ScreenChanges, limitVars, reportVars
<1>8. ASSUME NEW p \in Pages, Report(p) PROVE PageTypes'
  BY <1>8 DEF Report, limitVars, reportVars
<1>9. ASSUME NEW p \in Pages, Hang(p) \/ Expire(p) PROVE PageTypes'
  BY <1>9 DEF Hang, Expire, limitVars, reportVars, pageVars
<1>10. CASE Configure \/ Settle \/ UNCHANGED vars
  BY <1>10 DEF Configure, Settle, vars, limitVars, reportVars, pageVars
<1>11. ASSUME NEW v \in Min..Max, SetCeiling(v) PROVE PageTypes'
  BY <1>11 DEF SetCeiling, reportVars, pageVars
<1>12. CASE Crash \/ Reboot
  BY <1>12 DEF Crash, Reboot, ProcessGone
<1>13. CASE Start
  BY <1>13 DEF Start, reportVars, pageVars
<1> QED BY <1>1, <1>2, <1>3, <1>4, <1>5, <1>6, <1>7, <1>8, <1>9, <1>10,
           <1>11, <1>12, <1>13 DEF Next

(* The inductive invariant holds throughout.                               *)
THEOREM Invariance == Spec => []Inv
<1>1. Inv /\ [Next]_vars => Inv'
  BY LimitStep, PagesStep DEF Inv
<1> QED BY <1>1, InvInit, PTL DEF Spec

-----------------------------------------------------------------------------
(* Every variable keeps its type.                                          *)
THEOREM LimiterTypes == Spec => []TypeOK
<1>1. Inv => TypeOK
  <2>1. Above \subseteq Min..Max
    BY DEF Above
  <2> QED BY <2>1 DEF Inv, LimitInv, LimitTypes, PageTypes, TypeOK
<1> QED BY <1>1, Invariance, PTL

(* A lowered ceiling can be put back by whichever process comes next.      *)
THEOREM LimitIsRecoverable == Spec => []Recoverable
<1>1. Inv => Recoverable
  BY DEF Inv, LimitInv
<1> QED BY <1>1, Invariance, PTL

(* A ceiling that somebody else has set, and that no write was about to    *)
(* overtake, is in force or in the journal of one that is held down.       *)
THEOREM OthersKeepTheirCeiling == Spec => []OthersCeilingKept
<1>1. Inv => OthersCeilingKept
  BY DEF Inv, LimitInv
<1> QED BY <1>1, Invariance, PTL
-----------------------------------------------------------------------------
(* The limiter is a borrower: what each of its steps is to Loan.           *)

BorrowsOnly == [Borrowed!Agent]_<<ceiling, journal, lowered, Seen>>

(* restore looks.  If it sees another ceiling it looks away again.         *)
LEMMA LookBorrows ==
    ASSUME LimitInv, at \in {"ready", "look"}, Held # None, Look
    PROVE  BorrowsOnly
<1>1. UNCHANGED <<ceiling, journal, lowered>> /\ Seen = None
  BY DEF Look, fileVars, Seen
<1>2. CASE ceiling = Min
  <2>1. Seen' = ceiling
    BY <1>2 DEF Look, AfterLook, Seen
  <2> QED BY <1>1, <2>1 DEF BorrowsOnly, Borrowed!Agent, Borrowed!Look
<1>3. CASE ceiling # Min
  <2>1. Seen' = None
    BY <1>3 DEF Look, AfterLook, Seen
  <2> QED BY <1>1, <2>1 DEF BorrowsOnly, Borrowed!Agent, Borrowed!LookAway
<1> QED BY <1>2, <1>3

LEMMA MeasureBorrows ==
    ASSUME LimitInv, journal = None, at \in {"ready", "measure"}, Measure
    PROVE  BorrowsOnly
<1>1. UNCHANGED <<ceiling, lowered>> /\ ~lowered
  BY DEF Measure, LimitInv, Recoverable, Agree
<1>2. CASE ceiling = Min
  <2>1. journal' = journal /\ Seen = None /\ Seen' = None
    BY <1>2 DEF Measure, Seen
  <2> QED BY <1>1, <2>1 DEF BorrowsOnly
<1>3. CASE ceiling # Min
  <2>1. journal' = ceiling /\ Seen' = ceiling
    BY <1>3 DEF Measure, JournalAfterLowering, Seen
  <2> QED BY <1>1, <1>3, <2>1 DEF BorrowsOnly, Borrowed!Agent, Borrowed!Note
<1> QED BY <1>2, <1>3

(* What leaves the files alone can only end a look.                        *)
LEMMA LookAwayBorrows ==
    ASSUME UNCHANGED fileVars, Seen' \in {Seen, None}
    PROVE  BorrowsOnly
  BY DEF fileVars, BorrowsOnly, Borrowed!Agent, Borrowed!LookAway

LEMMA UpdateBorrows ==
    ASSUME LimitInv, at = "ready", NEW asleep, Update(asleep)
    PROVE  BorrowsOnly
<1>1. ASSUME UNCHANGED fileVars, at' \in {at, "look"} PROVE BorrowsOnly
  <2>1. Seen' = None
    BY <1>1 DEF Seen
  <2> QED BY <1>1, <2>1, LookAwayBorrows
<1>2. ASSUME Held # None, Look PROVE BorrowsOnly
  BY <1>2, LookBorrows
<1>3. ASSUME saved = None, journal = None, Measure PROVE BorrowsOnly
  BY <1>3, MeasureBorrows
<1>4. CASE saved' \in {saved, Held} /\ UNCHANGED <<fileVars, blocked, at, why>>
  BY <1>1, <1>4
<1>5. CASE Begins(asleep)
  <2>1. CASE ~asleep
    BY <1>1, <1>2, <1>5, <2>1 DEF Begins
  <2>2. CASE asleep /\ (blocked \/ saved # None)
    BY <1>1, <1>5, <2>2 DEF Begins, limitVars
  <2>3. CASE asleep /\ ~blocked /\ saved = None
    BY <1>2, <1>3, <1>5, <2>3 DEF Begins, Held
  <2> QED BY <2>1, <2>2, <2>3
<1> QED BY <1>4, <1>5 DEF Update

LEMMA GoOnBorrows ==
    ASSUME LimitInv, GoOn
    PROVE  BorrowsOnly
<1> USE DEF LimitInv, Underway, Agree
<1>1. CASE LookAgain
  BY <1>1, LookBorrows DEF LookAgain, Held
<1>2. CASE Raise
  <2>1. journal # None /\ Seen = Min /\ Seen' = None
    BY <1>2 DEF Raise, Seen
  <2>2. ceiling' = journal /\ lowered' = FALSE /\ journal' = journal
    BY <1>2 DEF Raise
  <2> QED BY <2>1, <2>2 DEF BorrowsOnly, Borrowed!Agent, Borrowed!GiveBack
<1>3. CASE Unlink
  <2>1. ~lowered /\ Seen = None /\ Seen' = None
    BY <1>3 DEF Unlink, Seen
  <2>2. journal' = None /\ UNCHANGED <<ceiling, lowered>>
    BY <1>3 DEF Unlink
  <2> QED BY <2>1, <2>2 DEF BorrowsOnly, Borrowed!Agent, Borrowed!Forget
<1>4. CASE at = "measure" /\ Measure
  BY <1>4, MeasureBorrows
<1>5. CASE Lower
  <2>1. journal # None /\ Seen = journal /\ Seen' = None
    BY <1>5 DEF Lower, Seen
  <2>2. ceiling' = Min /\ lowered' = TRUE /\ journal' = journal
    BY <1>5 DEF Lower
  <2> QED BY <2>1, <2>2 DEF BorrowsOnly, Borrowed!Agent, Borrowed!Lower
<1> QED BY <1>1, <1>2, <1>3, <1>4, <1>5 DEF GoOn

LEMMA BorrowStep ==
    ASSUME Inv, [Next]_vars, ~ByOthers
    PROVE  BorrowsOnly
<1> USE DEF Inv, ByOthers
<1>1. CASE GoOn
  BY <1>1, GoOnBorrows
<1>2. CASE \/ Loop \/ TellPages \/ Start
           \/ \E p \in Pages : Receive(p) \/ PageOpens(p) \/ PageGone(p)
  BY <1>2, UpdateBorrows DEF Loop, TellPages, Start, Receive, PageOpens, PageGone,
                             Reconcile, Ready, PageTypes
<1>3. CASE FileFails \/ Crash
  <2>1. UNCHANGED fileVars /\ at' = "ready"
    BY <1>3 DEF FileFails, Crash, ProcessGone
  <2> QED BY <2>1, LookAwayBorrows DEF Seen
<1>4. CASE \/ Configure \/ Settle \/ UNCHANGED vars
           \/ \E p \in Pages : Report(p) \/ Expire(p) \/ ScreenChanges(p) \/ Hang(p)
  <2>1. UNCHANGED limitVars
    BY <1>4 DEF Configure, Settle, vars, Report, Expire, ScreenChanges, Hang
  <2>2. UNCHANGED fileVars /\ Seen' = Seen
    BY <2>1 DEF limitVars, fileVars, Seen
  <2> QED BY <2>2, LookAwayBorrows
<1> QED BY <1>1, <1>2, <1>3, <1>4 DEF Next

LEMMA OthersStep ==
    ASSUME Inv, ByOthers
    PROVE  Borrowed!Set \/ Borrowed!Boot
<1>1. ASSUME NEW v \in Min..Max, SetCeiling(v) PROVE Borrowed!Set
  BY <1>1 DEF SetCeiling, Borrowed!Set, Seen
<1>2. CASE Reboot
  BY <1>2 DEF Reboot, ProcessGone, Borrowed!Boot, Seen
<1> QED BY <1>1, <1>2 DEF ByOthers

(* The agent implements Loan: it looks before each write, lowers only the  *)
(* ceiling it has noted, gives that back if it saw the minimum, and        *)
(* forgets only what it no longer holds down.                              *)
THEOREM LimitIsBorrowed == Spec => Borrows
<1>1. Init => Borrowed!Init
  BY DEF Init, Borrowed!Init, Seen
<1>2. Inv /\ [Next]_vars => [Borrowed!Next]_<<ceiling, journal, lowered, Seen>>
  <2> SUFFICES ASSUME Inv, [Next]_vars
               PROVE  [Borrowed!Next]_<<ceiling, journal, lowered, Seen>>
    OBVIOUS
  <2>1. CASE ByOthers
    BY <2>1, OthersStep DEF Borrowed!Next
  <2>2. CASE ~ByOthers
    BY <2>2, BorrowStep DEF BorrowsOnly, Borrowed!Next
  <2> QED BY <2>1, <2>2
<1>3. ASSUME Inv, [Next]_vars
      PROVE  [~ByOthers => [Borrowed!Agent]_<<ceiling, journal, lowered, Seen>>]_vars
  BY <1>3, BorrowStep DEF BorrowsOnly
<1> QED BY <1>1, <1>2, <1>3, Invariance, PTL
        DEF Spec, Borrows, Borrowed!Spec, Borrowed!loanVars
-----------------------------------------------------------------------------
(* What FullSpeed comes to rest in.  Some open page is not blanked, or no  *)
(* longer reports, and nothing that says otherwise is on its way.          *)
InUse ==
    \/ ~enabled \/ open = {}
    \/ \E p \in open : /\ p \in hung \/ shown[p] = "lit"
                       /\ report[p] # "blanked" /\ mail[p] # "blanked"

AtFullSpeed == calm /\ InUse /\ at = "ready" /\ ~lowered /\ journal = None

LEMMA InUseIsAwake == InUse => ~Asleep(open, report)
  BY DEF InUse, Asleep

(* An update that finds the panel awake and owes nothing does nothing.     *)
LEMMA IdleUpdate ==
    ASSUME LimitInv, calm, at = "ready", ~lowered, journal = None,
           NEW asleep, ~asleep, Update(asleep)
    PROVE  at' = "ready" /\ ~lowered' /\ journal' = None
<1>1. Held = None
  BY DEF LimitInv, Agree, Held
<1> QED BY <1>1 DEF Update, Begins, fileVars

LEMMA FullSpeedStep ==
    ASSUME Inv, AtFullSpeed, [Next]_vars
    PROVE  AtFullSpeed'
<1> USE DEF Inv, AtFullSpeed
<1>1. ~GoOn
  BY DEF GoOn, LookAgain, Raise, Unlink, Lower
<1>2. CASE Loop
  <2>1. InUse' /\ calm'
    BY <1>2 DEF Loop, InUse, reportVars, pageVars
  <2>2. ~Asleep(open', report')
    BY <1>2, InUseIsAwake DEF Loop, reportVars
  <2> QED BY <1>2, <2>1, <2>2, IdleUpdate DEF Loop, Reconcile
<1>3. ASSUME NEW p \in Pages, Receive(p) PROVE AtFullSpeed'
  <2>1. InUse' /\ calm'
    <3>1. open' = open /\ shown' = shown /\ hung' = hung /\ enabled' = enabled /\ calm'
      BY <1>3 DEF Receive
    <3>2. ASSUME NEW q \in open, report[q] # "blanked", mail[q] # "blanked"
          PROVE  report'[q] # "blanked" /\ mail'[q] # "blanked"
      BY <1>3, <3>2, NoModeAssumption DEF Receive, PageTypes, Mode
    <3> QED BY <3>1, <3>2 DEF InUse
  <2>2. ~Asleep(open', report')
    BY <1>3, <2>1 DEF InUse, Asleep, Receive
  <2> QED BY <1>3, <2>1, <2>2, IdleUpdate DEF Receive, Reconcile
<1>4. ASSUME NEW p \in Pages, Report(p) PROVE AtFullSpeed'
  BY <1>4 DEF Report, InUse, PageTypes, limitVars, fileVars, reportVars
<1>5. ASSUME NEW p \in Pages, Expire(p) PROVE AtFullSpeed'
  BY <1>5, NoModeAssumption DEF Expire, InUse, PageTypes, Mode, limitVars, fileVars, pageVars
<1>6. CASE Settle \/ UNCHANGED vars
  BY <1>6 DEF Settle, vars, InUse, limitVars, fileVars, reportVars, pageVars
<1> QED BY <1>1, <1>2, <1>3, <1>4, <1>5, <1>6 DEF Next

(* Full speed, once a panel in use is back at it, is for good: no report   *)
(* that was under way, and no update, lowers the ceiling any more.         *)
THEOREM FullSpeedLasts == Spec => [](AtFullSpeed => []AtFullSpeed)
<1>1. Inv /\ AtFullSpeed /\ [Next]_vars => AtFullSpeed'
  BY FullSpeedStep
<1> QED BY <1>1, Invariance, PTL DEF Spec
-----------------------------------------------------------------------------
(* What SavesPower comes to rest in: every open page has said that it is   *)
(* blanked, and the limiter holds the minimum or has been overruled.  A    *)
(* journal that an earlier process left has been dealt with.               *)
AllBlanked ==
    /\ enabled /\ open # {}
    /\ \A p \in open : /\ p \notin hung /\ shown[p] = "blanked"
                       /\ report[p] = "blanked" /\ mail[p] # "lit"

SavingPower ==
    /\ calm /\ AllBlanked /\ at = "ready"
    /\ \/ blocked
       \/ ceiling = Min /\ (saved # None \/ journal = None)

LEMMA BlankedIsAsleep == AllBlanked => Asleep(open, report)
  BY DEF AllBlanked, Asleep

LEMMA SavingUpdate ==
    ASSUME SavingPower, NEW asleep, asleep, Update(asleep)
    PROVE  UNCHANGED <<blocked, ceiling, saved, journal, at>>
<1>1. Begins(asleep)
  BY DEF Update, SavingPower
<1> QED BY <1>1 DEF SavingPower, Begins, Measure, limitVars, fileVars

LEMMA SavingStep ==
    ASSUME Inv, SavingPower, [Next]_vars
    PROVE  SavingPower'
<1> USE DEF Inv, SavingPower
<1>1. ~GoOn
  BY DEF GoOn, LookAgain, Raise, Unlink, Lower
<1>2. CASE Loop
  <2>1. AllBlanked' /\ calm'
    BY <1>2 DEF Loop, AllBlanked, reportVars, pageVars
  <2>2. Asleep(open', report')
    BY <1>2, BlankedIsAsleep DEF Loop, reportVars
  <2> QED BY <1>2, <2>1, <2>2, SavingUpdate DEF Loop, Reconcile
<1>3. ASSUME NEW p \in Pages, Receive(p) PROVE SavingPower'
  <2>1. UNCHANGED <<open, shown, hung, enabled, calm>>
    BY <1>3 DEF Receive
  <2>2. mail[p] = "blanked"
    BY <1>3 DEF Receive, AllBlanked, PageTypes, Mode
  <2>3. ASSUME NEW q \in open PROVE report'[q] = "blanked" /\ mail'[q] # "lit"
    BY <1>3, <2>2, NoModeAssumption DEF Receive, AllBlanked, PageTypes, Mode
  <2>4. AllBlanked'
    BY <2>1, <2>3 DEF AllBlanked
  <2>5. Asleep(open', report')
    BY <2>1, <2>3 DEF AllBlanked, Asleep
  <2>6. Update(Asleep(open', report'))
    BY <1>3 DEF Receive, Reconcile
  <2>7. UNCHANGED <<blocked, ceiling, saved, journal, at>>
    BY <2>5, <2>6, SavingUpdate
  <2> QED BY <2>1, <2>4, <2>7
<1>4. ASSUME NEW p \in Pages, Report(p) \/ Expire(p) PROVE SavingPower'
  <2>1. CASE Report(p)
    BY <2>1 DEF Report, AllBlanked, PageTypes, limitVars, fileVars, reportVars
  <2>2. CASE Expire(p)
    BY <2>2 DEF Expire, AllBlanked, PageTypes, limitVars, fileVars, pageVars
  <2> QED BY <1>4, <2>1, <2>2
<1>5. CASE Settle \/ UNCHANGED vars
  BY <1>5 DEF Settle, vars, AllBlanked, limitVars, fileVars, reportVars, pageVars
<1> QED BY <1>1, <1>2, <1>3, <1>4, <1>5 DEF Next

(* A sleeping panel that has come to save power goes on doing so: it does  *)
(* not wake its CPU to look, and fights nobody over the ceiling.           *)
THEOREM SavingLasts == Spec => [](SavingPower => []SavingPower)
<1>1. Inv /\ SavingPower /\ [Next]_vars => SavingPower'
  BY SavingStep
<1> QED BY <1>1, Invariance, PTL DEF Spec
=============================================================================
