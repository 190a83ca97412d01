--------------------------- MODULE AccountProofs ---------------------------
(***************************************************************************)
(* Proofs about one account under any number of overlapping requests, rows *)
(* of the user, dead letters, restarts and any plan. The invariant adds to *)
(* the properties on what grounds each worker is at its step: a deletion   *)
(* under way has a reason that still stands for the row it was begun for,  *)
(* a counted reservation still has its room because nobody else can be at  *)
(* the same count, and the letters a sweep has read, has at hand and has    *)
(* changed are different ones, which the sweep alone closes.               *)
(***************************************************************************)
EXTENDS Account, SequenceTheorems, FiniteSetTheorems, TLAPS

USE SweeperAssumption, AllowanceAssumption, BoundsAssumption, MixesAssumption

Job == [pc : Pcs, kind : Kinds, for : 0..MaxUsers, letter : Seen, note : Seen]

Erasing == {"deleting", "purging"}
Closing == {"deleting", "purging", "unlinking", "failing", "recording"}
Using   == {"reserving", "locked", "counted", "serving"}
InHand  == Closing \cup {"resolving", "counting"}

Rows == /\ user \in {0, born}
        /\ delivery => ~identity
        /\ RowsFollowTheIdentity

\* Who does what for whom.
Roles(w, j) ==
  /\ j.for <= born
  /\ j.kind = "sweep" <=> w = Sweeper /\ j.pc # "idle"
  /\ j.pc \in Closing => j.kind \in {"profile", "webhook", "sweep"}
  /\ j.pc = "unlinking" => j.kind = "profile"
  /\ j.pc \in Using => j.kind \in Resources
  /\ j.pc \in Erasing \cup Using => j.for # 0

\* Why a row may be erased.
Grounds(j) ==
  /\ j.kind = "profile" /\ j.pc \in Erasing /\ j.for = user => asked
  /\ j.kind = "webhook" => ~identity
  /\ j.kind = "webhook" /\ j.pc \in Erasing /\ user # 0 /\ j.for # user => late

\* The letter a sweep works on is open.
Opened(j) ==
  j.kind = "sweep" /\ j.pc \in InHand =>
    j.letter[1] \in DOMAIN letters /\ letters[j.letter[1]].open

\* The letters a round has before it are open; they, the one at hand and those
\* that its transaction has changed are different letters.
Apart(j) ==
  /\ j.pc = "idle" => pending = {}
  /\ \A b \in batch : b[1] \in DOMAIN letters /\ letters[b[1]].open
  /\ \A b, c \in batch : b[1] = c[1] => b = c
  /\ \A b \in batch, p \in pending : b[1] # p.letter
  /\ j.pc \in InHand => /\ \A b \in batch : b[1] # j.letter[1]
                        /\ \A p \in pending : p.letter # j.letter[1]

\* What was counted still holds.
Room(j) ==
  j.pc = "counted" /\ j.for = user =>
    used[j.kind] < Allowance[j.kind] + (IF j.kind = "tree" THEN built ELSE 0)

Holding(j)  == j.pc \in {"locked", "counted"}
Same(i, j)  == i.kind = j.kind /\ i.for = j.for
Fits(w, j)  == Roles(w, j) /\ Grounds(j) /\ Opened(j) /\ Room(j)

Fit    == \A w \in Workers : Fits(w, job[w])
Locks  == \A q, r \in Requests :
            q # r /\ Holding(job[q]) /\ Holding(job[r]) => ~Same(job[q], job[r])
Counts == WithinPlan /\ IsFiniteSet(Serving)

AccountInv == TypeOK /\ Rows /\ Fit /\ Locks /\ Counts /\ Apart(job[Sweeper])
-----------------------------------------------------------------------------
(* A few facts about the data.                                             *)

\* What a worker is given to do is a job.
LEMMA JobTyped ==
  ASSUME NEW pc \in Pcs, NEW k \in Kinds, NEW u \in 0..MaxUsers, NEW l \in Seen, NEW n \in Seen
  PROVE  /\ Doing(pc, k, u, l, n) \in Job
         /\ Doing(pc, k, u, l, n).pc = pc
         /\ Doing(pc, k, u, l, n).kind = k
         /\ Doing(pc, k, u, l, n).for = u
         /\ Doing(pc, k, u, l, n).letter = l
BY DEF Doing, Job

\* A worker without a letter has nothing copied from one.
LEMMA NoLetterTyped == NoLetter \in Seen
BY DEF NoLetter, Seen

\* A worker with nothing to do has a job all the same.
LEMMA IdleTyped == Idle \in Job /\ Idle.pc = "idle" /\ Idle.kind = "none" /\ Idle.for = 0
<1>1. /\ "idle" \in Pcs /\ "none" \in Kinds /\ 0 \in 0..MaxUsers
  BY DEF Pcs, Kinds
<1> QED BY ONLY <1>1, JobTyped, NoLetterTyped DEF Idle

\* The saturated count of attempts stays in its range.
LEMMA AttemptsTyped == \A n \in 0..MaxAttempts : OneMore(n) \in 0..MaxAttempts
BY DEF OneMore

Rewritten(s, t) == /\ t \in Seq(Letter) /\ DOMAIN t = DOMAIN s
                 /\ \A k \in DOMAIN s : t[k].open = s[k].open

\* Writing a letter's attempts leaves which letters are open alone.
LEMMA AttemptsWritten ==
  ASSUME NEW s \in Seq(Letter), NEW i \in Nat, NEW n \in 0..MaxAttempts
  PROVE  Rewritten(s, [s EXCEPT ![i].attempts = n])
<1> DEFINE t == [s EXCEPT ![i].attempts = n]
<1> SUFFICES Rewritten(s, t) OBVIOUS
<1>1. DOMAIN s = 1..Len(s) /\ Len(s) \in Nat
  BY LenProperties
<1>2. CASE i \in DOMAIN s
  <2>1. s[i] \in Letter
    BY <1>1, <1>2, ElementOfSeq
  <2> DEFINE e == [s[i] EXCEPT !.attempts = n]
  <2>2. e \in Letter /\ e.open = s[i].open
    BY <2>1 DEF Letter
  <2>3. t = [s EXCEPT ![i] = e]
    OBVIOUS
  <2> HIDE DEF e, t
  <2>4. /\ t \in Seq(Letter) /\ Len(t) = Len(s)
        /\ \A k \in 1..Len(s) : t[k] = IF k = i THEN e ELSE s[k]
    BY <1>1, <1>2, <2>2, <2>3, ExceptSeq
  <2>5. DOMAIN t = 1..Len(t)
    BY <2>4, LenProperties
  <2> QED BY <1>1, <2>2, <2>4, <2>5 DEF Rewritten
<1>3. CASE i \notin DOMAIN s
  <2>1. s \in [1..Len(s) -> Letter]
    BY LenProperties
  <2>2. t \in [1..Len(s) -> Letter] /\ \A k \in 1..Len(s) : t[k] = s[k]
    BY <1>1, <1>3, <2>1
  <2>3. t = s
    BY <2>1, <2>2
  <2> QED BY <2>3 DEF Rewritten
<1> QED BY <1>2, <1>3
-----------------------------------------------------------------------------
\* The initial states satisfy the invariant.
LEMMA InitInv == Init => AccountInv
<1> SUFFICES ASSUME Init PROVE AccountInv
    OBVIOUS
<1> USE DEF Init
<1>1. job \in [Workers -> Job] /\ \A w \in Workers : job[w] = Idle
  BY IdleTyped
<1>2. TypeOK
  <2>1. << >> \in Seq(Letter)
    BY ONLY EmptySeq
  <2>2. used \in [Resources -> Nat]
    OBVIOUS
  <2>3. letters \in Seq(Letter)
    BY <2>1
  <2>4. user \in 0..MaxUsers /\ born \in 0..MaxUsers /\ served \in Nat /\ built \in Nat
    OBVIOUS
  <2>5. job \in [Workers -> [pc : Pcs, kind : Kinds, for : 0..MaxUsers, letter : Seen, note : Seen]]
    BY <1>1 DEF Job
  <2>7. batch \subseteq Seen /\ pending \subseteq Changes /\ completed \in Nat
    OBVIOUS
  <2>6. /\ mix \in Mixes
        /\ identity \in BOOLEAN /\ delivery \in BOOLEAN /\ asked \in BOOLEAN /\ late \in BOOLEAN
    OBVIOUS
  <2> QED BY ONLY <2>2, <2>3, <2>4, <2>5, <2>6, <2>7 DEF TypeOK
<1>3. Rows
  BY DEF Rows, RowsFollowTheIdentity
<1>4. Fit
  BY <1>1, IdleTyped
  DEF Fit, Fits, Roles, Grounds, Opened, Room, Closing, Using, Erasing
<1>5. Locks
  BY <1>1, IdleTyped DEF Locks, Holding, Workers
<1>6. Serving = {}
  BY <1>1, IdleTyped DEF Serving, At, Workers
<1>7. Counts
  BY <1>6, FS_EmptySet DEF Counts, WithinPlan, Resources
<1>8. Apart(job[Sweeper])
  BY <1>1, IdleTyped DEF Apart, InHand, Closing, Workers
<1> QED BY <1>2, <1>3, <1>4, <1>5, <1>7, <1>8 DEF AccountInv
-----------------------------------------------------------------------------
(* Steps that only move one worker on, with what Clerk and the dead        *)
(* letters make of it; the row and its counts stay.                        *)

SameRow == /\ UNCHANGED <<mix, user, born, late, Metered>>
           /\ asked' \in BOOLEAN /\ (asked => asked')

ClerkMoves ==
  /\ identity' \in BOOLEAN /\ delivery' \in BOOLEAN
  /\ identity' => identity
  /\ delivery' => ~identity'
  /\ user # 0 /\ ~identity' => delivery' \/ late

LettersKept ==
  /\ letters' \in Seq(Letter)
  /\ \A k \in DOMAIN letters : k \in DOMAIN letters' /\ (letters[k].open => letters'[k].open)

MailTyped == letters' \in Seq(Letter) /\ batch' \subseteq Seen /\ pending' \subseteq Changes

MailKept == LettersKept /\ UNCHANGED Round

\* The letters are apart after the step, for a sweeper with this job.
ApartNext(j) ==
  /\ j.pc = "idle" => pending' = {}
  /\ \A b \in batch' : b[1] \in DOMAIN letters' /\ letters'[b[1]].open
  /\ \A b, c \in batch' : b[1] = c[1] => b = c
  /\ \A b \in batch', p \in pending' : b[1] # p.letter
  /\ j.pc \in InHand => /\ \A b \in batch' : b[1] # j.letter[1]
                        /\ \A p \in pending' : p.letter # j.letter[1]

\* A step of a worker that goes on with what it has at hand: another's mail
\* is kept, and the sweep's own may have been committed.
MailMoves(w) ==
  /\ MailTyped
  /\ w # Sweeper => MailKept
  /\ w = Sweeper =>
       /\ batch' = batch /\ pending' \subseteq pending
       /\ \A i \in DOMAIN letters :
            /\ i \in DOMAIN letters'
            /\ letters[i].open /\ (\A p \in pending : p.letter # i) => letters'[i].open

\* Nobody else holds the lock of a job that is locked.
Alone(w, j) ==
  Holding(j) => \A q \in Requests \ {w} : ~(Holding(job[q]) /\ Same(job[q], j))

\* The new job has its grounds after the step.
Grounded(j) ==
  /\ j.kind = "profile" /\ j.pc \in Erasing /\ j.for = user => asked'
  /\ j.kind = "webhook" => ~identity
  /\ j.kind = "webhook" /\ j.pc \in Erasing /\ user # 0 /\ j.for # user => late
  /\ j.kind = "sweep" /\ j.pc \in InHand =>
       j.letter[1] \in DOMAIN letters' /\ letters'[j.letter[1]].open

\* A step of one worker leaves the jobs of the others.
LEMMA JobStep ==
  ASSUME AccountInv, NEW w \in Workers, NEW j \in Job, Becomes(w, j)
  PROVE  job' \in [Workers -> Job] /\ \A v \in Workers : job'[v] = IF v = w THEN j ELSE job[v]
<1>1. job \in [Workers -> Job]
  BY DEF AccountInv, TypeOK, Job
<1> QED BY <1>1 DEF Becomes

\* A step that moves one worker on and leaves the row keeps the invariant, if
\* the new job has its grounds, its room and its letter to itself.
LEMMA QuietStep ==
  ASSUME AccountInv, NEW w \in Workers, NEW j \in Job, Becomes(w, j),
         SameRow, ClerkMoves, MailTyped, w # Sweeper => MailKept, w = Sweeper => ApartNext(j),
         Roles(w, j), Grounded(j), Room(j), Alone(w, j),
         ~At(w, "serving"), j.pc # "serving"
  PROVE  AccountInv'
<1> USE DEF AccountInv, SameRow, Metered
<1>1. job' \in [Workers -> Job] /\ \A v \in Workers : job'[v] = IF v = w THEN j ELSE job[v]
  BY JobStep
<1>2. TypeOK'
  BY <1>1 DEF TypeOK, ClerkMoves, MailTyped, Job
<1>3. Rows'
  BY DEF Rows, RowsFollowTheIdentity, ClerkMoves
<1>4. ASSUME NEW v \in Workers PROVE Fits(v, job[v])'
  <2>1. CASE v = w
    BY <1>1, <2>1 DEF Fits, Roles, Grounds, Opened, Room, Grounded, ClerkMoves
  <2>2. CASE v # w
    <3>1. Fits(v, job[v]) /\ job'[v] = job[v]
      BY <1>1, <2>2 DEF Fit
    <3>2. Opened(job[v])'
      <4>1. CASE w = Sweeper
        BY <2>2, <3>1, <4>1 DEF Fits, Roles, Opened
      <4>2. CASE w # Sweeper
        BY <3>1, <4>2 DEF Fits, Opened, MailKept, LettersKept
      <4> QED BY <4>1, <4>2
    <3> QED BY <3>1, <3>2 DEF Fits, Roles, Grounds, Room, ClerkMoves
  <2> QED BY <2>1, <2>2
<1>5. Locks'
  <2> SUFFICES ASSUME NEW q \in Requests, NEW r \in Requests, q # r,
                      Holding(job'[q]), Holding(job'[r]), Same(job'[q], job'[r])
               PROVE  FALSE
      BY DEF Locks, Holding, Same
  <2>1. q \in Workers /\ r \in Workers
    BY DEF Workers
  <2>2. CASE q # w /\ r # w
    BY <1>1, <2>1, <2>2 DEF Locks
  <2>3. CASE q = w
    BY <1>1, <2>1, <2>3 DEF Alone, Same
  <2>4. CASE r = w
    BY <1>1, <2>1, <2>4 DEF Alone, Same
  <2> QED BY <2>2, <2>3, <2>4
<1>6. Serving' = Serving
  BY <1>1 DEF Serving, At, Mine, Workers
<1>7. Counts'
  BY <1>6 DEF Counts, WithinPlan
<1>8. Apart(job[Sweeper])'
  <2>1. Sweeper \in Workers
    BY DEF Workers
  <2>2. CASE w = Sweeper
    BY <1>1, <2>1, <2>2 DEF Apart, ApartNext
  <2>3. CASE w # Sweeper
    BY <1>1, <2>1, <2>3 DEF Apart, MailKept, LettersKept, Round
  <2> QED BY <2>2, <2>3
<1> QED BY <1>2, <1>3, <1>4, <1>5, <1>7, <1>8 DEF Fit
-----------------------------------------------------------------------------
(* What most steps leave as it was, and the three ways a worker moves on.  *)

\* What the invariant says of one worker's job.
LEMMA JobFacts ==
  ASSUME AccountInv, NEW w \in Workers
  PROVE  /\ job[w] \in Job /\ Fits(w, job[w])
         /\ job[w].pc \in Pcs /\ job[w].kind \in Kinds /\ job[w].for \in 0..MaxUsers
         /\ job[w].letter \in Seen /\ job[w].note \in Seen
         /\ born \in Nat /\ 0 <= born
BY DEF AccountInv, TypeOK, Fit, Job

\* Steps that leave the row leave what is counted on it.
LEMMA RowStays ==
  ASSUME AccountInv, UNCHANGED <<mix, Row, Metered>>
  PROVE  SameRow
BY DEF AccountInv, TypeOK, SameRow, Row

\* Steps that leave the identity keep the rows following it.
LEMMA ClerkStays ==
  ASSUME AccountInv, UNCHANGED <<identity, delivery, user, late>>
  PROVE  ClerkMoves
BY DEF AccountInv, TypeOK, ClerkMoves, Rows, RowsFollowTheIdentity

\* Steps that leave the mail keep what is pending, and rewriting letters does.
LEMMA MailStays ==
  ASSUME AccountInv, UNCHANGED Mail
  PROVE  MailKept /\ MailTyped
BY DEF AccountInv, TypeOK, MailKept, MailTyped, LettersKept, Mail, Round

\* Mail that is kept stays well formed, and goes on with anybody.
LEMMA MailGoesOn ==
  ASSUME AccountInv, MailKept, NEW w \in Workers
  PROVE  MailTyped /\ MailMoves(w)
BY DEF AccountInv, TypeOK, MailKept, MailTyped, MailMoves, LettersKept, Round

\* A sweep that goes on with its letter keeps the letters apart.
LEMMA StaysApart ==
  ASSUME AccountInv, MailMoves(Sweeper), NEW j \in Job, j.letter = job[Sweeper].letter,
         j.pc # "idle", j.pc \in InHand => job[Sweeper].pc \in InHand
  PROVE  ApartNext(j)
<1>1. Apart(job[Sweeper])
  BY DEF AccountInv
<1> QED BY <1>1 DEF Apart, ApartNext, MailMoves

\* And its letter open.
LEMMA StaysOpen ==
  ASSUME AccountInv, NEW w \in Workers, MailMoves(w), job[w].kind = "sweep", job[w].pc \in InHand
  PROVE  job[w].letter[1] \in DOMAIN letters' /\ letters'[job[w].letter[1]].open
<1>1. Fits(w, job[w])
  BY DEF AccountInv, Fit
<1>2. w = Sweeper /\ Apart(job[Sweeper])
  BY <1>1 DEF Fits, Roles, AccountInv
<1> QED BY <1>1, <1>2 DEF Fits, Opened, Apart, MailMoves

\* A worker that is done keeps the invariant.
LEMMA EndsStep ==
  ASSUME AccountInv, NEW w \in Workers, Ends(w), ~At(w, "serving"),
         SameRow, ClerkMoves, MailTyped, w # Sweeper => MailKept,
         w = Sweeper => batch' = {} /\ pending' = {}
  PROVE  AccountInv'
<1> DEFINE j == Idle
<1>1. /\ j \in Job /\ Becomes(w, j)
      /\ j.pc = "idle" /\ j.kind = "none" /\ j.for = 0
  BY IdleTyped DEF Ends
<1> HIDE DEF j
<1>2. Roles(w, j) /\ Grounded(j) /\ Room(j) /\ Alone(w, j)
  BY <1>1, JobFacts DEF Roles, Grounded, Room, Alone, Closing, Using, Erasing, Holding
<1>3. w = Sweeper => ApartNext(j)
  BY <1>1 DEF ApartNext, InHand, Closing
<1> QED BY <1>1, <1>2, <1>3, QuietStep

\* A worker of a deletion that lets go of the row.
LEMMA LeavesStep ==
  ASSUME AccountInv, NEW w \in Workers,
         NEW pc \in {"unlinking", "failing", "resolving", "counting"}, Leaves(w, pc),
         job[w].pc \in Closing, pc = "unlinking" => job[w].kind = "profile",
         SameRow, ClerkMoves, MailMoves(w)
  PROVE  AccountInv'
<1> DEFINE j == Doing(pc, job[w].kind, 0, job[w].letter, NoLetter)
<1>1. Fits(w, job[w]) /\ job[w].kind \in Kinds /\ job[w].letter \in Seen
  BY JobFacts
<1>2. /\ j \in Job /\ j.pc = pc /\ j.kind = job[w].kind /\ j.for = 0
      /\ j.letter = job[w].letter
  <2>1. pc \in Pcs
    BY DEF Pcs
  <2>2. 0 \in 0..MaxUsers
    BY BoundsAssumption
  <2> QED BY ONLY <1>1, <2>1, <2>2, JobTyped, NoLetterTyped
<1>3. Becomes(w, j)
  BY DEF Leaves
<1> HIDE DEF j
<1>4. Roles(w, j) /\ Grounded(j) /\ Room(j) /\ Alone(w, j)
  <2>1. Roles(w, j)
    BY <1>1, <1>2, JobFacts DEF Fits, Roles, Closing, Using, Erasing
  <2>2. j.kind = "sweep" => j.letter[1] \in DOMAIN letters' /\ letters'[j.letter[1]].open
    BY <1>2, StaysOpen DEF InHand
  <2>3. Grounded(j)
    BY <1>1, <1>2, <2>2 DEF Fits, Grounds, Grounded, Erasing
  <2> QED BY <1>2, <2>1, <2>3 DEF Room, Alone, Holding
<1>5. ~At(w, "serving") /\ j.pc # "serving" /\ MailTyped /\ (w # Sweeper => MailKept)
  BY <1>2 DEF At, Closing, MailMoves
<1>6. w = Sweeper => ApartNext(j)
  BY <1>2, StaysApart DEF InHand
<1> QED BY <1>2, <1>3, <1>4, <1>5, <1>6, QuietStep

\* A deletion that is not done is over, or left to the sweep's count.
LEMMA NotDoneStep ==
  ASSUME AccountInv, NEW w \in Workers, NotDone(w), job[w].pc \in Closing,
         UNCHANGED <<mix, identity, Row, Metered>>, MailKept
  PROVE  AccountInv'
<1>1. SameRow /\ ClerkMoves
  BY RowStays, ClerkStays DEF NotDone, Row
<1>2. CASE job[w].kind = "sweep"
  BY <1>1, <1>2, MailGoesOn, LeavesStep DEF NotDone
<1>3. CASE job[w].kind # "sweep"
  <2>1. ~At(w, "serving") /\ MailTyped
    BY MailGoesOn DEF At, Closing
  <2>2. Ends(w) /\ w # Sweeper
    <3>1. Fits(w, job[w]) /\ job[w].pc # "idle"
      BY JobFacts DEF Closing
    <3> QED BY <1>3, <3>1 DEF NotDone, Fits, Roles
  <2> QED BY <1>1, <2>1, <2>2, EndsStep
<1> QED BY <1>2, <1>3
-----------------------------------------------------------------------------
(* The steps of a deletion that leave the row.                             *)

\* The try-lock of the one deletion of a user at a time.
LEMMA TryLockKeeps ==
  ASSUME AccountInv, NEW w \in Workers, TryLock(w)
  PROVE  AccountInv'
<1>1. MailKept /\ job[w].pc \in Closing /\ UNCHANGED <<mix, identity, Row, Metered>>
  BY MailStays DEF TryLock, At, Closing
<1>2. CASE NotDone(w)
  BY <1>1, <1>2, NotDoneStep
<1>3. CASE Moves(w, "purging") /\ UNCHANGED delivery
  <2> DEFINE j == Doing("purging", job[w].kind, job[w].for, job[w].letter, NoLetter)
  <2>1. "purging" \in Pcs
    BY DEF Pcs
  <2>2. /\ j \in Job /\ j.pc = "purging" /\ j.kind = job[w].kind /\ j.for = job[w].for
        /\ j.letter = job[w].letter
    BY <2>1, JobFacts, JobTyped, NoLetterTyped
  <2>3. Becomes(w, j)
    BY <1>3 DEF Moves
  <2> HIDE DEF j
  <2>4. SameRow /\ ClerkMoves
    BY <1>1, <1>3, RowStays, ClerkStays DEF Row
  <2>5. Fits(w, job[w]) /\ job[w].pc = "deleting"
    BY JobFacts DEF TryLock, At
  <2>6. Roles(w, j)
    BY <2>2, <2>5 DEF Fits, Roles, Closing, Using, Erasing
  <2>7. Grounded(j)
    <3>1. j.kind = "sweep" => j.letter[1] \in DOMAIN letters' /\ letters'[j.letter[1]].open
      BY <1>1, <2>2, MailGoesOn, StaysOpen DEF InHand
    <3> QED BY <2>2, <2>4, <2>5, <3>1 DEF Fits, Grounds, Grounded, Erasing, SameRow
  <2>8. Room(j) /\ Alone(w, j) /\ ~At(w, "serving")
    BY <2>2, <2>5 DEF Room, Alone, Holding, At
  <2>9. MailTyped /\ j.pc # "serving"
    BY <1>1, <2>2, MailGoesOn
  <2>10. w = Sweeper => ApartNext(j)
    BY <1>1, <2>2, MailGoesOn, StaysApart DEF InHand
  <2> QED BY <1>1, <2>2, <2>3, <2>4, <2>6, <2>7, <2>8, <2>9, <2>10, QuietStep
<1> QED BY <1>2, <1>3 DEF TryLock

\* The purge rolls back.
LEMMA PurgeFailsKeeps ==
  ASSUME AccountInv, NEW w \in Workers, PurgeFails(w)
  PROVE  AccountInv'
<1>1. SameRow /\ ClerkMoves /\ MailMoves(w)
  BY RowStays, ClerkStays, MailStays, MailGoesOn DEF PurgeFails, Clerk, Row
<1>2. job[w].pc \in Closing /\ Leaves(w, "failing")
  BY DEF PurgeFails, At, Closing
<1> QED BY <1>1, <1>2, LeavesStep

\* The identity is removed from Clerk after the purge.
LEMMA UnlinkKeeps ==
  ASSUME AccountInv, NEW w \in Workers, Unlink(w)
  PROVE  AccountInv'
<1>1. SameRow /\ MailKept /\ MailTyped
  BY RowStays, MailStays DEF Unlink, Row
<1>2. ClerkMoves
  BY DEF Unlink, ClerkMoves
<1>3. Ends(w) /\ ~At(w, "serving") /\ w # Sweeper
  <2>1. Fits(w, job[w]) /\ job[w].pc = "unlinking"
    BY JobFacts DEF Unlink, At
  <2> QED BY <2>1 DEF Unlink, At, Fits, Roles
<1> QED BY <1>1, <1>2, <1>3, EndsStep

\* Clerk refuses or does not answer.
LEMMA UnlinkFailsKeeps ==
  ASSUME AccountInv, NEW w \in Workers, UnlinkFails(w)
  PROVE  AccountInv'
<1>1. SameRow /\ MailMoves(w)
  BY RowStays, MailStays, MailGoesOn DEF UnlinkFails, Row
<1>2. ClerkMoves
  <2>1. CASE UNCHANGED <<identity, delivery>>
    BY <2>1, ClerkStays DEF UnlinkFails, Row
  <2>2. CASE identity /\ identity' = FALSE /\ delivery' = TRUE
    BY <2>2 DEF ClerkMoves
  <2> QED BY <2>1, <2>2 DEF UnlinkFails
<1>3. job[w].pc \in Closing /\ Leaves(w, "failing")
  BY DEF UnlinkFails, At, Closing
<1> QED BY <1>1, <1>2, <1>3, LeavesStep

\* A failed deletion reads the pending letter it would add to.
LEMMA RecordReadKeeps ==
  ASSUME AccountInv, NEW w \in Workers, RecordRead(w)
  PROVE  AccountInv'
<1>1. SameRow /\ ClerkMoves /\ MailKept /\ MailMoves(w)
  BY RowStays, ClerkStays, MailStays, MailGoesOn DEF RecordRead, Clerk, Row
<1>2. PICK n \in Seen : Becomes(w, Doing("recording", job[w].kind, 0, job[w].letter, n))
  <2>1. NoLetter \in Seen
    BY NoLetterTyped
  <2>2. \A i \in DOMAIN letters : <<i, letters[i].attempts>> \in Seen
    <3>1. letters \in Seq(Letter)
      BY DEF AccountInv, TypeOK
    <3>2. \A i \in DOMAIN letters : i \in Nat /\ letters[i] \in Letter
      BY <3>1, ElementOfSeq, LenProperties
    <3> QED BY <3>2 DEF Letter, Seen
  <2> QED BY <2>1, <2>2 DEF RecordRead
<1> DEFINE j == Doing("recording", job[w].kind, 0, job[w].letter, n)
<1>3. /\ j \in Job /\ j.pc = "recording" /\ j.kind = job[w].kind /\ j.for = 0
      /\ j.letter = job[w].letter
  <2>1. "recording" \in Pcs
    BY DEF Pcs
  <2>2. 0 \in 0..MaxUsers
    BY BoundsAssumption
  <2> QED BY <2>1, <2>2, JobFacts, JobTyped
<1>4. Becomes(w, j)
  BY <1>2
<1> HIDE DEF j
<1>5. Fits(w, job[w]) /\ job[w].pc = "failing"
  BY JobFacts DEF RecordRead, At
<1>6. Roles(w, j)
  BY <1>3, <1>5, JobFacts DEF Fits, Roles, Closing, Using, Erasing
<1>7. Grounded(j)
  <2>1. j.kind = "sweep" => j.letter[1] \in DOMAIN letters' /\ letters'[j.letter[1]].open
    BY <1>1, <1>3, <1>5, StaysOpen DEF InHand, Closing
  <2> QED BY <1>3, <1>5, <2>1 DEF Fits, Grounds, Grounded, Erasing
<1>8. Room(j) /\ Alone(w, j) /\ ~At(w, "serving") /\ j.pc # "serving"
  BY <1>3, <1>5 DEF Room, Alone, Holding, At
<1>9. w = Sweeper => ApartNext(j)
  BY <1>1, <1>3, <1>5, StaysApart DEF InHand, Closing
<1> QED BY <1>1, <1>3, <1>4, <1>6, <1>7, <1>8, <1>9, QuietStep DEF MailMoves

\* Rewriting letters keeps those that are pending.
LEMMA RewrittenKeeps ==
  ASSUME AccountInv, Rewritten(letters, letters')
  PROVE  LettersKept
BY DEF Rewritten, LettersKept

\* It writes its letter, new or with one attempt more.
LEMMA RecordWriteKeeps ==
  ASSUME AccountInv, NEW w \in Workers, RecordWrite(w)
  PROVE  AccountInv'
<1>1. letters \in Seq(Letter)
  BY DEF AccountInv, TypeOK
<1>2. LettersKept
  <2>1. CASE job[w].note = NoLetter
    <3> DEFINE e == [open |-> TRUE, attempts |-> 1]
    <3>1. letters' = Append(letters, e)
      BY <2>1 DEF RecordWrite
    <3>2. e \in Letter
      BY BoundsAssumption DEF Letter
    <3> HIDE DEF e
    <3> QED BY <1>1, <3>1, <3>2, AppendProperties, LenProperties DEF LettersKept
  <2>2. CASE job[w].note # NoLetter
    <3> DEFINE i == job[w].note[1]
               n == OneMore(job[w].note[2])
    <3>1. letters' = [letters EXCEPT ![i].attempts = n]
      BY <2>2 DEF RecordWrite
    <3>2. i \in Nat /\ n \in 0..MaxAttempts
      BY JobFacts, AttemptsTyped DEF Seen
    <3> HIDE DEF i, n
    <3> QED BY <1>1, <3>1, <3>2, AttemptsWritten, RewrittenKeeps
  <2> QED BY <2>1, <2>2
<1>3. /\ job[w].pc \in Closing /\ NotDone(w) /\ UNCHANGED <<mix, identity, Row, Metered>>
      /\ MailKept
  BY <1>2 DEF RecordWrite, At, Closing, MailKept
<1> QED BY <1>3, NotDoneStep

\* The record of the failure is lost.
LEMMA RecordFailsKeeps ==
  ASSUME AccountInv, NEW w \in Workers, RecordFails(w)
  PROVE  AccountInv'
<1>1. MailKept
  BY MailStays DEF RecordFails
<1>2. job[w].pc \in Closing /\ NotDone(w) /\ UNCHANGED <<mix, identity, Row, Metered>>
  BY DEF RecordFails, At, Closing
<1> QED BY <1>1, <1>2, NotDoneStep
-----------------------------------------------------------------------------
(* The sweep's own steps.                                                  *)

\* The sweeper is one of the workers.
LEMMA SweeperWorks == Sweeper \in Workers
BY DEF Workers

\* What becomes of letters that are written: they stay letters, and those not
\* among the changes stay as they are.
LEMMA WrittenLetters ==
  ASSUME AccountInv, NEW C \in SUBSET Changes
  PROVE  /\ Written(C) \in Seq(Letter) /\ DOMAIN Written(C) = DOMAIN letters
         /\ \A i \in DOMAIN letters : (\A c \in C : c.letter # i) => Written(C)[i] = letters[i]
<1>1. letters \in Seq(Letter) /\ DOMAIN letters = 1..Len(letters) /\ Len(letters) \in Nat
  BY LenProperties DEF AccountInv, TypeOK
<1>2. ASSUME NEW i \in DOMAIN letters
      PROVE  Written(C)[i] \in Letter
  <2>1. letters[i] \in Letter
    BY <1>1, ElementOfSeq
  <2>2. CASE \E c \in C : c.letter = i
    <3> DEFINE c == CHOOSE c \in C : c.letter = i
    <3>1. c \in C
      BY <2>2
    <3>2. c.attempts \in 0..MaxAttempts
      BY <3>1 DEF Changes
    <3>3. Written(C)[i] = IF c.closes THEN [letters[i] EXCEPT !.open = FALSE]
                                      ELSE [letters[i] EXCEPT !.attempts = c.attempts]
      BY <2>2 DEF Written
    <3> HIDE DEF c
    <3> QED BY <2>1, <3>2, <3>3 DEF Letter
  <2>3. CASE ~ \E c \in C : c.letter = i
    <3>1. Written(C)[i] = letters[i]
      BY <2>3 DEF Written
    <3> QED BY <2>1, <3>1
  <2> QED BY <2>2, <2>3
<1>3. DOMAIN Written(C) = DOMAIN letters /\ Written(C) = [i \in DOMAIN letters |-> Written(C)[i]]
  BY DEF Written
<1>4. Written(C) \in [1..Len(letters) -> Letter]
  BY <1>1, <1>2, <1>3
<1>5. Written(C) \in Seq(Letter)
  BY <1>1, <1>4, SeqDef
<1>6. ASSUME NEW i \in DOMAIN letters, \A c \in C : c.letter # i
      PROVE  Written(C)[i] = letters[i]
  BY <1>6 DEF Written
<1> QED BY <1>3, <1>5, <1>6

\* What the session has yet to write is of the letter at hand.
LEMMA DirtyIsAtHand ==
  ASSUME AccountInv
  PROVE  /\ Dirty \in SUBSET Changes
         /\ \A c \in Dirty : job[Sweeper].pc \in InHand /\ c.letter = job[Sweeper].letter[1]
<1>1. job[Sweeper].letter \in Seen
  BY JobFacts, SweeperWorks
<1>2. /\ job[Sweeper].letter[1] \in Nat /\ job[Sweeper].letter[2] \in 0..MaxAttempts
      /\ OneMore(job[Sweeper].letter[2]) \in 0..MaxAttempts
  BY <1>1, AttemptsTyped DEF Seen
<1>3. CASE At(Sweeper, "resolving")
  BY <1>2, <1>3 DEF Dirty, Change, Changes, At, InHand
<1>4. CASE ~At(Sweeper, "resolving") /\ At(Sweeper, "counting")
  BY <1>2, <1>4 DEF Dirty, Change, Changes, At, InHand
<1>5. CASE ~At(Sweeper, "resolving") /\ ~At(Sweeper, "counting")
  BY <1>5 DEF Dirty
<1> QED BY <1>3, <1>4, <1>5

\* A sweep reads what is pending.
LEMMA SweepStartKeeps ==
  ASSUME AccountInv, SweepStart
  PROVE  AccountInv'
<1>1. SameRow /\ ClerkMoves
  BY RowStays, ClerkStays DEF SweepStart, Clerk, Row
<1> DEFINE j == Doing("round", "sweep", 0, NoLetter, NoLetter)
<1>2. /\ j \in Job /\ j.pc = "round" /\ j.kind = "sweep" /\ j.for = 0
  <2>1. "round" \in Pcs /\ "sweep" \in Kinds /\ 0 \in 0..MaxUsers
    BY BoundsAssumption DEF Pcs, Kinds
  <2> QED BY <2>1, JobTyped, NoLetterTyped
<1>3. Becomes(Sweeper, j)
  BY DEF SweepStart
<1> HIDE DEF j
<1>4. Roles(Sweeper, j) /\ Grounded(j) /\ Room(j) /\ Alone(Sweeper, j)
  BY <1>2, JobFacts, SweeperWorks
  DEF Roles, Grounded, Room, Alone, Closing, Using, Erasing, Holding, InHand
<1>5. /\ letters' = letters /\ pending' = pending /\ pending = {}
      /\ \A b \in batch' : \E i \in DOMAIN letters : Retried(i) /\ b = <<i, letters[i].attempts>>
  <2>1. Apart(job[Sweeper]) /\ job[Sweeper].pc = "idle"
    BY DEF AccountInv, SweepStart, At
  <2> QED BY <2>1 DEF SweepStart, Apart
<1>6. MailTyped
  <2>1. letters \in Seq(Letter)
    BY DEF AccountInv, TypeOK
  <2>2. \A i \in DOMAIN letters : i \in Nat /\ letters[i] \in Letter
    BY <2>1, ElementOfSeq, LenProperties
  <2>3. batch' \subseteq Seen
    BY <1>5, <2>2 DEF Letter, Seen
  <2> QED BY <1>5, <2>1, <2>3 DEF MailTyped
<1>7. ApartNext(j)
  BY <1>2, <1>5 DEF ApartNext, Retried, InHand, Closing
<1>8. ~At(Sweeper, "serving") /\ j.pc # "serving"
  BY <1>2 DEF At, SweepStart
<1> QED BY <1>1, <1>2, <1>3, <1>4, <1>6, <1>7, <1>8, QuietStep, SweeperWorks

\* It takes up the next letter, and writes what it made of the one before.
LEMMA SweepNextKeeps ==
  ASSUME AccountInv, SweepNext
  PROVE  AccountInv'
<1>1. SameRow /\ ClerkMoves
  BY RowStays, ClerkStays DEF SweepNext, Clerk, Row
<1>2. PICK l \in batch :
        /\ batch' = batch \ {l}
        /\ Becomes(Sweeper, Doing(IF user = 0 THEN "resolving" ELSE "deleting",
                                  "sweep", user, l, NoLetter))
  BY DEF SweepNext
<1> DEFINE pc == IF user = 0 THEN "resolving" ELSE "deleting"
           j  == Doing(pc, "sweep", user, l, NoLetter)
<1>3. l \in Seen /\ batch \subseteq Seen /\ pending \subseteq Changes /\ letters \in Seq(Letter)
  BY DEF AccountInv, TypeOK
<1>4. pc \in Pcs /\ "sweep" \in Kinds /\ user \in 0..MaxUsers
  BY DEF AccountInv, TypeOK, Pcs, Kinds
<1>5. pc \in {"resolving", "deleting"} /\ (pc = "deleting" => user # 0)
  OBVIOUS
<1> HIDE DEF pc
<1>6. /\ j \in Job /\ j.pc = pc /\ j.kind = "sweep" /\ j.for = user /\ j.letter = l
  BY <1>3, <1>4, JobTyped, NoLetterTyped
<1>7. Becomes(Sweeper, j)
  BY <1>2 DEF pc
<1> HIDE DEF j
<1>8. Roles(Sweeper, j)
  <2>1. user <= born
    BY DEF AccountInv, TypeOK, Rows
  <2> QED BY <1>5, <1>6, <2>1 DEF Roles, Closing, Using, Erasing
<1>9. /\ letters' = letters /\ pending' = pending \cup Dirty
      /\ Apart(job[Sweeper]) /\ job[Sweeper].pc # "serving"
  BY DEF SweepNext, AccountInv, Between
<1>10. Grounded(j)
  BY <1>6, <1>9 DEF Grounded, Apart
<1>11. ApartNext(j)
  <2>1. l[1] \in DOMAIN letters /\ letters[l[1]].open
    BY <1>9 DEF Apart
  <2>2. \A b \in batch' : b \in batch /\ b # l
    BY <1>2
  <2>3. \A p \in pending' : p \in pending \/ p \in Dirty
    BY <1>9
  <2>4. \A b \in batch, p \in pending' : b[1] # p.letter
    BY <1>9, <2>3, DirtyIsAtHand DEF Apart
  <2>5. \A b \in batch' : b[1] # l[1]
    BY <1>9, <2>2 DEF Apart
  <2> QED BY <1>5, <1>6, <1>9, <2>2, <2>4, <2>5 DEF ApartNext, Apart
<1>12. MailTyped
  BY <1>2, <1>3, <1>9, DirtyIsAtHand DEF MailTyped
<1>13. Room(j) /\ Alone(Sweeper, j) /\ ~At(Sweeper, "serving") /\ j.pc # "serving"
  BY <1>5, <1>6, <1>9 DEF Room, Alone, Holding, At
<1> QED BY <1>1, <1>6, <1>7, <1>8, <1>10, <1>11, <1>12, <1>13, QuietStep, SweeperWorks

\* The round ends with what it has made of its letters.
LEMMA SweepEndKeeps ==
  ASSUME AccountInv, SweepEnd
  PROVE  AccountInv'
<1>1. SameRow /\ ClerkMoves
  BY RowStays, ClerkStays DEF SweepEnd, Clerk, Row
<1>2. pending \cup Dirty \in SUBSET Changes
  BY DirtyIsAtHand DEF AccountInv, TypeOK
<1>3. MailTyped /\ batch' = {} /\ pending' = {}
  BY <1>2, WrittenLetters DEF SweepEnd, MailTyped
<1>4. Ends(Sweeper) /\ ~At(Sweeper, "serving")
  BY DEF SweepEnd, Between, At
<1> QED BY <1>1, <1>3, <1>4, EndsStep, SweeperWorks

\* An exception ends it.
LEMMA SweepAbortsKeeps ==
  ASSUME AccountInv, SweepAborts
  PROVE  AccountInv'
<1>1. SameRow /\ ClerkMoves
  BY RowStays, ClerkStays DEF SweepAborts, Clerk, Row
<1> DEFINE j == Doing("dead", "sweep", 0, NoLetter, NoLetter)
<1>2. /\ j \in Job /\ j.pc = "dead" /\ j.kind = "sweep" /\ j.for = 0
  <2>1. "dead" \in Pcs /\ "sweep" \in Kinds /\ 0 \in 0..MaxUsers
    BY BoundsAssumption DEF Pcs, Kinds
  <2> QED BY <2>1, JobTyped, NoLetterTyped
<1>3. Becomes(Sweeper, j)
  BY DEF SweepAborts
<1> HIDE DEF j
<1>4. Roles(Sweeper, j) /\ Grounded(j) /\ Room(j) /\ Alone(Sweeper, j)
  BY <1>2, JobFacts, SweeperWorks
  DEF Roles, Grounded, Room, Alone, Closing, Using, Erasing, Holding, InHand
<1>5. MailTyped /\ ApartNext(j)
  BY <1>2 DEF SweepAborts, MailTyped, ApartNext, AccountInv, TypeOK, InHand, Closing
<1>6. ~At(Sweeper, "serving") /\ j.pc # "serving"
  BY <1>2 DEF At, SweepAborts, Between
<1> QED BY <1>1, <1>2, <1>3, <1>4, <1>5, <1>6, QuietStep, SweeperWorks
-----------------------------------------------------------------------------
(* The steps of a request that leave the row and its counts.               *)

\* A request takes up something new: it is of no sweep, and its kind is its own.
LEMMA TakesUpStep ==
  ASSUME AccountInv, NEW r \in Requests, ~At(r, "serving"),
         NEW pc \in Pcs \ {"idle", "unlinking", "counted", "serving"},
         NEW k \in Kinds \ {"sweep"}, NEW u \in {0, user},
         Becomes(r, Doing(pc, k, u, NoLetter, NoLetter)),
         SameRow, ClerkMoves, MailKept,
         pc \in Closing => k \in {"profile", "webhook"},
         pc \in Using => k \in Resources,
         pc \in Erasing \cup Using => u # 0,
         pc # "locked",
         k = "profile" => asked',
         k = "webhook" => ~identity /\ u = user
  PROVE  AccountInv'
<1> DEFINE j == Doing(pc, k, u, NoLetter, NoLetter)
<1>1. r \in Workers /\ r # Sweeper
  BY DEF Workers
<1>2. user \in 0..MaxUsers /\ user <= born /\ 0 <= born
  BY BoundsAssumption DEF AccountInv, TypeOK, Rows
<1>3. /\ j \in Job /\ j.pc = pc /\ j.kind = k /\ j.for = u /\ j.letter = NoLetter
  <2>1. u \in 0..MaxUsers
    BY <1>2, BoundsAssumption
  <2> QED BY <2>1, JobTyped, NoLetterTyped
<1>4. Becomes(r, j)
  OBVIOUS
<1> HIDE DEF j
<1>5. Roles(r, j)
  BY <1>1, <1>2, <1>3 DEF Roles
<1>6. Grounded(j) /\ Room(j) /\ Alone(r, j)
  BY <1>3 DEF Grounded, Room, Alone, Holding, Erasing
<1> QED BY <1>1, <1>3, <1>4, <1>5, <1>6, MailGoesOn, QuietStep

\* Sign-in fetches the profile from Clerk before it looks for the row.
LEMMA FetchProfileKeeps ==
  ASSUME AccountInv, NEW r \in Requests, FetchProfile(r)
  PROVE  AccountInv'
<1>1. SameRow /\ ClerkMoves /\ MailKept
  BY RowStays, ClerkStays, MailStays DEF FetchProfile, Clerk, Row
<1>2. /\ ~At(r, "serving") /\ "signing in" \in Pcs \ {"idle", "unlinking", "counted", "serving"}
      /\ "none" \in Kinds \ {"sweep"}
      /\ "signing in" \notin Closing \cup Using
  BY DEF FetchProfile, At, Pcs, Kinds, Closing, Using
<1>3. Becomes(r, Doing("signing in", "none", 0, NoLetter, NoLetter))
  BY DEF FetchProfile
<1> QED BY <1>1, <1>2, <1>3, TakesUpStep DEF Erasing, Closing, Using

\* The user asks for the deletion.
LEMMA ProfileDeleteKeeps ==
  ASSUME AccountInv, NEW r \in Requests, ProfileDelete(r)
  PROVE  AccountInv'
<1>1. ClerkMoves /\ MailKept
  BY ClerkStays, MailStays DEF ProfileDelete, Clerk
<1>2. SameRow /\ asked'
  BY DEF ProfileDelete, SameRow, Clerk, Metered
<1>3. /\ ~At(r, "serving") /\ "deleting" \in Pcs \ {"idle", "unlinking", "counted", "serving"}
      /\ "profile" \in Kinds \ {"sweep"} /\ user # 0
      /\ "deleting" \in Closing /\ "deleting" \notin Using
  BY DEF ProfileDelete, At, Pcs, Kinds, Closing, Using
<1>4. Becomes(r, Doing("deleting", "profile", user, NoLetter, NoLetter))
  BY DEF ProfileDelete
<1> QED BY <1>1, <1>2, <1>3, <1>4, TakesUpStep

\* Clerk delivers user.deleted, perhaps again.
LEMMA WebhookKeeps ==
  ASSUME AccountInv, NEW r \in Requests, Webhook(r)
  PROVE  AccountInv'
<1>1. SameRow /\ MailKept /\ MailTyped /\ delivery /\ ~identity /\ ~identity'
  BY RowStays, MailStays DEF Webhook, AccountInv, Rows
<1>2. ClerkMoves
  BY <1>1 DEF Webhook, ClerkMoves, AccountInv, TypeOK, Row
<1>3. CASE user = 0
  <2>1. job[r] \in Job /\ r \in Workers /\ r # Sweeper
    BY JobFacts DEF Workers
  <2>2. job' = job
    BY <1>3 DEF Webhook
  <2>3. Becomes(r, job[r])
    BY <2>1, <2>2 DEF Becomes, AccountInv, TypeOK
  <2>4. Fits(r, job[r]) /\ job[r].pc = "idle"
    BY <2>1, JobFacts DEF Webhook, At
  <2>5. Roles(r, job[r]) /\ Grounded(job[r]) /\ Room(job[r]) /\ Alone(r, job[r])
    BY <2>1, <2>4 DEF Fits, Roles, Grounds, Grounded, Alone, Erasing, Holding
  <2> QED BY <1>1, <1>2, <2>1, <2>3, <2>4, <2>5, QuietStep DEF At
<1>4. CASE user # 0
  <2>1. /\ ~At(r, "serving") /\ "deleting" \in Pcs \ {"idle", "unlinking", "counted", "serving"}
        /\ "webhook" \in Kinds \ {"sweep"}
        /\ "deleting" \in Closing /\ "deleting" \notin Using
    BY DEF Webhook, At, Pcs, Kinds, Closing, Using
  <2>2. Becomes(r, Doing("deleting", "webhook", user, NoLetter, NoLetter))
    BY <1>4 DEF Webhook
  <2> QED BY <1>1, <1>2, <1>4, <2>1, <2>2, TakesUpStep
<1> QED BY <1>3, <1>4

\* A request that counts begins.
LEMMA ReserveKeeps ==
  ASSUME AccountInv, NEW r \in Requests, Reserve(r)
  PROVE  AccountInv'
<1>1. SameRow /\ ClerkMoves /\ MailKept
  BY RowStays, ClerkStays, MailStays DEF Reserve, Clerk, Row
<1>2. PICK k \in Resources : Becomes(r, Doing("reserving", k, user, NoLetter, NoLetter))
  BY DEF Reserve
<1>3. /\ ~At(r, "serving") /\ "reserving" \in Pcs \ {"idle", "unlinking", "counted", "serving"}
      /\ "reserving" \notin Closing /\ user # 0
  BY DEF Reserve, At, Pcs, Closing
<1>4. k \in Kinds \ {"sweep"} /\ k \notin {"profile", "webhook"}
  BY DEF Kinds, Resources
<1> QED BY <1>1, <1>2, <1>3, <1>4, TakesUpStep

\* A build that was paid for begins.
LEMMA BuildStartKeeps ==
  ASSUME AccountInv, NEW r \in Requests, BuildStart(r)
  PROVE  AccountInv'
<1>1. SameRow /\ ClerkMoves /\ MailKept
  BY RowStays, ClerkStays, MailStays DEF BuildStart, Clerk, Row
<1>2. /\ ~At(r, "serving") /\ "building" \in Pcs \ {"idle", "unlinking", "counted", "serving"}
      /\ "wizard" \in Kinds \ {"sweep"}
      /\ "building" \notin Closing \cup Using
  BY DEF BuildStart, At, Pcs, Kinds, Closing, Using, Resources
<1>3. Becomes(r, Doing("building", "wizard", user, NoLetter, NoLetter))
  BY DEF BuildStart
<1> QED BY <1>1, <1>2, <1>3, TakesUpStep DEF Erasing, Closing, Using
\* A reservation moves on with the job it has.
LEMMA MovesOnStep ==
  ASSUME AccountInv, NEW r \in Requests, NEW pc \in {"locked", "counted"}, Moves(r, pc),
         job[r].pc \in {"reserving", "locked"}, SameRow, ClerkMoves, MailKept,
         pc = "counted" /\ Mine(r) =>
           used[job[r].kind] < Allowance[job[r].kind] + (IF job[r].kind = "tree" THEN built ELSE 0),
         \A q \in Requests \ {r} : ~Held(q, r)
  PROVE  AccountInv'
<1> DEFINE j == Doing(pc, job[r].kind, job[r].for, job[r].letter, NoLetter)
<1>1. r \in Workers /\ r # Sweeper
  BY DEF Workers
<1>2. pc \in Pcs
  BY DEF Pcs
<1>3. /\ j \in Job /\ j.pc = pc /\ j.kind = job[r].kind /\ j.for = job[r].for
      /\ j.letter = job[r].letter
  BY <1>1, <1>2, JobFacts, JobTyped, NoLetterTyped
<1>4. Becomes(r, j)
  BY DEF Moves
<1> HIDE DEF j
<1>5. Fits(r, job[r]) /\ job[r].kind \in Resources /\ ~At(r, "serving")
  BY <1>1, JobFacts DEF Fits, Roles, Using, At
<1>6. Roles(r, j)
  BY <1>1, <1>3, <1>5 DEF Fits, Roles, Closing, Using, Erasing
<1>7. Grounded(j)
  BY <1>3, <1>5 DEF Grounded, Erasing, Resources
<1>8. Room(j)
  BY <1>3 DEF Room, Mine
<1>9. Alone(r, j)
  BY <1>3 DEF Alone, Held, Holding, Rival, Same
<1> QED BY <1>1, <1>3, <1>4, <1>5, <1>6, <1>7, <1>8, <1>9, MailGoesOn, QuietStep

\* It locks the row.
LEMMA LockPlanKeeps ==
  ASSUME AccountInv, NEW r \in Requests, LockPlan(r)
  PROVE  AccountInv'
<1>1. SameRow /\ ClerkMoves /\ MailKept
  BY RowStays, ClerkStays, MailStays DEF LockPlan, Clerk, Row
<1>2. job[r].pc = "reserving" /\ r \in Workers /\ r # Sweeper
  BY DEF LockPlan, At, Workers
<1>3. CASE Ends(r)
  BY <1>1, <1>2, <1>3, MailGoesOn, EndsStep DEF At
<1>4. CASE Moves(r, "locked") /\ \A q \in Requests : ~Held(q, r)
  BY <1>1, <1>2, <1>4, MovesOnStep
<1> QED BY <1>3, <1>4 DEF LockPlan

\* Who holds the lock finds the resource not full, and is still alone with it.
LEMMA CheckPlanKeeps ==
  ASSUME AccountInv, NEW r \in Requests, CheckPlan(r)
  PROVE  AccountInv'
<1>1. SameRow /\ ClerkMoves /\ MailKept
  BY RowStays, ClerkStays, MailStays DEF CheckPlan, Clerk, Row
<1>2. job[r].pc = "locked" /\ r \in Workers /\ r # Sweeper
  BY DEF CheckPlan, At, Workers
<1>3. CASE Ends(r)
  BY <1>1, <1>2, <1>3, MailGoesOn, EndsStep DEF At
<1>4. CASE Moves(r, "counted") /\ (Mine(r) => ~Full(job[r].kind))
  <2>1. \A q \in Requests \ {r} : ~Held(q, r)
    BY <1>2 DEF AccountInv, Locks, Holding, Held, Rival, Same
  <2>2. Mine(r) => used[job[r].kind] < Allowance[job[r].kind]
                                       + (IF job[r].kind = "tree" THEN built ELSE 0)
    <3>1. Fits(r, job[r]) /\ job[r].kind \in Resources
      BY <1>2, JobFacts DEF Fits, Roles, Using
    <3>2. /\ used[job[r].kind] \in Nat /\ Allowance[job[r].kind] \in Nat /\ built \in Nat
      BY <3>1, AllowanceAssumption DEF AccountInv, TypeOK
    <3> QED BY <1>4, <3>2 DEF Full
  <2> QED BY <1>1, <1>2, <1>4, <2>1, <2>2, MovesOnStep
<1> QED BY <1>3, <1>4 DEF CheckPlan, Refused
-----------------------------------------------------------------------------
(* Steps that change the row: the jobs of the other rows are no longer its *)
(* own, and nothing of what they counted is.                               *)

\* No job is of a row that does not exist yet, none in use of the row 0.
LEMMA NobodyServesAnother ==
  ASSUME AccountInv, job' \in [Workers -> Job], born' \in Nat,
         user' = 0 \/ user' > born,
         \A w \in Workers : job'[w] = job[w] \/ job'[w].pc \notin Using
  PROVE  Serving' = {}
<1> SUFFICES ASSUME NEW r \in Serving' PROVE FALSE
    OBVIOUS
<1>1. r \in Requests /\ job'[r].pc = "serving" /\ job'[r].for = user'
  BY DEF Serving, At, Mine
<1>2. r \in Workers /\ job'[r] = job[r]
  BY <1>1 DEF Workers, Using
<1>3. Fits(r, job[r]) /\ job[r].for \in 0..MaxUsers /\ born \in Nat
  BY <1>2, JobFacts
<1>4. job[r].for # 0 /\ job[r].for <= born
  BY <1>1, <1>2, <1>3 DEF Fits, Roles, Using
<1> QED BY <1>1, <1>2, <1>3, <1>4 DEF AccountInv, TypeOK

\* While there is no row, no call is under way for it.
LEMMA NobodyServesNobody ==
  ASSUME AccountInv, user = 0
  PROVE  Serving = {}
<1> SUFFICES ASSUME NEW r \in Serving PROVE FALSE
    OBVIOUS
<1>1. r \in Workers /\ job[r].pc = "serving" /\ job[r].for = 0
  BY DEF Serving, At, Mine, Workers
<1>2. Fits(r, job[r])
  BY <1>1, JobFacts
<1> QED BY <1>1, <1>2 DEF Fits, Roles, Using

\* A row is created for an identity that has none.
LEMMA CreateUserKeeps ==
  ASSUME AccountInv, NEW r \in Requests, CreateUser(r)
  PROVE  AccountInv'
<1>1. r \in Workers /\ r # Sweeper /\ ~At(r, "serving") /\ Ends(r)
  BY DEF CreateUser, At, Workers
<1>2. ClerkMoves \/ user' = born + 1
  BY ClerkStays DEF CreateUser, Clerk, Row
<1>3. MailKept /\ MailTyped
  BY MailStays DEF CreateUser
<1>4. CASE UNCHANGED Row
  <2>1. SameRow /\ ClerkMoves
    BY <1>4, RowStays, ClerkStays DEF CreateUser, Clerk, Row
  <2> QED BY <1>1, <1>3, <2>1, EndsStep
<1>5. CASE /\ user = 0 /\ born # MaxUsers
           /\ user' = born + 1 /\ born' = born + 1 /\ late' = ~identity /\ asked' = FALSE
  <2>1. born \in 0..MaxUsers /\ MaxUsers \in Nat
    BY BoundsAssumption DEF AccountInv, TypeOK
  <2>2. born' \in 0..MaxUsers /\ user' \in 0..MaxUsers
    BY <1>5, <2>1
  <2>3. UNCHANGED <<mix, identity, delivery, used, completed, served, built, letters, batch, pending>>
    BY DEF CreateUser, Clerk, Metered, Mail, Round
  <2>4. /\ job' \in [Workers -> Job]
        /\ \A w \in Workers : job'[w] = IF w = r THEN Idle ELSE job[w]
    BY <1>1, IdleTyped, JobStep DEF Ends
  <2>5. TypeOK'
    BY <1>5, <2>2, <2>3, <2>4 DEF AccountInv, TypeOK, Job
  <2>6. Rows'
    BY <1>5, <2>3 DEF AccountInv, TypeOK, Rows, RowsFollowTheIdentity
  <2>7. ASSUME NEW w \in Workers PROVE Fits(w, job[w])'
    <3>1. CASE w = r
      BY <2>1, <1>5, <2>4, <3>1, IdleTyped
      DEF Fits, Roles, Grounds, Opened, Room, Closing, Using, Erasing
    <3>2. CASE w # r
      <4>1. /\ job'[w] = job[w] /\ Fits(w, job[w]) /\ job[w].for \in 0..MaxUsers
            /\ job[w].for # user'
        BY <1>5, <2>1, <2>4, <3>2, JobFacts DEF Fits, Roles
      <4>2. Roles(w, job[w])'
        BY <1>5, <2>1, <4>1 DEF Fits, Roles
      <4>3. Grounds(job[w])'
        BY <1>5, <2>3, <4>1 DEF Fits, Grounds
      <4>4. Opened(job[w])'
        BY <2>3, <4>1 DEF Fits, Opened
      <4>5. Room(job[w])'
        BY <4>1 DEF Room
      <4> QED BY <4>2, <4>3, <4>4, <4>5 DEF Fits
    <3> QED BY <3>1, <3>2
  <2>8. Locks'
    BY <2>4, IdleTyped DEF AccountInv, Locks, Holding, Same, Workers
  <2>9. Counts'
    <3>1. Serving' = {}
      <4>1. user' > born /\ born' \in Nat
        BY <1>5, <2>1
      <4>2. \A w \in Workers : job'[w] = job[w] \/ job'[w].pc \notin Using
        BY <2>4, IdleTyped DEF Using
      <4> QED BY <2>4, <4>1, <4>2, NobodyServesAnother
    <3>2. served = used["call"] /\ served \in Nat
      <4>1. user = 0 /\ born \in Nat
        BY <1>5, <2>1
      <4>2. Serving = {}
        BY <4>1, NobodyServesNobody
      <4>3. served + Cardinality(Serving) = used["call"] /\ served \in Nat
        BY DEF AccountInv, TypeOK, Counts, WithinPlan
      <4> QED BY <4>2, <4>3, FS_EmptySet
    <3> QED BY <2>3, <3>1, <3>2, FS_EmptySet DEF AccountInv, Counts, WithinPlan
  <2>10. Apart(job[Sweeper])'
    BY <1>1, <2>3, <2>4, SweeperWorks DEF AccountInv, Apart
  <2> QED BY <2>5, <2>6, <2>7, <2>8, <2>9, <2>10 DEF AccountInv, Fit
<1> QED BY <1>4, <1>5 DEF CreateUser

\* What a job keeps when the row goes: nothing of it is of a row any more.
LEMMA PurgeKeeps ==
  ASSUME AccountInv, NEW w \in Workers, Purge(w)
  PROVE  AccountInv'
<1> USE DEF AccountInv
<1>1. /\ job[w].pc = "purging" /\ job[w].pc \in Closing /\ ~At(w, "serving")
      /\ job[w].kind \in {"profile", "webhook", "sweep"} /\ Fits(w, job[w])
  <2>1. Fits(w, job[w]) /\ job[w].pc = "purging"
    BY JobFacts DEF Purge, At
  <2>2. job[w].pc \in Closing
    BY <2>1 DEF Closing
  <2> QED BY <2>1, <2>2 DEF At, Fits, Roles
<1>2. MailMoves(w) /\ (w # Sweeper => MailKept)
  <2>1. CASE job[w].kind = "sweep"
    <3>1. w = Sweeper /\ pending \in SUBSET Changes
      BY <1>1, <2>1 DEF Fits, Roles, TypeOK
    <3>2. letters' = Written(pending) /\ pending' = {} /\ batch' = batch
      BY <2>1 DEF Purge, Commits
    <3>3. /\ letters' \in Seq(Letter) /\ DOMAIN letters' = DOMAIN letters
          /\ \A i \in DOMAIN letters : (\A c \in pending : c.letter # i) => letters'[i] = letters[i]
      BY <3>1, <3>2, WrittenLetters
    <3> QED BY <3>1, <3>2, <3>3 DEF MailMoves, MailTyped, TypeOK
  <2>2. CASE job[w].kind # "sweep"
    BY <2>2, MailStays, MailGoesOn DEF Purge, Commits
  <2> QED BY <2>1, <2>2
<1>10. w = Sweeper <=> job[w].kind = "sweep"
  BY <1>1 DEF Fits, Roles
<1>3. CASE user # job[w].for
  <2>1. SameRow
    BY <1>3, RowStays DEF Purge
  <2>2. CASE job[w].kind = "sweep"
    <3>1. ClerkMoves /\ Leaves(w, "resolving")
      BY <1>3, <2>2, ClerkStays DEF Purge, Done, Row
    <3> QED BY <1>1, <1>2, <2>1, <3>1, LeavesStep
  <2>3. CASE job[w].kind # "sweep"
    <3>1. Ends(w) /\ delivery' = (delivery /\ job[w].kind # "webhook") /\ identity' = identity
      BY <1>3, <2>3 DEF Purge, Done
    <3>2. job[w].kind = "webhook" /\ user # 0 => late
      BY <1>1, <1>3 DEF Fits, Grounds, Erasing
    <3>3. delivery' \in BOOLEAN /\ (delivery' <=> delivery /\ job[w].kind # "webhook")
      BY <3>1 DEF TypeOK
    <3>4. ClerkMoves
      BY <3>1, <3>2, <3>3 DEF ClerkMoves, TypeOK, Rows, RowsFollowTheIdentity
    <3> QED BY <1>1, <1>2, <1>10, <2>1, <2>3, <3>1, <3>4, EndsStep DEF MailMoves
  <2> QED BY <2>2, <2>3
<1>4. CASE user = job[w].for
  <2>1. /\ user' = 0 /\ asked' = FALSE /\ late' = FALSE /\ born' = born
        /\ used' = [k \in Resources |-> 0] /\ completed' = 0 /\ served' = 0 /\ built' = 0
        /\ mix' = mix /\ identity' = identity
    BY <1>4 DEF Purge
  <2>2. /\ delivery' \in BOOLEAN /\ (delivery' => delivery)
    BY <1>4 DEF Purge, Done, TypeOK
  <2>3. PICK j \in Job :
          /\ Becomes(w, j) /\ j.pc \in {"unlinking", "resolving", "idle"} /\ j.for = 0
          /\ (j.letter = job[w].letter \/ j.kind = "none")
          /\ j.kind \in {job[w].kind, "none"} /\ (j.kind = "none" <=> j.pc = "idle")
          /\ j.pc = "unlinking" => j.kind = "profile"
          /\ w = Sweeper => j.pc # "idle"
    <3>1. \A pc \in {"unlinking", "resolving"} :
            LET j == Doing(pc, job[w].kind, 0, job[w].letter, NoLetter) IN
            /\ j \in Job /\ j.pc = pc /\ j.for = 0
            /\ j.letter = job[w].letter /\ j.kind = job[w].kind
      <4> TAKE pc \in {"unlinking", "resolving"}
      <4>1. pc \in Pcs
        BY DEF Pcs
      <4>2. 0 \in 0..MaxUsers
        BY BoundsAssumption
      <4> QED BY <4>1, <4>2, JobFacts, JobTyped, NoLetterTyped
    <3>2. CASE job[w].kind = "profile" /\ Leaves(w, "unlinking")
      BY <1>1, <1>10, <3>1, <3>2 DEF Leaves
    <3>3. CASE Leaves(w, "resolving")
      BY <1>1, <3>1, <3>3 DEF Leaves
    <3>4. CASE job[w].kind # "sweep" /\ Ends(w)
      BY <1>10, <3>4, IdleTyped DEF Ends
    <3> QED BY <1>4, <3>2, <3>3, <3>4 DEF Purge, Done
  <2>4. /\ job' \in [Workers -> Job]
        /\ \A v \in Workers : job'[v] = IF v = w THEN j ELSE job[v]
    BY <2>3, JobStep
  <2>5. TypeOK'
    <3>1. used' \in [Resources -> Nat]
      BY <2>1
    <3>2. user' \in 0..MaxUsers
      BY <2>1, BoundsAssumption
    <3> QED BY <1>2, <2>1, <2>2, <2>4, <3>1, <3>2 DEF TypeOK, Job, MailMoves, MailTyped
  <2>6. Rows'
    BY <2>1, <2>2 DEF Rows, RowsFollowTheIdentity
  <2>7. ASSUME NEW v \in Workers PROVE Fits(v, job[v])'
    <3>1. born \in Nat /\ 0 <= born
      BY JobFacts
    <3>2. Fits(v, job[v]) /\ job[v].for \in 0..MaxUsers
      BY JobFacts
    <3>3. Roles(v, job[v])'
      BY <1>1, <2>1, <2>3, <2>4, <3>1, <3>2 DEF Fits, Roles, Closing, Using, Erasing
    <3>4. Grounds(job[v])'
      BY <1>1, <2>1, <2>3, <2>4, <3>2 DEF Fits, Roles, Grounds, Erasing
    <3>5. Opened(job[v])'
      <4>1. CASE v = w
        <5>1. /\ job[w].kind = "sweep" =>
                   job[w].letter[1] \in DOMAIN letters' /\ letters'[job[w].letter[1]].open
          BY <1>1, <1>2, StaysOpen DEF InHand
        <5> QED BY <1>1, <2>3, <2>4, <4>1, <5>1 DEF Opened
      <4>2. CASE v # w
        <5>1. CASE w = Sweeper
          BY <2>4, <3>2, <4>2, <5>1 DEF Fits, Roles, Opened
        <5>2. CASE w # Sweeper
          BY <1>2, <2>4, <3>2, <4>2, <5>2 DEF Fits, Opened, MailKept, LettersKept
        <5> QED BY <5>1, <5>2
      <4> QED BY <4>1, <4>2
    <3>6. Room(job[v])'
      BY <2>1, <2>3, <2>4, <3>2 DEF Fits, Roles, Room, Using
    <3> QED BY <3>3, <3>4, <3>5, <3>6 DEF Fits
  <2>8. Locks'
    BY <2>3, <2>4 DEF Locks, Holding, Same, Workers
  <2>9. Counts'
    <3>1. Serving' = {}
      <4>1. \A v \in Workers : job'[v] = job[v] \/ job'[v].pc \notin Using
        BY <2>3, <2>4 DEF Using
      <4>2. born' \in Nat
        BY <2>1, JobFacts
      <4> QED BY <2>1, <2>4, <4>1, <4>2, NobodyServesAnother
    <3> QED BY <2>1, <3>1, FS_EmptySet, AllowanceAssumption DEF Counts, WithinPlan, Resources
  <2>10. Apart(job[Sweeper])'
    <3>1. CASE w = Sweeper
      <4>1. ApartNext(j)
        BY <1>1, <1>2, <1>10, <2>3, <3>1, StaysApart DEF InHand
      <4> QED BY <2>4, <3>1, <4>1, SweeperWorks DEF Apart, ApartNext
    <3>2. CASE w # Sweeper
      BY <1>2, <2>4, <3>2, SweeperWorks DEF Apart, MailKept, LettersKept, Round
    <3> QED BY <3>1, <3>2
  <2> QED BY <2>5, <2>6, <2>7, <2>8, <2>9, <2>10 DEF Fit
<1> QED BY <1>3, <1>4
-----------------------------------------------------------------------------
(* Steps that count, carry out or give back.                               *)

\* A step that counts keeps the invariant if each resource keeps its room.
LEMMA MeterStep ==
  ASSUME AccountInv, NEW w \in Workers, NEW j \in Job, Becomes(w, j),
         UNCHANGED <<Clerk, Row, Mail>>, w = Sweeper => j = job[Sweeper],
         used' \in [Resources -> Nat], completed' \in Nat, served' \in Nat, built' \in Nat,
         Roles(w, j), Grounds(j), Opened(j), ~Holding(j),
         \A v \in Workers \ {w} : job[v].pc = "counted" /\ job[v].for = user =>
            used'[job[v].kind] < Allowance[job[v].kind]
                                 + (IF job[v].kind = "tree" THEN built' ELSE 0),
         Counts'
  PROVE  AccountInv'
<1> USE DEF AccountInv, Clerk, Row, Mail, Round
<1>1. job' \in [Workers -> Job] /\ \A v \in Workers : job'[v] = IF v = w THEN j ELSE job[v]
  BY JobStep
<1>2. TypeOK'
  BY <1>1 DEF TypeOK, Job
<1>3. Rows'
  BY DEF Rows, RowsFollowTheIdentity
<1>4. ASSUME NEW v \in Workers PROVE Fits(v, job[v])'
  <2>1. CASE v = w
    BY <1>1, <2>1 DEF Fits, Roles, Grounds, Opened, Room, Holding
  <2>2. CASE v # w
    <3>1. Fits(v, job[v]) /\ job'[v] = job[v]
      BY <1>1, <2>2 DEF Fit
    <3>2. Room(job[v])'
      BY <2>2, <3>1 DEF Room
    <3> QED BY <3>1, <3>2 DEF Fits, Roles, Grounds, Opened
  <2> QED BY <2>1, <2>2
<1>5. Locks'
  BY <1>1 DEF Locks, Holding, Same, Workers
<1>6. Apart(job[Sweeper])'
  BY <1>1, SweeperWorks DEF Apart
<1> QED BY <1>2, <1>3, <1>4, <1>5, <1>6 DEF Fit

\* What is known of the counts before a step.
LEMMA CountFacts ==
  ASSUME AccountInv
  PROVE  /\ used \in [Resources -> Nat] /\ completed \in Nat /\ served \in Nat /\ built \in Nat
         /\ used["call"] \in Nat /\ used["tree"] \in Nat /\ used["wizard"] \in Nat
         /\ Allowance["call"] \in Nat /\ Allowance["tree"] \in Nat /\ Allowance["wizard"] \in Nat
         /\ used["call"] <= Allowance["call"] /\ used["wizard"] <= Allowance["wizard"]
         /\ used["tree"] <= Allowance["tree"] + built
         /\ IsFiniteSet(Serving) /\ Cardinality(Serving) \in Nat
         /\ served + Cardinality(Serving) = used["call"]
<1>1. IsFiniteSet(Serving) /\ WithinPlan /\ TypeOK
  BY DEF AccountInv, Counts
<1>2. Cardinality(Serving) \in Nat
  BY <1>1, FS_CardinalityType
<1> QED BY <1>1, <1>2, AllowanceAssumption DEF TypeOK, WithinPlan, Resources

\* While counts only fall, or trees come with a build, all the room that was
\* counted is still there.
LEMMA RoomStays ==
  ASSUME AccountInv, built' \in Nat, used' \in [Resources -> Nat],
         built <= built', \A k \in Resources :
           used'[k] <= used[k] + (IF k = "tree" THEN built' - built ELSE 0),
         NEW v \in Workers, job[v].pc = "counted", job[v].for = user
  PROVE  used'[job[v].kind] < Allowance[job[v].kind]
                              + (IF job[v].kind = "tree" THEN built' ELSE 0)
<1> DEFINE k == job[v].kind
<1>1. Fits(v, job[v])
  BY JobFacts
<1>2. k \in Resources /\ used[k] < Allowance[k] + (IF k = "tree" THEN built ELSE 0)
  BY <1>1 DEF Fits, Roles, Room, Using
<1>3. used[k] \in Nat /\ used'[k] \in Nat /\ Allowance[k] \in Nat /\ built \in Nat
  BY <1>2, CountFacts, AllowanceAssumption
<1>4. used'[k] <= used[k] + (IF k = "tree" THEN built' - built ELSE 0)
  BY <1>2
<1> HIDE DEF k
<1>5. used'[k] < Allowance[k] + (IF k = "tree" THEN built' ELSE 0)
  BY <1>2, <1>3, <1>4
<1> QED BY <1>5 DEF k

\* What was found to fit is counted, under the lock.
LEMMA SpendKeeps ==
  ASSUME AccountInv, NEW r \in Requests, Spend(r)
  PROVE  AccountInv'
<1>1. r \in Workers /\ job[r].pc = "counted" /\ ~At(r, "serving") /\ r # Sweeper
  BY DEF Spend, At, Workers
<1>2. CASE ~Mine(r)
  <2>1. SameRow /\ ClerkMoves /\ MailKept /\ MailTyped
    <3>1. UNCHANGED <<mix, Row, Metered, Clerk, Mail>>
      BY <1>2 DEF Spend, Metered, Clerk
    <3> QED BY <3>1, RowStays, ClerkStays, MailStays DEF Clerk, Row
  <2> QED BY <1>1, <1>2, <2>1, EndsStep DEF Spend
<1>3. CASE Mine(r)
  <2> DEFINE k == job[r].kind
  <2>1. Fits(r, job[r])
    BY <1>1, JobFacts
  <2>2. /\ k \in Resources /\ job[r].for # 0 /\ job[r].for = user
        /\ used[k] < Allowance[k] + (IF k = "tree" THEN built ELSE 0)
    BY <1>1, <1>3, <2>1 DEF Fits, Roles, Room, Using, Mine
  <2>3. /\ used' = [used EXCEPT ![k] = used[k] + 1]
        /\ UNCHANGED <<Clerk, Row, Mail, completed, served, built>>
    BY <1>3 DEF Spend
  <2>4. \A i \in Resources : used[i] \in Nat
    BY CountFacts
  <2>5. /\ used' \in [Resources -> Nat]
        /\ \A i \in Resources : used'[i] = IF i = k THEN used[k] + 1 ELSE used[i]
    BY <2>2, <2>3, <2>4, CountFacts
  <2>6. ASSUME NEW v \in Workers \ {r}, job[v].pc = "counted", job[v].for = user
        PROVE  used'[job[v].kind] < Allowance[job[v].kind]
                                    + (IF job[v].kind = "tree" THEN built' ELSE 0)
    <3>1. Fits(v, job[v])
      BY JobFacts
    <3>2. job[v].kind \in Resources /\ v \in Requests
      BY <2>6, <3>1 DEF Fits, Roles, Using, Workers, Resources
    <3>3. job[v].kind # k
      BY <1>1, <2>2, <2>6, <3>2 DEF AccountInv, Locks, Holding, Same
    <3>4. used'[job[v].kind] = used[job[v].kind]
      BY <2>5, <3>2, <3>3
    <3> QED BY <2>3, <2>6, <3>1, <3>4 DEF Fits, Room
  <2>7. CASE k = "call"
    <3> DEFINE j == Doing("serving", k, job[r].for, job[r].letter, NoLetter)
    <3>1. "serving" \in Pcs
      BY DEF Pcs
    <3>2. /\ j \in Job /\ j.pc = "serving" /\ j.kind = k /\ j.for = user
          /\ j.letter = job[r].letter
      BY <1>1, <2>2, <3>1, JobFacts, JobTyped, NoLetterTyped
    <3>3. Becomes(r, j)
      BY <1>3, <2>7 DEF Spend, Moves
    <3> HIDE DEF j
    <3>4. Roles(r, j) /\ Grounds(j) /\ Opened(j) /\ ~Holding(j)
      BY <1>1, <2>1, <2>2, <2>7, <3>2
      DEF Fits, Roles, Grounds, Opened, Holding, Using, Erasing, Closing
    <3>5. Serving' = Serving \cup {r} /\ r \notin Serving
      BY <1>1, <2>3, <3>2, <3>3, JobStep DEF Serving, At, Mine, Workers, Row
    <3>6. Counts'
      <4>1. IsFiniteSet(Serving') /\ Cardinality(Serving') = Cardinality(Serving) + 1
        BY <3>5, CountFacts, FS_AddElement
      <4>2. used'["call"] = used["call"] + 1 /\ used["call"] < Allowance["call"]
        BY <2>2, <2>5, <2>7, CountFacts DEF Resources
      <4>3. used'["tree"] = used["tree"] /\ used'["wizard"] = used["wizard"]
        BY <2>5, <2>7 DEF Resources
      <4> QED BY <2>3, <4>1, <4>2, <4>3, CountFacts DEF Counts, WithinPlan
    <3> QED BY <1>1, <2>3, <2>5, <2>6, <3>2, <3>3, <3>4, <3>6, CountFacts, MeterStep
  <2>8. CASE k # "call"
    <3>1. Becomes(r, Idle)
      BY <1>3, <2>8 DEF Spend, Ends
    <3>2. Roles(r, Idle) /\ Grounds(Idle) /\ Opened(Idle) /\ ~Holding(Idle)
      BY <1>1, IdleTyped, JobFacts DEF Roles, Grounds, Opened, Holding, Using, Erasing, Closing
    <3>3. Serving' = Serving
      BY <1>1, <2>3, <3>1, IdleTyped, JobStep DEF Serving, At, Mine, Workers, Row
    <3>4. Counts'
      <4>1. used'["call"] = used["call"]
        BY <2>5, <2>8 DEF Resources
      <4>2. used'["wizard"] <= Allowance["wizard"] /\ used'["tree"] <= Allowance["tree"] + built
        BY <2>2, <2>5, CountFacts DEF Resources
      <4> QED BY <2>3, <3>3, <4>1, <4>2, CountFacts DEF Counts, WithinPlan
    <3> QED BY <1>1, <2>3, <2>5, <2>6, <3>1, <3>2, <3>4, IdleTyped, CountFacts, MeterStep
  <2> QED BY <2>7, <2>8
<1> QED BY <1>2, <1>3
\* Having nothing to do needs no grounds.
LEMMA IdleFits ==
  ASSUME AccountInv, NEW w \in Workers
  PROVE  Idle \in Job /\ Roles(w, Idle) /\ Grounds(Idle) /\ Opened(Idle) /\ ~Holding(Idle)
BY IdleTyped, JobFacts DEF Roles, Grounds, Opened, Holding, Using, Erasing, Closing

\* A call is answered.
LEMMA AnswerKeeps ==
  ASSUME AccountInv, NEW r \in Requests, Answer(r)
  PROVE  AccountInv'
<1>1. /\ r \in Workers /\ r # Sweeper /\ Becomes(r, Idle) /\ job[r].pc = "serving"
      /\ UNCHANGED <<Clerk, Row, Mail>> /\ built' = built /\ completed' = completed
  BY DEF Answer, At, Workers, Ends, Metered
<1>2. job' \in [Workers -> Job] /\ \A v \in Workers : job'[v] = IF v = r THEN Idle ELSE job[v]
  BY <1>1, IdleTyped, JobStep
<1>3. Serving' = Serving \ {r}
  BY <1>1, <1>2, IdleTyped DEF Serving, At, Mine, Workers, Row
<1>4. IsFiniteSet(Serving') /\ Cardinality(Serving') \in Nat
  BY <1>3, CountFacts, FS_RemoveElement, FS_CardinalityType
<1>5. Cardinality(Serving') = Cardinality(Serving) - (IF Mine(r) THEN 1 ELSE 0)
  <2>1. r \in Serving <=> Mine(r)
    BY <1>1 DEF Serving, At
  <2>2. Cardinality(Serving \ {r}) = IF r \in Serving THEN Cardinality(Serving) - 1
                                                      ELSE Cardinality(Serving)
    BY CountFacts, FS_RemoveElement
  <2>3. Cardinality(Serving) \in Nat
    BY CountFacts
  <2> QED BY <1>3, <2>1, <2>2, <2>3
<1>6. /\ used' \in [Resources -> Nat] /\ served' \in Nat
      /\ \A k \in Resources : used'[k] <= used[k]
      /\ served' + Cardinality(Serving') = used'["call"]
  <2>1. \A k \in Resources : used[k] \in Nat
    BY CountFacts
  <2>2. CASE Mine(r) /\ served' = served + 1 /\ used' = used
    BY <1>4, <1>5, <2>1, <2>2, CountFacts
  <2>3. CASE Mine(r) /\ used' = [used EXCEPT !["call"] = @ - 1] /\ served' = served
    <3>1. used["call"] - 1 \in Nat
      BY <1>4, <1>5, <2>3, CountFacts
    <3>2. \A k \in Resources : used'[k] = IF k = "call" THEN used["call"] - 1 ELSE used[k]
      BY <2>3, CountFacts
    <3>3. "call" \in Resources
      BY DEF Resources
    <3>4. used' \in [Resources -> Nat]
      BY <2>1, <2>3, <3>1, CountFacts
    <3> QED BY <1>4, <1>5, <2>1, <2>3, <3>1, <3>2, <3>3, <3>4, CountFacts
  <2>4. CASE ~Mine(r) /\ UNCHANGED Metered
    BY <1>4, <1>5, <2>1, <2>4, CountFacts DEF Metered
  <2> QED BY <2>2, <2>3, <2>4 DEF Answer
<1>7. Counts'
  <2>1. /\ used'["call"] <= used["call"] /\ used'["tree"] <= used["tree"]
        /\ used'["wizard"] <= used["wizard"]
        /\ used'["call"] \in Nat /\ used'["tree"] \in Nat /\ used'["wizard"] \in Nat
    BY <1>6 DEF Resources
  <2> QED BY <1>1, <1>4, <1>6, <2>1, CountFacts DEF Counts, WithinPlan
<1>8. ASSUME NEW v \in Workers \ {r}, job[v].pc = "counted", job[v].for = user
      PROVE  used'[job[v].kind] < Allowance[job[v].kind]
                                  + (IF job[v].kind = "tree" THEN built' ELSE 0)
  <2>1. /\ built' \in Nat /\ built <= built'
        /\ \A k \in Resources : used'[k] <= used[k] + (IF k = "tree" THEN built' - built ELSE 0)
    <3>1. \A k \in Resources : used[k] \in Nat /\ used'[k] \in Nat
      BY <1>6, CountFacts
    <3> QED BY <1>1, <1>6, <3>1, CountFacts
  <2> QED BY <1>6, <1>8, <2>1, RoomStays
<1> QED BY <1>1, <1>6, <1>7, <1>8, CountFacts, IdleFits, MeterStep

\* The counts of calls and wizards stand still or fall, and trees come with
\* builds: what was within the plan stays within it.
LEMMA GivesBackStep ==
  ASSUME AccountInv, NEW w \in Workers, NEW j \in Job, Becomes(w, j),
         UNCHANGED <<Clerk, Row, Mail, served>>, completed' \in Nat, w = Sweeper => j = job[Sweeper],
         ~At(w, "serving"), j.pc # "serving", Roles(w, j), Grounds(j), Opened(j), ~Holding(j),
         used' \in [Resources -> Nat], built' \in Nat, built <= built',
         used'["call"] = used["call"], used'["wizard"] <= used["wizard"],
         used'["tree"] <= used["tree"] + (built' - built)
  PROVE  AccountInv'
<1>1. job' \in [Workers -> Job] /\ \A v \in Workers : job'[v] = IF v = w THEN j ELSE job[v]
  BY JobStep
<1>2. Serving' = Serving
  BY <1>1 DEF Serving, At, Mine, Workers, Row
<1>3. used'["wizard"] \in Nat /\ used'["tree"] \in Nat
  BY DEF Resources
<1>4. Counts'
  BY <1>2, <1>3, CountFacts DEF Counts, WithinPlan
<1>5. \A k \in Resources : used'[k] <= used[k] + (IF k = "tree" THEN built' - built ELSE 0)
  <2>1. \A k \in Resources : k = "call" \/ k = "tree" \/ k = "wizard"
    BY DEF Resources
  <2> QED BY <1>3, <2>1, CountFacts
<1>6. ASSUME NEW v \in Workers \ {w}, job[v].pc = "counted", job[v].for = user
      PROVE  used'[job[v].kind] < Allowance[job[v].kind]
                                  + (IF job[v].kind = "tree" THEN built' ELSE 0)
  BY <1>5, <1>6, RoomStays
<1> QED BY <1>4, <1>6, CountFacts, MeterStep

\* A build saves its tree without a reservation.
LEMMA BuildSaveKeeps ==
  ASSUME AccountInv, NEW r \in Requests, BuildSave(r)
  PROVE  AccountInv'
<1>1. r \in Workers /\ r # Sweeper /\ job[r].pc = "building" /\ ~At(r, "serving")
  BY DEF BuildSave, At, Workers
<1>2. CASE ~Mine(r)
  <2>1. Becomes(r, Idle) /\ UNCHANGED <<Clerk, Row, Mail, completed, served, used, built>>
    BY <1>2 DEF BuildSave, Ends
  <2>2. Idle.pc # "serving"
    BY IdleTyped
  <2> QED BY <1>1, <2>1, <2>2, IdleFits, CountFacts, GivesBackStep
<1>3. CASE Mine(r)
  <2> DEFINE j == Doing("built", job[r].kind, job[r].for, job[r].letter, NoLetter)
  <2>1. "built" \in Pcs
    BY DEF Pcs
  <2>2. /\ j \in Job /\ j.pc = "built" /\ j.kind = job[r].kind /\ j.for = job[r].for
        /\ j.letter = job[r].letter
    BY <1>1, <2>1, JobFacts, JobTyped, NoLetterTyped
  <2>3. Becomes(r, j) /\ UNCHANGED <<Clerk, Row, Mail, completed, served>> /\ built' = built + 1
    BY <1>3 DEF BuildSave, Moves
  <2> HIDE DEF j
  <2>4. Roles(r, j) /\ Grounds(j) /\ Opened(j) /\ ~Holding(j) /\ j.pc # "serving"
    <3>1. Fits(r, job[r])
      BY <1>1, JobFacts
    <3> QED BY <1>1, <2>2, <3>1
        DEF Fits, Roles, Grounds, Opened, Holding, Using, Erasing, Closing
  <2>5. used' = [used EXCEPT !["tree"] = @ + 1]
    BY <1>3 DEF BuildSave
  <2>6. /\ used' \in [Resources -> Nat] /\ used'["tree"] = used["tree"] + 1
        /\ used'["call"] = used["call"] /\ used'["wizard"] = used["wizard"]
    BY <2>5, CountFacts DEF Resources
  <2> QED BY <1>1, <2>2, <2>3, <2>4, <2>6, CountFacts, GivesBackStep
<1> QED BY <1>2, <1>3

\* It records its completion.
LEMMA BuildRecordKeeps ==
  ASSUME AccountInv, NEW r \in Requests, BuildRecord(r)
  PROVE  AccountInv'
<1>1. /\ r \in Workers /\ r # Sweeper /\ job[r].pc = "built" /\ ~At(r, "serving")
      /\ UNCHANGED <<Clerk, Row, Mail, used, served, built>>
  BY DEF BuildRecord, At, Workers
<1> DEFINE j == Doing("recorded", job[r].kind, job[r].for, job[r].letter, NoLetter)
<1>2. "recorded" \in Pcs
  BY DEF Pcs
<1>3. /\ j \in Job /\ j.pc = "recorded" /\ j.kind = job[r].kind /\ j.for = job[r].for
      /\ j.letter = job[r].letter
  BY <1>1, <1>2, JobFacts, JobTyped, NoLetterTyped
<1>4. Becomes(r, j)
  BY DEF BuildRecord, Moves
<1> HIDE DEF j
<1>5. Roles(r, j) /\ Grounds(j) /\ Opened(j) /\ ~Holding(j) /\ j.pc # "serving"
  <2>1. Fits(r, job[r])
    BY <1>1, JobFacts
  <2> QED BY <1>1, <1>3, <2>1
      DEF Fits, Roles, Grounds, Opened, Holding, Using, Erasing, Closing
<1>6. completed' \in Nat
  BY CountFacts DEF BuildRecord
<1> QED BY <1>1, <1>3, <1>4, <1>5, <1>6, CountFacts, GivesBackStep

\* A build ends.
LEMMA BuildEndKeeps ==
  ASSUME AccountInv, NEW r \in Requests, BuildEnd(r)
  PROVE  AccountInv'
<1>1. /\ r \in Workers /\ r # Sweeper /\ ~At(r, "serving") /\ Becomes(r, Idle)
      /\ UNCHANGED <<Clerk, Row, Mail, completed, served, built>>
  BY DEF BuildEnd, At, Workers, Ends
<1>2. Idle.pc # "serving"
  BY IdleTyped
<1>3. /\ used' \in [Resources -> Nat] /\ used'["tree"] = used["tree"]
      /\ used'["call"] = used["call"] /\ used'["wizard"] <= used["wizard"]
  <2>1. CASE used["wizard"] > 0 /\ used' = [used EXCEPT !["wizard"] = @ - 1]
    BY <2>1, CountFacts DEF Resources
  <2>2. CASE UNCHANGED used
    BY <2>2, CountFacts
  <2> QED BY <2>1, <2>2 DEF BuildEnd
<1> QED BY <1>1, <1>2, <1>3, IdleFits, CountFacts, GivesBackStep

\* A worker that does nothing in a step of somebody else.
LEMMA SweeperIsOutside ==
  ASSUME AccountInv, job' = job
  PROVE  /\ Becomes(Sweeper, job[Sweeper]) /\ job[Sweeper] \in Job
         /\ Fits(Sweeper, job[Sweeper]) /\ job[Sweeper].pc # "serving"
         /\ ~Holding(job[Sweeper])
<1>1. job[Sweeper] \in Job /\ Fits(Sweeper, job[Sweeper])
  BY JobFacts, SweeperWorks
<1>2. Becomes(Sweeper, job[Sweeper])
  BY SweeperWorks DEF AccountInv, TypeOK, Becomes
<1>3. job[Sweeper].pc \notin Using
  BY <1>1 DEF Fits, Roles, Using, Resources
<1> QED BY <1>1, <1>2, <1>3 DEF Holding, Using

\* A tree is deleted and its place given back.
LEMMA DeleteKeeps == AccountInv /\ Delete => AccountInv'
<1> SUFFICES ASSUME AccountInv, Delete PROVE AccountInv'
    OBVIOUS
<1>1. UNCHANGED <<Clerk, Row, Mail, completed, served, built>> /\ job' = job
  BY DEF Delete
<1>2. /\ used' \in [Resources -> Nat] /\ used'["tree"] <= used["tree"]
      /\ used'["call"] = used["call"] /\ used'["wizard"] <= used["wizard"]
  <2>1. PICK k \in {"tree", "wizard"} : used[k] > 0 /\ used' = [used EXCEPT ![k] = used[k] - 1]
    BY DEF Delete
  <2>2. CASE k = "tree"
    BY <2>1, <2>2, CountFacts DEF Resources
  <2>3. CASE k = "wizard"
    BY <2>1, <2>3, CountFacts DEF Resources
  <2> QED BY <2>1, <2>2, <2>3
<1> QED BY <1>1, <1>2, SweeperIsOutside, SweeperWorks, CountFacts, GivesBackStep DEF Fits, At

\* The identity goes on Clerk's side.
LEMMA RemoveIdentityKeeps == AccountInv /\ RemoveIdentity => AccountInv'
<1> SUFFICES ASSUME AccountInv, RemoveIdentity PROVE AccountInv'
    OBVIOUS
<1>1. SameRow /\ MailKept /\ MailTyped /\ job' = job
  BY RowStays, MailStays DEF RemoveIdentity
<1>2. ClerkMoves
  BY DEF RemoveIdentity, ClerkMoves
<1> DEFINE j == job[Sweeper]
<1>3. /\ Becomes(Sweeper, j) /\ j \in Job /\ Fits(Sweeper, j) /\ j.pc # "serving" /\ ~Holding(j)
  BY <1>1, SweeperIsOutside
<1>4. Grounded(j)
  BY <1>1, <1>3 DEF Fits, Grounds, Opened, Grounded, Erasing, SameRow, MailKept, LettersKept
<1>5. Alone(Sweeper, j) /\ ~At(Sweeper, "serving")
  BY <1>3 DEF Alone, At
<1>6. ApartNext(j)
  BY <1>1 DEF AccountInv, Apart, ApartNext, MailKept, LettersKept, Round
<1> QED BY <1>1, <1>2, <1>3, <1>4, <1>5, <1>6, SweeperWorks, QuietStep DEF Fits

\* A restart leaves every worker idle.
LEMMA RestartKeeps == AccountInv /\ Restart => AccountInv'
<1> SUFFICES ASSUME AccountInv, Restart PROVE AccountInv'
    OBVIOUS
<1> USE DEF AccountInv
<1>1. /\ UNCHANGED <<mix, identity, delivery, user, born, asked, late, used, completed, built, letters>>
      /\ batch' = {} /\ pending' = {} /\ served' = served + Cardinality(Serving)
  BY DEF Restart, Clerk, Row
<1>2. job' \in [Workers -> Job] /\ \A w \in Workers : job'[w] = Idle
  BY IdleTyped DEF Restart
<1>3. TypeOK'
  BY <1>1, <1>2, CountFacts DEF TypeOK, Job
<1>4. Rows'
  BY <1>1 DEF Rows, RowsFollowTheIdentity
<1>5. Fit'
  <2>1. born \in Nat /\ 0 <= born
    BY DEF TypeOK
  <2> QED BY <1>1, <1>2, <2>1, IdleTyped
      DEF Fit, Fits, Roles, Grounds, Opened, Room, Closing, Using, Erasing
<1>6. Locks'
  BY <1>2, IdleTyped DEF Locks, Holding, Workers
<1>7. Serving' = {}
  BY <1>2, IdleTyped DEF Serving, At, Workers
<1>8. Counts'
  BY <1>1, <1>7, CountFacts, FS_EmptySet DEF Counts, WithinPlan
<1>9. Apart(job[Sweeper])'
  BY <1>1, <1>2, IdleTyped, SweeperWorks DEF Apart, InHand, Closing
<1> QED BY <1>3, <1>4, <1>5, <1>6, <1>8, <1>9
-----------------------------------------------------------------------------
\* Every step keeps the invariant.
LEMMA NextKeeps == AccountInv /\ [Next]_vars => AccountInv'
<1> SUFFICES ASSUME AccountInv, [Next]_vars PROVE AccountInv'
    OBVIOUS
<1>1. ASSUME NEW r \in Requests, SignIn(r) \/ Ask(r) \/ Quota(r) \/ Build(r)
      PROVE  AccountInv'
  <2>1. CASE SignIn(r)
    BY <2>1, FetchProfileKeeps, CreateUserKeeps DEF SignIn
  <2>2. CASE Ask(r)
    BY <2>2, ProfileDeleteKeeps, WebhookKeeps DEF Ask
  <2>3. CASE Quota(r)
    BY <2>3, ReserveKeeps, LockPlanKeeps, CheckPlanKeeps, SpendKeeps, AnswerKeeps DEF Quota
  <2>4. CASE Build(r)
    BY <2>4, BuildStartKeeps, BuildSaveKeeps, BuildRecordKeeps, BuildEndKeeps DEF Build
  <2> QED BY <1>1, <2>1, <2>2, <2>3, <2>4
<1>2. ASSUME NEW w \in Workers, Deletes(w) \/ Unlink(w) \/ UnlinkFails(w) \/ RecordFails(w)
      PROVE  AccountInv'
  <2>1. CASE Deletes(w)
    BY <2>1, TryLockKeeps, PurgeKeeps, PurgeFailsKeeps, RecordReadKeeps, RecordWriteKeeps
    DEF Deletes
  <2> QED BY <1>2, <2>1, UnlinkKeeps, UnlinkFailsKeeps, RecordFailsKeeps
<1>3. CASE Sweep \/ SweepAborts
  BY <1>3, SweepStartKeeps, SweepNextKeeps, SweepEndKeeps, SweepAbortsKeeps DEF Sweep
<1>4. CASE RemoveIdentity \/ Delete \/ Restart
  BY <1>4, RemoveIdentityKeeps, DeleteKeeps, RestartKeeps
<1>5. CASE UNCHANGED vars
  BY <1>5 DEF vars, AccountInv, TypeOK, Rows, RowsFollowTheIdentity, Fit, Fits, Roles, Grounds,
     Opened, Room, Locks, Counts, WithinPlan, Serving, At, Mine, Apart, Round
<1> QED BY <1>1, <1>2, <1>3, <1>4, <1>5 DEF Next

\* So the invariant always holds.
LEMMA AccountInvariant == Spec => []AccountInv
<1> QED BY InitInv, NextKeeps, PTL DEF Spec

\* The rows and the workers stay well formed.
THEOREM AccountIsWellFormed == Spec => []TypeOK
<1>1. AccountInv => TypeOK
  BY DEF AccountInv
<1> QED BY <1>1, AccountInvariant, PTL

\* However many requests reserve, build, delete and crash at once, and whatever
\* the plan allows, the allowance of calls and wizards is never exceeded and
\* every call under way, carried out or broken off counts, and counts once.
THEOREM PlanHolds == Spec => []WithinPlan
<1>1. AccountInv => WithinPlan
  BY DEF AccountInv, Counts
<1> QED BY <1>1, AccountInvariant, PTL

\* A row without its identity is owed a webhook, or was created too late.
THEOREM NoRowIsForgotten == Spec => []RowsFollowTheIdentity
<1>1. AccountInv => RowsFollowTheIdentity
  BY DEF AccountInv, Rows
<1> QED BY <1>1, AccountInvariant, PTL
\* Nothing but a purge takes a row away.
LEMMA OnlyPurgeErases ==
  ASSUME AccountInv, Next, user # 0, user' = 0
  PROVE  \E w \in Workers : Purge(w)
<1>1. ASSUME NEW r \in Requests, SignIn(r) PROVE FALSE
  BY <1>1 DEF SignIn, FetchProfile, CreateUser, Row
<1>2. ASSUME NEW r \in Requests, Ask(r) \/ Quota(r) \/ Build(r) PROVE FALSE
  BY <1>2 DEF Ask, ProfileDelete, Webhook, Quota, Reserve, LockPlan, CheckPlan, Spend, Answer,
     Build, BuildStart, BuildSave, BuildRecord, BuildEnd, Row
<1>3. ASSUME NEW w \in Workers, Deletes(w) \/ Unlink(w) \/ UnlinkFails(w) \/ RecordFails(w),
             ~Purge(w)
      PROVE  FALSE
  BY <1>3 DEF Deletes, TryLock, PurgeFails, Unlink, UnlinkFails, RecordRead, RecordWrite,
     RecordFails, Row
<1>4. ~Sweep /\ ~SweepAborts /\ ~RemoveIdentity /\ ~Delete /\ ~Restart
  BY DEF Sweep, SweepStart, SweepNext, SweepEnd, SweepAborts, RemoveIdentity, Delete, Restart, Row
<1> QED BY <1>1, <1>2, <1>3, <1>4 DEF Next

\* A row is purged at its owner's word, after its identity, or for an open dead
\* letter, whoever overlaps with whom.
THEOREM EveryPurgeIsOwed == Spec => PurgesAreOwed
<1> DEFINE Owed == user # 0 /\ user' = 0 =>
             \/ asked
             \/ ~identity
             \/ At(Sweeper, "purging") /\ letters[job[Sweeper].letter[1]].open
<1>1. AccountInv /\ [Next]_vars => [Owed]_vars
  <2> SUFFICES ASSUME AccountInv, Next, user # 0, user' = 0
               PROVE  Owed
      OBVIOUS
  <2>1. PICK w \in Workers : Purge(w)
    BY OnlyPurgeErases
  <2>2. job[w].pc = "purging" /\ job[w].for = user
    BY <2>1 DEF Purge, At, Row
  <2>3. Fits(w, job[w])
    BY JobFacts
  <2>4. job[w].kind \in {"profile", "webhook", "sweep"}
    BY <2>2, <2>3 DEF Fits, Roles, Closing
  <2>5. CASE job[w].kind = "profile"
    BY <2>2, <2>3, <2>5 DEF Fits, Grounds, Erasing
  <2>6. CASE job[w].kind = "webhook"
    BY <2>3, <2>6 DEF Fits, Grounds
  <2>7. CASE job[w].kind = "sweep"
    BY <2>2, <2>3, <2>7 DEF Fits, Roles, Opened, InHand, Closing, At
  <2> QED BY <2>4, <2>5, <2>6, <2>7
<1> QED BY <1>1, AccountInvariant, PTL DEF Spec, PurgesAreOwed
=============================================================================
