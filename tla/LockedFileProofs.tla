-------------------------- MODULE LockedFileProofs --------------------------
(* Theorems about LockedFile, for any sets of writers and readers.         *)
EXTENDS LockedFileImplements, TLAPS

-----------------------------------------------------------------------------
(* Types *)

LEMMA TypeInit == Init => TypeOK
  <1> SUFFICES ASSUME Init PROVE TypeOK
    OBVIOUS
  <1>1. Absent \in Contents /\ Absent.kind = "absent"
    BY DEF Contents, Absent
  <1>2. pc \in [Writers \cup Readers -> Places]
    BY DEF Init, Places
  <1>3. \A w \in Writers : pc[w] = "new"
    BY DEF Init
  <1>4. file \in Contents /\ got \in [Readers -> Contents] /\ file.kind = "absent"
    BY <1>1 DEF Init
  <1>5. QED
    BY <1>2, <1>3, <1>4 DEF Init, TypeOK

LEMMA TypeNext == TypeOK /\ [Next]_vars => TypeOK'
  <1> SUFFICES ASSUME TypeOK, [Next]_vars PROVE TypeOK'
    OBVIOUS
  <1> USE DEF TypeOK, Goto, Places, Critical, Ends
  <1>1. ASSUME NEW w \in Writers, Begin(w) PROVE TypeOK'
    BY <1>1 DEF Begin
  <1>2. ASSUME NEW w \in Writers, Mkdir(w) PROVE TypeOK'
    BY <1>2 DEF Mkdir
  <1>3. ASSUME NEW w \in Writers, LockFails(w) PROVE TypeOK'
    BY <1>3 DEF LockFails
  <1>4. ASSUME NEW w \in Writers, Release(w) PROVE TypeOK'
    BY <1>4 DEF Release, Unlock
  <1>5. ASSUME NEW w \in Writers, GiveUp(w) PROVE TypeOK'
    BY <1>5 DEF GiveUp, Unlock
  <1>6. ASSUME NEW w \in Writers, ReadFile(w) PROVE TypeOK'
    <2>1. file.content \in SUBSET Writers
      BY DEF Contents, Whole, Absent, Empty, Torn
    <2>2. QED
      BY <1>6, <2>1 DEF ReadFile
  <1>7. ASSUME NEW w \in Writers, WriteTemp(w) PROVE TypeOK'
    BY <1>7 DEF WriteTemp
  <1>8. ASSUME NEW w \in Writers, file' = Whole(NewContent(w)) PROVE file' \in Contents /\ file'.kind = "whole"
    <2>1. NewContent(w) \in SUBSET Writers
      BY DEF NewContent
    <2>2. QED
      BY <1>8, <2>1 DEF Contents, Whole
  <1>9. ASSUME NEW w \in Writers, Rename(w) PROVE TypeOK'
    BY <1>9, <1>8 DEF Rename
  <1>10. ASSUME NEW w \in Writers, RenameFails(w) PROVE TypeOK'
    BY <1>10 DEF RenameFails
  <1>11. ASSUME NEW w \in Writers, Fallback(w) PROVE TypeOK'
    BY <1>11 DEF Fallback, Contents, Empty, Absent
  <1>12. ASSUME NEW w \in Writers, CopySome(w) PROVE TypeOK'
    BY <1>12 DEF CopySome, Contents, Torn
  <1>13. ASSUME NEW w \in Writers, CopyRest(w) PROVE TypeOK'
    BY <1>13, <1>8 DEF CopyRest
  <1>14. ASSUME NEW w \in Writers, RenameAgain(w) PROVE TypeOK'
    BY <1>14, <1>8 DEF RenameAgain
  <1>15. ASSUME NEW w \in Writers, FallbackFails(w) PROVE TypeOK'
    BY <1>15 DEF FallbackFails
  <1>16. ASSUME NEW w \in Writers, Die(w) PROVE TypeOK'
    BY <1>16 DEF Die
  <1>17. ASSUME NEW r \in Readers, BeginRead(r) PROVE TypeOK'
    BY <1>17 DEF BeginRead, Succeeded
  <1>18. ASSUME NEW r \in Readers, Get(r) PROVE TypeOK'
    BY <1>18 DEF Get
  <1>19. CASE UNCHANGED vars
    BY <1>19 DEF vars
  <1>20. QED
    BY <1>1, <1>2, <1>3, <1>4, <1>5, <1>6, <1>7, <1>9, <1>10, <1>11, <1>12, <1>13,
       <1>14, <1>15, <1>16, <1>17, <1>18, <1>19 DEF Next, Write, Read

\* Every variable keeps its type, and only the state file is ever empty or torn.
THEOREM TypeCorrect == Spec => []TypeOK
  BY TypeInit, TypeNext, PTL DEF Spec

-----------------------------------------------------------------------------
(* The lock *)

LEMMA LockInit == Init => LockExcludes
  BY ProcessTypes DEF Init, LockExcludes, InCritical, Critical

LEMMA LockNext == TypeOK /\ LockExcludes /\ [Next]_vars => LockExcludes'
  <1> SUFFICES ASSUME TypeOK, LockExcludes, [Next]_vars PROVE LockExcludes'
    OBVIOUS
  <1> USE ProcessTypes DEF TypeOK, LockExcludes, InCritical, Dead, Goto, Critical, Exposed
  <1>1. ASSUME NEW w \in Writers, Begin(w) PROVE LockExcludes'
    BY <1>1 DEF Begin
  <1>2. ASSUME NEW w \in Writers, Mkdir(w) PROVE LockExcludes'
    BY <1>2 DEF Mkdir
  <1>3. ASSUME NEW w \in Writers, LockFails(w) PROVE LockExcludes'
    BY <1>3 DEF LockFails
  <1>4. ASSUME NEW w \in Writers, Release(w) PROVE LockExcludes'
    BY <1>4 DEF Release, Unlock
  <1>5. ASSUME NEW w \in Writers, GiveUp(w) PROVE LockExcludes'
    BY <1>5 DEF GiveUp, Unlock
  <1>6. ASSUME NEW w \in Writers, ReadFile(w) PROVE LockExcludes'
    BY <1>6 DEF ReadFile
  <1>7. ASSUME NEW w \in Writers, WriteTemp(w) PROVE LockExcludes'
    BY <1>7 DEF WriteTemp
  <1>8. ASSUME NEW w \in Writers, Rename(w) PROVE LockExcludes'
    BY <1>8 DEF Rename
  <1>9. ASSUME NEW w \in Writers, RenameFails(w) PROVE LockExcludes'
    BY <1>9 DEF RenameFails
  <1>10. ASSUME NEW w \in Writers, Fallback(w) PROVE LockExcludes'
    BY <1>10 DEF Fallback
  <1>11. ASSUME NEW w \in Writers, CopySome(w) PROVE LockExcludes'
    BY <1>11 DEF CopySome
  <1>12. ASSUME NEW w \in Writers, CopyRest(w) PROVE LockExcludes'
    BY <1>12 DEF CopyRest
  <1>13. ASSUME NEW w \in Writers, RenameAgain(w) PROVE LockExcludes'
    BY <1>13 DEF RenameAgain
  <1>14. ASSUME NEW w \in Writers, FallbackFails(w) PROVE LockExcludes'
    BY <1>14 DEF FallbackFails
  <1>15. ASSUME NEW w \in Writers, Die(w) PROVE LockExcludes'
    BY <1>15 DEF Die
  <1>16. ASSUME NEW r \in Readers, BeginRead(r) PROVE LockExcludes'
    BY <1>16 DEF BeginRead
  <1>17. ASSUME NEW r \in Readers, Get(r) PROVE LockExcludes'
    BY <1>17 DEF Get
  <1>18. CASE UNCHANGED vars
    BY <1>18 DEF vars
  <1>19. QED
    BY <1>1, <1>2, <1>3, <1>4, <1>5, <1>6, <1>7, <1>8, <1>9, <1>10, <1>11,
       <1>12, <1>13, <1>14, <1>15, <1>16, <1>17, <1>18
       DEF Next, Write, Read

\* One writer at a time is between mkdir and release, and the lock directory
\* exists exactly while one is, or after one died or could not remove it.
THEOREM WritersExcludeEachOther == Spec => []LockExcludes
  BY LockInit, LockNext, TypeCorrect, PTL DEF Spec

-----------------------------------------------------------------------------
(* The content.  What a writer holds between its read and its rename is   *)
(* complete, because nobody else can have written since.                  *)

KeptInv ==
    fallback # "broken" =>
        /\ (\A v \in Writers : ~Exposed(v)) => Succeeded \subseteq file.content
        /\ \A v \in Writers :
             /\ pc[v] \in {"write", "rename", "truncated", "torn", "removed"}
                  => Succeeded \subseteq seen[v]
             /\ pc[v] = "release" => v \in file.content

LEMMA KeptInit == Init => KeptInv
  BY ProcessTypes DEF Init, KeptInv, Succeeded

LEMMA KeptNext == TypeOK /\ LockExcludes /\ KeptInv /\ [Next]_vars => KeptInv'
  <1> SUFFICES ASSUME TypeOK, LockExcludes, KeptInv, [Next]_vars PROVE KeptInv'
    OBVIOUS
  <1> USE ProcessTypes DEF TypeOK, LockExcludes, InCritical, Critical, KeptInv, Succeeded,
          Goto, Exposed
  <1>1. ASSUME NEW w \in Writers, Begin(w) PROVE KeptInv'
    BY <1>1 DEF Begin
  <1>2. ASSUME NEW w \in Writers, Mkdir(w) PROVE KeptInv'
    BY <1>2 DEF Mkdir
  <1>3. ASSUME NEW w \in Writers, LockFails(w) PROVE KeptInv'
    BY <1>3 DEF LockFails
  <1>4. ASSUME NEW w \in Writers, Release(w) PROVE KeptInv'
    BY <1>4 DEF Release, Unlock
  <1>5. ASSUME NEW w \in Writers, GiveUp(w) PROVE KeptInv'
    BY <1>5 DEF GiveUp, Unlock
  <1>6. ASSUME NEW w \in Writers, ReadFile(w) PROVE KeptInv'
    BY <1>6 DEF ReadFile
  <1>7. ASSUME NEW w \in Writers, WriteTemp(w) PROVE KeptInv'
    BY <1>7 DEF WriteTemp
  <1>8. ASSUME NEW w \in Writers, Rename(w) PROVE KeptInv'
    BY <1>8 DEF Rename, Whole, NewContent
  <1>9. ASSUME NEW w \in Writers, RenameFails(w) PROVE KeptInv'
    BY <1>9 DEF RenameFails
  <1>10. ASSUME NEW w \in Writers, Fallback(w) PROVE KeptInv'
    BY <1>10 DEF Fallback
  <1>11. ASSUME NEW w \in Writers, CopySome(w) PROVE KeptInv'
    BY <1>11 DEF CopySome
  <1>12. ASSUME NEW w \in Writers, CopyRest(w) PROVE KeptInv'
    BY <1>12 DEF CopyRest, Whole, NewContent
  <1>13. ASSUME NEW w \in Writers, RenameAgain(w) PROVE KeptInv'
    BY <1>13 DEF RenameAgain, Whole, NewContent
  <1>14. ASSUME NEW w \in Writers, FallbackFails(w) PROVE KeptInv'
    BY <1>14 DEF FallbackFails
  <1>15. ASSUME NEW w \in Writers, Die(w) PROVE KeptInv'
    BY <1>15 DEF Die
  <1>16. ASSUME NEW r \in Readers, BeginRead(r) PROVE KeptInv'
    BY <1>16 DEF BeginRead
  <1>17. ASSUME NEW r \in Readers, Get(r) PROVE KeptInv'
    BY <1>17 DEF Get
  <1>18. CASE UNCHANGED vars
    BY <1>18 DEF vars
  <1>19. QED
    BY <1>1, <1>2, <1>3, <1>4, <1>5, <1>6, <1>7, <1>8, <1>9, <1>10, <1>11,
       <1>12, <1>13, <1>14, <1>15, <1>16, <1>17, <1>18
       DEF Next, Write, Read

LEMMA KeptImplies == KeptInv => UpdatesKept
  BY DEF KeptInv, UpdatesKept, Succeeded, Exposed

\* Unless a fallback is cut short, no update that succeeded is lost.
THEOREM UpdatesAreKept == Spec => []UpdatesKept
  BY KeptInit, KeptNext, KeptImplies, TypeCorrect, WritersExcludeEachOther, PTL DEF Spec

-----------------------------------------------------------------------------
(* What readers get *)

ReadsInv ==
    /\ \A v \in Writers : Exposed(v) => file.kind # "whole" /\ fallback # "none"
    /\ fallback = "none" => file.kind \in {"whole", "absent"}
    /\ \A r \in Readers : pc[r] = "read" => before[r] \subseteq Succeeded
    /\ ReadsAreCurrent

LEMMA ReadsInit == Init => ReadsInv
  BY ProcessTypes DEF Init, ReadsInv, ReadsAreCurrent, Succeeded, Exposed, Absent

LEMMA ReadsNext ==
    TypeOK /\ LockExcludes /\ KeptInv /\ ReadsInv /\ [Next]_vars => ReadsInv'
  <1> SUFFICES ASSUME TypeOK, LockExcludes, KeptInv, ReadsInv, [Next]_vars PROVE ReadsInv'
    OBVIOUS
  <1> USE ProcessTypes DEF TypeOK, LockExcludes, InCritical, Critical, KeptInv, Succeeded,
          Goto, Exposed, ReadsInv, ReadsAreCurrent
  <1>1. ASSUME NEW w \in Writers, Begin(w) PROVE ReadsInv'
    BY <1>1 DEF Begin
  <1>2. ASSUME NEW w \in Writers, Mkdir(w) PROVE ReadsInv'
    BY <1>2 DEF Mkdir
  <1>3. ASSUME NEW w \in Writers, LockFails(w) PROVE ReadsInv'
    BY <1>3 DEF LockFails
  <1>4. ASSUME NEW w \in Writers, Release(w) PROVE ReadsInv'
    BY <1>4 DEF Release, Unlock
  <1>5. ASSUME NEW w \in Writers, GiveUp(w) PROVE ReadsInv'
    BY <1>5 DEF GiveUp, Unlock
  <1>6. ASSUME NEW w \in Writers, ReadFile(w) PROVE ReadsInv'
    BY <1>6 DEF ReadFile
  <1>7. ASSUME NEW w \in Writers, WriteTemp(w) PROVE ReadsInv'
    BY <1>7 DEF WriteTemp
  <1>8. ASSUME NEW w \in Writers, Rename(w) PROVE ReadsInv'
    BY <1>8 DEF Rename, Whole, NewContent
  <1>9. ASSUME NEW w \in Writers, RenameFails(w) PROVE ReadsInv'
    BY <1>9 DEF RenameFails
  <1>10. ASSUME NEW w \in Writers, Fallback(w) PROVE ReadsInv'
    BY <1>10 DEF Fallback, Empty, Absent, Torn
  <1>11. ASSUME NEW w \in Writers, CopySome(w) PROVE ReadsInv'
    BY <1>11 DEF CopySome, Empty, Absent, Torn
  <1>12. ASSUME NEW w \in Writers, CopyRest(w) PROVE ReadsInv'
    BY <1>12 DEF CopyRest, Whole, NewContent
  <1>13. ASSUME NEW w \in Writers, RenameAgain(w) PROVE ReadsInv'
    BY <1>13 DEF RenameAgain, Whole, NewContent
  <1>14. ASSUME NEW w \in Writers, FallbackFails(w) PROVE ReadsInv'
    BY <1>14 DEF FallbackFails
  <1>15. ASSUME NEW w \in Writers, Die(w) PROVE ReadsInv'
    BY <1>15 DEF Die
  <1>16. ASSUME NEW r \in Readers, BeginRead(r) PROVE ReadsInv'
    BY <1>16 DEF BeginRead
  <1>17. ASSUME NEW r \in Readers, Get(r) PROVE ReadsInv'
    BY <1>17 DEF Get
  <1>18. CASE UNCHANGED vars
    BY <1>18 DEF vars
  <1>19. QED
    BY <1>1, <1>2, <1>3, <1>4, <1>5, <1>6, <1>7, <1>8, <1>9, <1>10, <1>11,
       <1>12, <1>13, <1>14, <1>15, <1>16, <1>17, <1>18
       DEF Next, Write, Read

\* A reader that takes no lock never gets an old file, and gets a whole one
\* unless a rename has failed.
THEOREM ReadersAreCurrent == Spec => []ReadsAreCurrent
  <1>1. Spec => []KeptInv
    BY KeptInit, KeptNext, TypeCorrect, WritersExcludeEachOther, PTL DEF Spec
  <1>2. ReadsInv => ReadsAreCurrent
    BY DEF ReadsInv
  <1>3. QED
    BY <1>1, <1>2, ReadsInit, ReadsNext, TypeCorrect, WritersExcludeEachOther, PTL DEF Spec

-----------------------------------------------------------------------------
(* LockedFile implements SharedFile.  A writer that is about to replace the  *)
(* file has its content in hand, and only a writer that has replaced it has  *)
(* its value in the file.                                                    *)

Unapplied == {"new", "lock", "read", "write", "rename", "truncated", "torn", "removed"}

ShareInv ==
    /\ \A w \in Writers : pc[w] \in {"write", "rename"} => seen[w] = file.content
    /\ \A w \in Writers : Exposed(w) => file.content = {}
    /\ \A w \in Writers : pc[w] = "release" => w \in file.content
    /\ \A w \in Writers : pc[w] \in Unapplied =>
          w \notin file.content /\ \A v \in Writers : Exposed(v) => w \notin seen[v]

LEMMA ShareInit == Init => ShareInv
  BY ProcessTypes DEF Init, ShareInv, Exposed, Absent

LEMMA ShareNext == TypeOK /\ LockExcludes /\ ShareInv /\ [Next]_vars => ShareInv'
  <1> SUFFICES ASSUME TypeOK, LockExcludes, ShareInv, [Next]_vars PROVE ShareInv'
    OBVIOUS
  <1> USE ProcessTypes DEF TypeOK, LockExcludes, InCritical, Critical, ShareInv, Unapplied,
          Goto, Exposed
  <1>1. ASSUME NEW w \in Writers, Begin(w) PROVE ShareInv'
    BY <1>1 DEF Begin
  <1>2. ASSUME NEW w \in Writers, Mkdir(w) PROVE ShareInv'
    BY <1>2 DEF Mkdir
  <1>3. ASSUME NEW w \in Writers, LockFails(w) PROVE ShareInv'
    BY <1>3 DEF LockFails
  <1>4. ASSUME NEW w \in Writers, Release(w) PROVE ShareInv'
    BY <1>4 DEF Release, Unlock
  <1>5. ASSUME NEW w \in Writers, GiveUp(w) PROVE ShareInv'
    BY <1>5 DEF GiveUp, Unlock
  <1>6. ASSUME NEW w \in Writers, ReadFile(w) PROVE ShareInv'
    BY <1>6 DEF ReadFile
  <1>7. ASSUME NEW w \in Writers, WriteTemp(w) PROVE ShareInv'
    BY <1>7 DEF WriteTemp
  <1>8. ASSUME NEW w \in Writers, Rename(w) PROVE ShareInv'
    BY <1>8 DEF Rename, Whole, NewContent
  <1>9. ASSUME NEW w \in Writers, RenameFails(w) PROVE ShareInv'
    BY <1>9 DEF RenameFails
  <1>10. ASSUME NEW w \in Writers, Fallback(w) PROVE ShareInv'
    BY <1>10 DEF Fallback, Empty, Absent
  <1>11. ASSUME NEW w \in Writers, CopySome(w) PROVE ShareInv'
    BY <1>11 DEF CopySome, Torn
  <1>12. ASSUME NEW w \in Writers, CopyRest(w) PROVE ShareInv'
    BY <1>12 DEF CopyRest, Whole, NewContent
  <1>13. ASSUME NEW w \in Writers, RenameAgain(w) PROVE ShareInv'
    BY <1>13 DEF RenameAgain, Whole, NewContent
  <1>14. ASSUME NEW w \in Writers, FallbackFails(w) PROVE ShareInv'
    BY <1>14 DEF FallbackFails
  <1>15. ASSUME NEW w \in Writers, Die(w) PROVE ShareInv'
    BY <1>15 DEF Die
  <1>16. ASSUME NEW r \in Readers, BeginRead(r) PROVE ShareInv'
    BY <1>16 DEF BeginRead
  <1>17. ASSUME NEW r \in Readers, Get(r) PROVE ShareInv'
    BY <1>17 DEF Get
  <1>18. CASE UNCHANGED vars
    BY <1>18 DEF vars
  <1>19. QED
    BY <1>1, <1>2, <1>3, <1>4, <1>5, <1>6, <1>7, <1>8, <1>9, <1>10, <1>11,
       <1>12, <1>13, <1>14, <1>15, <1>16, <1>17, <1>18
       DEF Next, Write, Read

Status     == [p \in Writers \cup Readers |-> statusOf(p)]
Answers    == [r \in Readers |-> got[r].content]
SharedStep == [Shared!Next]_<<Status, valueNow, Answers>>

StatusFact ==
    \A p \in Writers \cup Readers :
        /\ pc[p] = "new" => statusOf(p) = "new"
        /\ pc[p] \in Ends => statusOf(p) = pc[p]
        /\ p \in Writers /\ Exposed(p) => statusOf(p) = "rewriting"
        /\ pc[p] = "giveup" => statusOf(p) = IF p \in file.content THEN "doubtful" ELSE "called"
        /\ pc[p] \in {"lock", "read", "write", "rename", "release"} => statusOf(p) = "called"

LEMMA StatusIs == TypeOK => StatusFact
  BY DEF StatusFact, statusOf, Ends, Exposing, Exposed

LEMMA StatusIsNext == TypeOK' => StatusFact'
  BY StatusIs, PTL

ValueFact ==
    /\ Exposing = {} => valueNow = file.content
    /\ \A w \in Exposing : Exposing = {w} /\ valueNow = seen[w]
    /\ \A w \in Writers : pc[w] \in Unapplied => w \notin valueNow

LEMMA ValueIs == TypeOK /\ LockExcludes /\ ShareInv => ValueFact
  <1> SUFFICES ASSUME TypeOK, LockExcludes, ShareInv PROVE ValueFact
    OBVIOUS
  <1>1. \A w \in Exposing : Exposing = {w} /\ file.content = {}
    BY DEF LockExcludes, InCritical, Critical, Exposing, Exposed, ShareInv
  <1>2. \A w \in Exposing : valueNow = seen[w]
    BY <1>1 DEF valueNow
  <1>3. Exposing = {} => valueNow = file.content
    BY DEF valueNow
  <1>4. \A w \in Writers : pc[w] \in Unapplied => w \notin valueNow
    BY DEF ShareInv, valueNow, Exposing
  <1>5. QED
    BY <1>1, <1>2, <1>3, <1>4 DEF ValueFact

LEMMA ValueIsNext == TypeOK' /\ LockExcludes' /\ ShareInv' => ValueFact'
  BY ValueIs, PTL

\* One call at a time moves.
LEMMA Moves ==
    ASSUME TypeOK, TypeOK', LockExcludes, NEW p \in Writers \cup Readers, NEW x,
           pc' = [pc EXCEPT ![p] = x],
           file' = file \/ (p \in Writers /\ pc[p] \in Critical)
    PROVE  Status' = [Status EXCEPT ![p] = statusOf(p)']
  <1>1. ASSUME NEW q \in Writers \cup Readers, q # p PROVE statusOf(q)' = statusOf(q)
    <2>1. pc'[q] = pc[q]
      BY <1>1 DEF TypeOK
    <2>2. q \in Exposing' <=> q \in Exposing
      BY <2>1 DEF Exposing, Exposed
    <2>3. pc[q] = "giveup" => (q \in file'.content <=> q \in file.content)
      <3>1. CASE file' = file
        BY <3>1
      <3>2. CASE p \in Writers /\ pc[p] \in Critical
        <4>1. q \in Writers => pc[q] # "giveup"
          BY <1>1, <3>2 DEF LockExcludes, InCritical, Critical
        <4>2. q \notin Writers => q \notin file.content /\ q \notin file'.content
          BY DEF TypeOK, Contents, Whole, Absent, Empty, Torn
        <4>3. QED
          BY <4>1, <4>2
      <3>3. QED
        BY <3>1, <3>2
    <2>4. QED
      BY <2>1, <2>2, <2>3 DEF statusOf
  <1>2. QED
    BY <1>1 DEF Status

\* Until it replaces or gives away the file, what a writer does is not seen.
LEMMA Unseen ==
    ASSUME TypeOK, TypeOK', LockExcludes, LockExcludes', ShareInv, ShareInv',
           NEW w \in Writers, NEW x, pc' = [pc EXCEPT ![w] = x],
           statusOf(w)' = statusOf(w), valueNow' = valueNow, got' = got,
           file' = file \/ pc[w] \in Critical
    PROVE  SharedStep
  <1>1. Status' = [Status EXCEPT ![w] = statusOf(w)]
    BY Moves
  <1>2. Status' = Status
    BY <1>1 DEF Status
  <1>3. QED
    BY <1>2 DEF SharedStep, Answers

LEMMA MoveIs ==
    ASSUME NEW p, NEW from, NEW to
    PROVE  Shared!Move(p, from, to) <=> Status[p] = from /\ Status' = [Status EXCEPT ![p] = to]
  BY DEF Shared!Move, Status

LEMMA StepIsShared ==
    ASSUME TypeOK, TypeOK', LockExcludes, LockExcludes', ShareInv, ShareInv', [Next]_vars
    PROVE  SharedStep
  <1>1. StatusFact /\ StatusFact' /\ ValueFact /\ ValueFact'
    BY StatusIs, StatusIsNext, ValueIs, ValueIsNext
  <1>2. pc \in [Writers \cup Readers -> Places] /\ Writers \cap Readers = {}
    BY ProcessTypes DEF TypeOK
  <1>3. \A p \in Writers \cup Readers : Status[p] = statusOf(p)
    BY DEF Status
  <1> USE DEF Goto
  <1>4. ASSUME NEW w \in Writers, Begin(w) PROVE SharedStep
    <2>1. Status[w] = "new" /\ statusOf(w)' = "called"
      BY <1>1, <1>2, <1>3, <1>4 DEF Begin, StatusFact, Ends
    <2>2. Status' = [Status EXCEPT ![w] = "called"]
      BY <1>4, <2>1, Moves DEF Begin
    <2>3. valueNow' = valueNow /\ Answers' = Answers
      BY <1>2, <1>4 DEF Begin, valueNow, Answers, Exposing, Exposed
    <2>4. Shared!Call(w)
      BY <2>1, <2>2, <2>3, MoveIs DEF Shared!Call, Answers
    <2>5. QED
      BY <2>4 DEF SharedStep, Shared!Next, Shared!Write
  <1>5. ASSUME NEW w \in Writers, LockFails(w) PROVE SharedStep
    <2>1. Status[w] = "called" /\ statusOf(w)' = "failed"
      BY <1>1, <1>2, <1>3, <1>5 DEF LockFails, StatusFact, Ends
    <2>2. Status' = [Status EXCEPT ![w] = "failed"]
      BY <1>5, <2>1, Moves DEF LockFails
    <2>3. valueNow' = valueNow /\ Answers' = Answers
      BY <1>2, <1>5 DEF LockFails, valueNow, Answers, Exposing, Exposed
    <2>4. Shared!Fail(w)
      BY <2>1, <2>2, <2>3, <1>1, <1>5, MoveIs DEF Shared!Fail, Answers, LockFails, ValueFact, Unapplied
    <2>5. QED
      BY <2>4 DEF SharedStep, Shared!Next, Shared!Write
  <1>6. ASSUME NEW w \in Writers, Release(w) PROVE SharedStep
    <2>1. Status[w] = "called" /\ statusOf(w)' = "done"
      BY <1>1, <1>2, <1>3, <1>6 DEF Release, StatusFact, Ends
    <2>2. Status' = [Status EXCEPT ![w] = "done"]
      BY <1>6, <2>1, Moves DEF Release, Unlock
    <2>3. valueNow' = valueNow /\ Answers' = Answers
      BY <1>2, <1>6 DEF Release, valueNow, Answers, Exposing, Exposed
    <2>4. Shared!Succeed(w)
      BY <2>1, <2>2, <2>3, <1>6, MoveIs DEF Shared!Succeed, Answers, Release, ShareInv, valueNow
    <2>5. QED
      BY <2>4 DEF SharedStep, Shared!Next, Shared!Write
  <1>7. ASSUME NEW w \in Writers, GiveUp(w) PROVE SharedStep
    <2>1. Status[w] = (IF w \in file.content THEN "doubtful" ELSE "called") /\ statusOf(w)' = "failed"
      BY <1>1, <1>2, <1>3, <1>7 DEF GiveUp, StatusFact, Ends
    <2>2. Status' = [Status EXCEPT ![w] = "failed"]
      BY <1>7, <2>1, Moves DEF GiveUp, Unlock
    <2>3. valueNow' = valueNow /\ Answers' = Answers
      BY <1>2, <1>7 DEF GiveUp, valueNow, Answers, Exposing, Exposed
    <2>4. Exposing = {}
      BY <1>7 DEF GiveUp, Exposing, Exposed, LockExcludes, InCritical, Critical
    <2>5. Shared!Fail(w)
      BY <1>1, <2>1, <2>2, <2>3, <2>4, MoveIs DEF Shared!Fail, Answers, ValueFact
    <2>6. QED
      BY <2>5 DEF SharedStep, Shared!Next, Shared!Write
  <1>8. ASSUME NEW w \in Writers, Mkdir(w) PROVE SharedStep
    <2>1. statusOf(w)' = statusOf(w)
      BY <1>1, <1>2, <1>8 DEF Mkdir, StatusFact, ShareInv, Unapplied, Exposed
    <2>2. valueNow' = valueNow
      BY <1>1, <1>2, <1>8 DEF Mkdir, ValueFact, valueNow, Exposing, Exposed
    <2>3. \E x : pc' = [pc EXCEPT ![w] = x]
      BY <1>8 DEF Mkdir
    <2>4. got' = got /\ (file' = file \/ pc[w] \in Critical)
      BY <1>8 DEF Mkdir, Critical
    <2>5. QED
      BY <2>1, <2>2, <2>3, <2>4, Unseen
  <1>9. ASSUME NEW w \in Writers, ReadFile(w) PROVE SharedStep
    <2>1. statusOf(w)' = statusOf(w)
      BY <1>1, <1>2, <1>9 DEF ReadFile, StatusFact, ShareInv, Unapplied, Exposed
    <2>2. valueNow' = valueNow
      <3>1. Exposing = {} /\ Exposing' = {}
        BY <1>2, <1>9 DEF ReadFile, Exposing, Exposed, LockExcludes, InCritical, Critical
      <3>2. QED
        BY <1>1, <1>9, <3>1 DEF ReadFile, ValueFact
    <2>3. \E x : pc' = [pc EXCEPT ![w] = x]
      BY <1>9 DEF ReadFile
    <2>4. got' = got /\ (file' = file \/ pc[w] \in Critical)
      BY <1>9 DEF ReadFile, Critical
    <2>5. QED
      BY <2>1, <2>2, <2>3, <2>4, Unseen
  <1>10. ASSUME NEW w \in Writers, WriteTemp(w) PROVE SharedStep
    <2>1. statusOf(w)' = statusOf(w)
      BY <1>1, <1>2, <1>10 DEF WriteTemp, StatusFact, ShareInv, Unapplied, Exposed
    <2>2. valueNow' = valueNow
      BY <1>1, <1>2, <1>10 DEF WriteTemp, ValueFact, valueNow, Exposing, Exposed
    <2>3. \E x : pc' = [pc EXCEPT ![w] = x]
      BY <1>10 DEF WriteTemp
    <2>4. got' = got /\ (file' = file \/ pc[w] \in Critical)
      BY <1>10 DEF WriteTemp, Critical
    <2>5. QED
      BY <2>1, <2>2, <2>3, <2>4, Unseen
  <1>11. ASSUME NEW w \in Writers, RenameFails(w) PROVE SharedStep
    <2>1. statusOf(w)' = statusOf(w)
      BY <1>1, <1>2, <1>11 DEF RenameFails, StatusFact, ShareInv, Unapplied, Exposed
    <2>2. valueNow' = valueNow
      BY <1>1, <1>2, <1>11 DEF RenameFails, ValueFact, valueNow, Exposing, Exposed
    <2>3. \E x : pc' = [pc EXCEPT ![w] = x]
      BY <1>11 DEF RenameFails
    <2>4. got' = got /\ (file' = file \/ pc[w] \in Critical)
      BY <1>11 DEF RenameFails, Critical
    <2>5. QED
      BY <2>1, <2>2, <2>3, <2>4, Unseen
  <1>12. ASSUME NEW w \in Writers, CopySome(w) PROVE SharedStep
    <2>1. statusOf(w)' = statusOf(w)
      BY <1>1, <1>2, <1>12 DEF CopySome, StatusFact, ShareInv, Unapplied, Exposed, Torn
    <2>2. valueNow' = valueNow
      BY <1>1, <1>2, <1>12 DEF CopySome, ValueFact, valueNow, Exposing, Exposed, Torn
    <2>3. \E x : pc' = [pc EXCEPT ![w] = x]
      BY <1>12 DEF CopySome
    <2>4. got' = got /\ (file' = file \/ pc[w] \in Critical)
      BY <1>12 DEF CopySome, Critical
    <2>5. QED
      BY <2>1, <2>2, <2>3, <2>4, Unseen
  <1>13. ASSUME NEW w \in Writers, Rename(w) PROVE SharedStep
    <2>1. Status[w] = "called" /\ statusOf(w)' = "called"
      BY <1>1, <1>2, <1>3, <1>13 DEF Rename, StatusFact
    <2>2. Status' = Status
      <3>1. Status' = [Status EXCEPT ![w] = "called"]
        BY <1>13, <2>1, Moves DEF Rename, Critical
      <3>2. QED
        BY <2>1, <3>1 DEF Status
    <2>3. Exposing = {} /\ Exposing' = {}
      BY <1>2, <1>13 DEF Rename, Exposing, Exposed, LockExcludes, InCritical, Critical
    <2>4. valueNow' = valueNow \cup {w} /\ w \notin valueNow
      BY <1>1, <1>13, <2>3 DEF Rename, ValueFact, ShareInv, Unapplied, Whole, NewContent
    <2>5. ~Shared!Rewritten
      BY <1>1, <1>2, <1>3, <2>3 DEF Shared!Rewritten, StatusFact, Exposing, Exposed, Places, Critical, Ends
    <2>6. Shared!Apply(w)
      BY <1>13, <2>1, <2>2, <2>4, <2>5 DEF Shared!Apply, Rename, Answers, Status
    <2>7. QED
      BY <2>6 DEF SharedStep, Shared!Next, Shared!Write
  <1>14. ASSUME NEW w \in Writers, Fallback(w) PROVE SharedStep
    <2>1. Status[w] = "called" /\ statusOf(w)' = "rewriting"
      BY <1>1, <1>2, <1>3, <1>14 DEF Fallback, StatusFact, Exposed
    <2>2. Status' = [Status EXCEPT ![w] = "rewriting"]
      BY <1>14, <2>1, Moves DEF Fallback, Critical
    <2>3. Exposing = {} /\ w \in Exposing'
      BY <1>2, <1>14 DEF Fallback, Exposing, Exposed, LockExcludes, InCritical, Critical
    <2>4. valueNow = seen[w] /\ valueNow' = seen[w] /\ w \notin valueNow
      BY <1>1, <1>14, <2>3 DEF Fallback, ValueFact, ShareInv, Unapplied
    <2>5. ~Shared!Rewritten
      BY <1>1, <1>2, <1>3, <2>3 DEF Shared!Rewritten, StatusFact, Exposing, Exposed, Places, Critical, Ends
    <2>6. Answers' = Answers
      BY <1>14 DEF Fallback, Answers
    <2>7. Shared!Rewrite(w)
      BY <2>1, <2>2, <2>4, <2>5, <2>6, MoveIs DEF Shared!Rewrite, Answers
    <2>8. QED
      BY <2>7 DEF SharedStep, Shared!Next, Shared!Write
  <1>15. ASSUME NEW w \in Writers, CopyRest(w) PROVE SharedStep
    <2>1. Status[w] = "rewriting" /\ Exposing = {w} /\ valueNow = seen[w]
      BY <1>1, <1>2, <1>3, <1>15 DEF CopyRest, StatusFact, ValueFact, Exposing, Exposed
    <2>2. file'.content = valueNow \cup {w} /\ w \in file'.content
      BY <1>15, <2>1 DEF CopyRest, Whole, NewContent
    <2>3. statusOf(w)' \in {"called", "doubtful"}
      BY <1>1, <1>2, <1>15, <2>2 DEF CopyRest, StatusFact
    <2>4. Status' = [Status EXCEPT ![w] = statusOf(w)']
      BY <1>15, Moves DEF CopyRest, Critical
    <2>5. Exposing' = {}
      BY <1>2, <1>15, <2>1 DEF CopyRest, Exposing, Exposed
    <2>6. valueNow' = valueNow \cup {w} /\ Answers' = Answers
      BY <1>1, <1>15, <2>2, <2>5 DEF CopyRest, ValueFact, Answers
    <2>7. Shared!Complete(w)
      BY <2>1, <2>3, <2>4, <2>6, MoveIs DEF Shared!Complete, Answers
    <2>8. QED
      BY <2>7 DEF SharedStep, Shared!Next, Shared!Write
  <1>16. ASSUME NEW w \in Writers, RenameAgain(w) PROVE SharedStep
    <2>1. Status[w] = "rewriting" /\ Exposing = {w} /\ valueNow = seen[w]
      BY <1>1, <1>2, <1>3, <1>16 DEF RenameAgain, StatusFact, ValueFact, Exposing, Exposed
    <2>2. file'.content = valueNow \cup {w} /\ w \in file'.content
      BY <1>16, <2>1 DEF RenameAgain, Whole, NewContent
    <2>3. statusOf(w)' \in {"called", "doubtful"}
      BY <1>1, <1>2, <1>16, <2>2 DEF RenameAgain, StatusFact
    <2>4. Status' = [Status EXCEPT ![w] = statusOf(w)']
      BY <1>16, Moves DEF RenameAgain, Critical
    <2>5. Exposing' = {}
      BY <1>2, <1>16, <2>1 DEF RenameAgain, Exposing, Exposed
    <2>6. valueNow' = valueNow \cup {w} /\ Answers' = Answers
      BY <1>1, <1>16, <2>2, <2>5 DEF RenameAgain, ValueFact, Answers
    <2>7. Shared!Complete(w)
      BY <2>1, <2>3, <2>4, <2>6, MoveIs DEF Shared!Complete, Answers
    <2>8. QED
      BY <2>7 DEF SharedStep, Shared!Next, Shared!Write
  <1>17. ASSUME NEW w \in Writers, Exposed(w), pc' = [pc EXCEPT ![w] = "giveup"] \/ pc' = [pc EXCEPT ![w] = "dead"],
               UNCHANGED <<file, got>>
         PROVE  SharedStep
    <2>1. Status[w] = "rewriting" /\ Exposing = {w} /\ file.content = {}
      BY <1>1, <1>2, <1>3, <1>17 DEF StatusFact, ValueFact, Exposing, ShareInv
    <2>2. statusOf(w)' \in {"called", "dead"}
      BY <1>1, <1>2, <1>17, <2>1 DEF StatusFact, Ends
    <2>3. Status' = [Status EXCEPT ![w] = statusOf(w)']
      BY <1>17, Moves
    <2>4. Exposing' = {}
      BY <1>2, <1>17, <2>1 DEF Exposing, Exposed
    <2>5. valueNow' = {} /\ Answers' = Answers
      BY <1>1, <1>17, <2>1, <2>4 DEF ValueFact, Answers
    <2>6. Shared!CutShort(w)
      BY <2>1, <2>2, <2>3, <2>5, MoveIs DEF Shared!CutShort, Answers
    <2>7. QED
      BY <2>6 DEF SharedStep, Shared!Next, Shared!Write
  <1>18. ASSUME NEW w \in Writers, FallbackFails(w) PROVE SharedStep
    BY <1>17, <1>18 DEF FallbackFails
  <1>19. ASSUME NEW w \in Writers, Die(w) PROVE SharedStep
    <2>1. CASE Exposed(w)
      BY <1>17, <1>19, <2>1 DEF Die
    <2>2. CASE ~Exposed(w)
      <3>1. Status[w] \in {"called", "doubtful"} /\ statusOf(w)' = "dead"
        BY <1>1, <1>2, <1>3, <1>19, <2>2 DEF Die, StatusFact, Ends, Critical, Exposed
      <3>2. Status' = [Status EXCEPT ![w] = "dead"]
        BY <1>19, <3>1, Moves DEF Die
      <3>3. valueNow' = valueNow /\ Answers' = Answers
        BY <1>2, <1>19, <2>2 DEF Die, valueNow, Answers, Exposing, Exposed
      <3>4. Shared!Die(w)
        BY <3>1, <3>2, <3>3, MoveIs DEF Shared!Die, Answers
      <3>5. QED
        BY <3>4 DEF SharedStep, Shared!Next, Shared!Write
    <2>3. QED
      BY <2>1, <2>2
  <1>20. ASSUME NEW r \in Readers, BeginRead(r) PROVE SharedStep
    <2>1. Status[r] = "new" /\ statusOf(r)' = "called"
      BY <1>1, <1>2, <1>3, <1>20 DEF BeginRead, StatusFact
    <2>2. Status' = [Status EXCEPT ![r] = "called"]
      BY <1>20, <2>1, Moves DEF BeginRead
    <2>3. valueNow' = valueNow /\ Answers' = Answers
      BY <1>2, <1>20 DEF BeginRead, valueNow, Answers, Exposing, Exposed
    <2>4. Shared!Call(r)
      BY <2>1, <2>2, <2>3, MoveIs DEF Shared!Call, Answers
    <2>5. QED
      BY <2>4 DEF SharedStep, Shared!Next
  <1>21. ASSUME NEW r \in Readers, Get(r) PROVE SharedStep
    <2>1. Status[r] = "called" /\ statusOf(r)' = "done"
      BY <1>1, <1>2, <1>3, <1>21 DEF Get, StatusFact, Ends
    <2>2. Status' = [Status EXCEPT ![r] = "done"]
      BY <1>21, <2>1, Moves DEF Get
    <2>3. valueNow' = valueNow
      BY <1>2, <1>21 DEF Get, valueNow, Exposing, Exposed
    <2>4. Answers' = [Answers EXCEPT ![r] = file.content]
      BY <1>21 DEF Get, Answers, TypeOK
    <2>5. CASE Exposing = {}
      <3>1. file.content = valueNow
        BY <1>1, <2>5 DEF ValueFact
      <3>2. QED
        BY <2>1, <2>2, <2>3, <2>4, <3>1, MoveIs DEF Shared!Answer, Answers, SharedStep, Shared!Next
    <2>6. CASE Exposing # {}
      <3>1. PICK w \in Writers : Exposed(w)
        BY <2>6 DEF Exposing
      <3>2. file.content = {} /\ Shared!Rewritten
        BY <1>1, <1>2, <1>3, <3>1 DEF Shared!Rewritten, StatusFact, ShareInv
      <3>3. QED
        BY <2>1, <2>2, <2>3, <2>4, <3>2, MoveIs DEF Shared!Answer, Answers, SharedStep, Shared!Next
    <2>7. QED
      BY <2>5, <2>6
  <1>22. CASE UNCHANGED vars
    <2>1. Status' = Status
      BY <1>22 DEF vars, Status, statusOf, Exposing, Exposed
    <2>2. valueNow' = valueNow /\ Answers' = Answers
      BY <1>22 DEF vars, valueNow, Answers, Exposing, Exposed
    <2>3. QED
      BY <2>1, <2>2 DEF SharedStep
  <1>23. QED
    BY <1>4, <1>5, <1>6, <1>7, <1>8, <1>9, <1>10, <1>11, <1>12, <1>13, <1>14, <1>15,
       <1>16, <1>18, <1>19, <1>20, <1>21, <1>22 DEF Next, Write, Read

\* Calls take effect at one moment, and errors change nothing: LockedFile keeps
\* the promises of SharedFile.
THEOREM FileIsShared == Spec => ImplementsSharedFile
  <1>1. Init => Shared!Init
    <2> SUFFICES ASSUME Init PROVE Shared!Init
      OBVIOUS
    <2>1. \A p \in Writers \cup Readers : statusOf(p) = "new"
      BY TypeInit, StatusIs DEF Init, StatusFact
    <2>2. Exposing = {} /\ valueNow = {}
      BY ProcessTypes DEF Init, Exposing, Exposed, valueNow, Absent
    <2>3. [r \in Readers |-> got[r].content] = [r \in Readers |-> {}]
      BY DEF Init, Absent
    <2>4. QED
      BY <2>1, <2>2, <2>3 DEF Shared!Init
  <1>2. Spec => [](TypeOK /\ LockExcludes /\ ShareInv)
    BY ShareInit, ShareNext, TypeCorrect, WritersExcludeEachOther, PTL DEF Spec
  <1>3. TypeOK /\ LockExcludes /\ ShareInv /\ (TypeOK /\ LockExcludes /\ ShareInv)' /\ [Next]_vars
        => [Shared!Next]_<<[p \in Writers \cup Readers |-> statusOf(p)], valueNow, [r \in Readers |-> got[r].content]>>
    BY StepIsShared DEF SharedStep, Status, Answers
  <1>4. QED
    BY <1>1, <1>2, <1>3, PTL DEF Spec, ImplementsSharedFile, Shared!Spec
=============================================================================
