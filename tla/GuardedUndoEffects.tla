------------------------ MODULE GuardedUndoEffects -------------------------
(***************************************************************************)
(* The inductive invariant of GuardedUndo, what its steps do to workspace  *)
(* and journal, and that these effects keep the parts of the invariant     *)
(* that are about files, rows and restore sets.  For any number of turns   *)
(* and any manifests, operations, crashes, refused writes and edits of     *)
(* other programs.                                                         *)
(***************************************************************************)
EXTENDS GuardedUndo, FiniteSetTheorems, WellFoundedInduction, TLAPS

(* The code a call is in.                                                  *)
Staging == {"stage", "fill", "staged", "journal"}
Swapping == {"apply", "swap", "swapped"}
Recording == {"applied", "verified"}
Backing == {"back", "swap_back", "swapped_back", "check_back", "mark_back"}
Aborting == {"abort_file", "abort_mark"}
Unstaging == {"unstage", "unstage_mark"}
AtFile == Staging \cup Swapping \cup Recording \cup Backing \cup Aborting \cup Unstaging
            \cup {"mark", "cleanup"}
Called == AtFile \cup {"require", "prepared", "applying", "git", "verifying", "lost", "verify",
                       "completed", "finish", "rollback", "rolled_back", "abort",
                       "recover_preparing", "unstaged"}

(* A call works on an operation whose cleanup is not done.                 *)
Places ==
    /\ pc \in Called \cup {"idle", "next"}
    /\ pc \in Called => cur \in OpIds /\ ops[cur].cleanup
    /\ pc \notin Called => cur = 0
    /\ pc \in AtFile => idx \in 1..Len(Manifest[ops[cur].set])
    /\ pc = "idle" => phase = "serving"
    /\ pc = "next" => phase # "serving"
    /\ phase = "cleaning" => pc \in {"next", "cleanup", "finish"}

(* What the journal says of it there.  What the call believes may be stale *)
(* once a write was refused during recovery.                               *)
Agrees ==
    \/ known = ops[cur].state
    \/ known = "applying" /\ ops[cur].state = "verifying" /\ phase = "recovering" /\ faults > 0
JournalAt ==
    /\ pc \in Staging \cup {"prepared", "abort"} =>
          ops[cur].state = "preparing" /\ known = "preparing" /\ phase = "serving"
    /\ pc = "applying" => ops[cur].state = "prepared" /\ phase = "serving"
    /\ pc \in Swapping \cup {"git"} =>
          ops[cur].state = "applying" /\ known = "applying" /\ phase = "serving"
    /\ pc \in Recording =>
          /\ known = ops[cur].state /\ known \in {"applying", "verifying"}
          /\ phase = "serving" => known = "applying"
    /\ pc = "verifying" => ops[cur].state = "applying" /\ known = "applying"
    /\ pc = "lost" => /\ ops[cur].state = "applying" /\ known = "applying"
                      /\ phase = "recovering" /\ faults > 0
    /\ pc = "verify" => ops[cur].state = "verifying" /\ known = "verifying" /\ phase = "serving"
    /\ pc = "completed" =>
          /\ ops[cur].state = "verifying" /\ known \in {"applying", "verifying"}
          /\ phase = "serving" => known = "verifying"
    /\ pc \in {"cleanup", "finish"} => ops[cur].state \in {"completed", "rolled_back"}
    /\ pc \in Backing \cup Aborting \cup Unstaging \cup {"rolled_back", "mark", "unstaged"} =>
          ops[cur].state = "rolling_back" /\ known = "rolling_back"
    /\ pc \in Aborting => phase = "serving"
    /\ pc \in Unstaging \cup {"unstaged", "recover_preparing"} => phase = "recovering"
    /\ pc = "recover_preparing" => ops[cur].state = "preparing" /\ known = "preparing"
    /\ pc \in {"rollback", "require"} =>
          Agrees /\ known \in {"preparing", "prepared", "applying", "verifying", "rolling_back"}
    /\ pc = "rollback" => known # "preparing"

(* How far the files of an operation are.                                  *)
FilesOf(o, S) == \A i \in 1..Len(ops[o].files) : ops[o].files[i].state \in S
FilesFollow ==
    \A o \in OpIds :
        /\ ops[o].state = "preparing" => FilesOf(o, {"planned", "staged"})
        /\ ops[o].state \in {"prepared", "applying", "verifying"} =>
              FilesOf(o, {"staged", "applied", "verified"})
        /\ ops[o].state = "completed" => FilesOf(o, {"verified"})
Verified ==
    /\ pc \in Swapping \cup Recording => \A j \in 1..(idx - 1) : Files[j].state = "verified"
    /\ pc = "verified" => Row.state \in {"applied", "verified"}
    /\ pc \in {"git", "verifying", "verify", "completed"} => FilesOf(cur, {"verified"})

(* What recover_startup has still to visit.                                *)
Visits ==
    /\ cur \notin todo
    /\ phase = "serving" => todo = {}
    /\ phase = "recovering" => \A o \in todo : Active(o)
    /\ phase = "cleaning" => \A o \in todo : ~Active(o) /\ ops[o].cleanup

(* With a store that takes its writes nothing else is in flight.           *)
Settled ==
    faults = 0 =>
        \A o \in OpIds : Active(o) =>
            \/ ops[o].state = "recovery_required"
            \/ pc \in Called /\ o = cur
            \/ phase = "recovering" /\ o \in todo

(* Siblings: an operation that is cleaned up has none, the loops that      *)
(* remove them have removed the first ones, the loop that makes them has   *)
(* yet to make the last ones.                                              *)
Gone(o, n) == \A j \in 1..n : sibling[o][j] = None
CleanedUp == \A o \in OpIds : ~ops[o].cleanup => ~Active(o) /\ Gone(o, Len(sibling[o]))
SiblingsGo ==
    /\ pc \in {"cleanup", "unstage"} => Gone(cur, idx - 1)
    /\ pc = "unstage_mark" => Gone(cur, idx)
    /\ pc \in {"finish", "unstaged"} => Gone(cur, Len(sibling[cur]))
SiblingsCome ==
    /\ pc = "stage" => \A j \in idx..Len(sibling[cur]) : sibling[cur][j] = None
    /\ pc \in Staging => \A j \in (idx + 1)..Len(sibling[cur]) : sibling[cur][j] = None
    /\ pc \in Staging =>
          Row.staged = None /\ \A j \in (idx + 1)..Len(sibling[cur]) : Files[j].staged = None
    /\ pc \in {"fill", "staged", "journal"} => Locator # None
    /\ pc \in {"staged", "journal"} => Locator.bytes = PreOf(cur, idx)
    /\ pc \in {"swap", "swap_back"} => Locator # None /\ Row.staged # None

(* Restore sets: an active operation is alone on its set, which it does    *)
(* not consume before it completes.                                        *)
OnePerSet ==
    \A o \in OpIds :
        /\ Active(o) => setState[ops[o].set] = "eligible"
        /\ ops[o].state = "completed" => setState[ops[o].set] = "consumed"
        /\ \A x \in OpIds : x # o /\ ops[x].set = ops[o].set =>
              /\ ~(Active(o) /\ Active(x))
              /\ ~(ops[o].state = "completed" /\ ops[x].state = "completed")

(* Every newer turn that touched a path of an operation was undone before  *)
(* the operation began.                                                    *)
Undone(r, o) == \E x \in 1..(o - 1) : ops[x].set = r /\ ops[x].state = "completed"
Chained ==
    \A o \in OpIds : \A r \in 1..Sets : \A i \in DOMAIN Manifest[ops[o].set] :
        r > ops[o].set /\ Touches(r, PathOf(o, i)) => Undone(r, o)

(* So operations that share a path take turns.                             *)
Alone ==
    \A o \in OpIds : \A x \in 1..(o - 1) : \A p \in Paths :
        Touches(ops[o].set, p) /\ Touches(ops[x].set, p) => ~Active(x)

(* Identities.  The file of a turn is nowhere but at the paths it was the  *)
(* last to touch.                                                          *)
NotOlder(p, f) == \A r \in 1..Sets : Touches(r, p) => f.id > Sets \/ f.id >= r
Aged(p, f) == f.id < nextId /\ NotOlder(p, f)
Identities ==
    /\ nextId > Sets
    /\ \A p \in Paths : Aged(p, target[p]) /\ base[p].id < nextId
    /\ \A o \in OpIds : \A i \in DOMAIN Manifest[ops[o].set] :
          sibling[o][i] # None => Aged(PathOf(o, i), sibling[o][i])
Named ==
    \A o \in OpIds : \A i \in DOMAIN Manifest[ops[o].set] :
        LET f == ops[o].files[i] IN
        /\ f.expected.id < nextId /\ f.expected.bytes = Post(ops[o].set, PathOf(o, i))
        /\ f.state = "planned" => f.staged = None
        /\ f.state \in {"staged", "applied", "verified"} => f.staged # None
        /\ f.staged # None =>
              f.staged.bytes = PreOf(o, i) /\ f.staged.id > Sets /\ f.staged.id < nextId

(* A staged file belongs to one row; a sibling that no row names yet is    *)
(* nobody else's file; what others left at a path is no preimage that is   *)
(* still to be installed or was taken back.                                *)
StagedOnce ==
    \A o, x \in OpIds : \A i \in DOMAIN Manifest[ops[o].set], j \in DOMAIN Manifest[ops[x].set] :
        ops[o].files[i].staged # None /\ ops[x].files[j].staged # None
            /\ ops[o].files[i].staged.id = ops[x].files[j].staged.id => o = x /\ i = j
Unnamed(o, i) == ops[o].files[i].staged = None /\ sibling[o][i] # None
PlannedApart ==
    \A o \in OpIds : \A i \in DOMAIN Manifest[ops[o].set] : Unnamed(o, i) =>
        /\ sibling[o][i].id > Sets
        /\ \A p \in Paths : target[p].id # sibling[o][i].id /\ base[p].id # sibling[o][i].id
        /\ \A x \in OpIds : \A j \in DOMAIN Manifest[ops[x].set] :
              /\ ops[x].files[j].staged # None => ops[x].files[j].staged.id # sibling[o][i].id
              /\ sibling[x][j] # None /\ <<x, j>> # <<o, i>> => sibling[x][j].id # sibling[o][i].id
BaseInstalled ==
    \A o \in OpIds : \A i \in DOMAIN Manifest[ops[o].set] :
        ops[o].files[i].staged = base[PathOf(o, i)] => ops[o].state = "completed"

(* What became of a path that nobody wrote since the last operation on it  *)
(* began.                                                                  *)
Calm(o, i) ==
    /\ \A x \in (o + 1)..Len(ops) : ~Touches(ops[x].set, PathOf(o, i))
    /\ base[PathOf(o, i)] = ops[o].files[i].expected
Original(o, i) == Calm(o, i) => target[PathOf(o, i)] = ops[o].files[i].expected
Restored(o, i) == Calm(o, i) => target[PathOf(o, i)] = ops[o].files[i].staged
Outcome ==
    \A o \in OpIds : \A i \in DOMAIN Manifest[ops[o].set] :
        /\ ops[o].state \in {"preparing", "rolled_back"} => Original(o, i)
        /\ ops[o].state = "completed" => Restored(o, i)
OutcomeAt ==
    /\ pc \in Aborting \cup Unstaging \cup {"unstaged", "rolled_back"} =>
          \A i \in DOMAIN Manifest[ops[cur].set] : Original(cur, i)
    /\ pc \in Backing => \A i \in DOMAIN Manifest[ops[cur].set] : i > idx => Original(cur, i)
    /\ pc = "mark_back" => Original(cur, idx)
    /\ pc = "completed" \/ (pc \in Recording \cup {"verifying"} /\ phase = "recovering") =>
          \A i \in DOMAIN Manifest[ops[cur].set] : Restored(cur, i)

IInv ==
    /\ TypeOK /\ Places /\ JournalAt /\ FilesFollow /\ Verified /\ Visits /\ Settled
    /\ CleanedUp /\ SiblingsGo /\ SiblingsCome /\ OnePerSet /\ Chained /\ Alone
    /\ Identities /\ Named /\ StagedOnce /\ PlannedApart /\ BaseInstalled
    /\ NoFileIsLost /\ Outcome /\ OutcomeAt

-----------------------------------------------------------------------------
(* Numbers and manifests.                                                  *)

(* A set of naturals that is not empty has a least element.                *)
LEMMA LeastOf ==
    ASSUME NEW T \in SUBSET Nat, T # {}
    PROVE  Min(T) \in T
<1> DEFINE R == OpToRel(<, Nat)
<1>1. IsWellFoundedOn(R, Nat)
    BY NatLessThanWellFounded
<1> HIDE DEF R
<1>2. PICK x \in T : \A y \in T : ~(<<y, x>> \in R)
    BY <1>1, WFMin
<1>3. \A a, b \in Nat : a < b => <<a, b>> \in R
    BY DEF R, OpToRel
<1>4. \A y \in T : x <= y
    <2> TAKE y \in T
    <2>1. x \in Nat /\ y \in Nat /\ ~(y < x)
        BY <1>2, <1>3
    <2> QED
        BY <2>1
<1> QED
    BY <1>4 DEF Min

(* A set of turns that is not empty has a newest one.                      *)
LEMMA NewestOf ==
    ASSUME NEW T \in SUBSET (1..Sets), T # {}
    PROVE  Max(T) \in T /\ \A r \in T : r <= Max(T)
<1>0. Sets \in Nat
    BY UndoAssumption
<1> DEFINE D == {n \in Nat : Sets - n \in T}
<1>1. PICK r \in T : TRUE
    OBVIOUS
<1>2. Sets - r \in D
    BY <1>0
<1>3. D # {} /\ D \in SUBSET Nat
    BY <1>2
<1> DEFINE R == OpToRel(<, Nat)
<1>4. IsWellFoundedOn(R, Nat)
    BY NatLessThanWellFounded
<1>5. \A a, b \in Nat : a < b => <<a, b>> \in R
    BY DEF R, OpToRel
<1>6. PICK d \in D : \A y \in D : ~(<<y, d>> \in R)
    <2> HIDE DEF R, D
    <2> QED
        BY <1>3, <1>4, WFMin
<1> HIDE DEF R
<1>7. \A q \in T : q <= Sets - d
    <2> TAKE q \in T
    <2>1. Sets - q \in D
        BY <1>0
    <2>2. ~(Sets - q < d)
        BY <2>1, <1>5, <1>6
    <2> QED
        BY <1>0, <2>1, <2>2
<1>8. Sets - d \in T
    BY <1>6
<1>9. \E m \in T : \A y \in T : m >= y
    BY <1>0, <1>6, <1>7, <1>8
<1> QED
    BY <1>9 DEF Max

(* The manifest of a turn lists different paths, at least one.             *)
LEMMA ManifestOf ==
    ASSUME NEW s \in 1..Sets
    PROVE  /\ Manifest[s] \in Seq(Paths) /\ Len(Manifest[s]) \in Nat \ {0}
           /\ DOMAIN Manifest[s] = 1..Len(Manifest[s])
           /\ \A i \in 1..Len(Manifest[s]) : Manifest[s][i] \in Paths /\ Touches(s, Manifest[s][i])
           /\ \A i, j \in 1..Len(Manifest[s]) : Manifest[s][i] = Manifest[s][j] => i = j
<1>1. /\ Manifest[s] \in Seq(Paths) /\ Manifest[s] # <<>>
      /\ \A i, j \in DOMAIN Manifest[s] : Manifest[s][i] = Manifest[s][j] => i = j
    BY UndoAssumption
<1> QED
    BY <1>1 DEF Touches

(* Every path was touched by a turn.                                       *)
LEMMA PathTouched ==
    ASSUME NEW p \in Paths
    PROVE  \E r \in 1..Sets : Touches(r, p)
BY DEF Paths, Touches

(* How many turns touched a path before one.                               *)
LEMMA PreNat ==
    ASSUME NEW s \in Int, NEW p
    PROVE  /\ Pre(s, p) \in Nat /\ IsFiniteSet({r \in 1..Sets : r < s /\ Touches(r, p)})
           /\ Post(s, p) \in Nat \ {0}
<1> DEFINE S == {r \in 1..Sets : r < s /\ Touches(r, p)}
<1>1. IsFiniteSet(1..Sets)
    BY FS_Interval, UndoAssumption
<1>2. IsFiniteSet(S)
    BY <1>1, FS_Subset
<1>3. Cardinality(S) \in Nat
    BY <1>2, FS_CardinalityType
<1> QED
    BY <1>2, <1>3 DEF Pre, Post

(* When the preimage of r is the result of s, no turn between them touched *)
(* the path.                                                               *)
LEMMA NextToucher ==
    ASSUME NEW p, NEW s \in 1..Sets, NEW t \in 1..Sets, NEW r \in 1..Sets,
           Touches(s, p), Touches(t, p), Touches(r, p), Pre(t, p) = Post(s, p), r > s
    PROVE  r >= t
<1> DEFINE B(n) == {q \in 1..Sets : q < n /\ Touches(q, p)}
<1>0. Sets \in Nat
    BY UndoAssumption
<1>1. ASSUME NEW n \in 1..Sets PROVE IsFiniteSet(B(n)) /\ Cardinality(B(n)) = Pre(n, p)
             /\ Pre(n, p) \in Nat
    BY PreNat DEF Pre
<1>2. SUFFICES ASSUME r < t PROVE FALSE
    BY <1>0
<1>3. s \notin B(s) /\ r \notin B(s) \cup {s}
    BY <1>0
<1>4. B(s) \cup {s} \cup {r} \subseteq B(t)
    BY <1>0, <1>2
<1> HIDE DEF B
<1>5. IsFiniteSet(B(s) \cup {s}) /\ Cardinality(B(s) \cup {s}) = Pre(s, p) + 1
    BY <1>1, <1>3, FS_AddElement
<1>6. /\ IsFiniteSet(B(s) \cup {s} \cup {r})
      /\ Cardinality((B(s) \cup {s}) \cup {r}) = Pre(s, p) + 1 + 1
    <2> DEFINE C == B(s) \cup {s}
    <2>1. IsFiniteSet(C) /\ r \notin C
        BY <1>3, <1>5
    <2> HIDE DEF C
    <2>2. Cardinality(C \cup {r}) = Cardinality(C) + 1 /\ IsFiniteSet(C \cup {r})
        BY <2>1, FS_AddElement
    <2> QED
        BY <1>5, <2>2 DEF C
<1>7. Cardinality(B(s) \cup {s} \cup {r}) <= Cardinality(B(t))
    <2> DEFINE C == B(s) \cup {s} \cup {r}
    <2>1. C \in SUBSET B(t) /\ IsFiniteSet(B(t))
        BY <1>1, <1>4
    <2> HIDE DEF C
    <2>2. Cardinality(C) <= Cardinality(B(t))
        BY <2>1, FS_Subset
    <2> QED
        BY <2>2 DEF C
<1> QED
    BY <1>1, <1>6, <1>7 DEF Post

-----------------------------------------------------------------------------
(* What an update of the journal or of a locator changes.                  *)
OpMoves(st) ==
    /\ Len(ops') = Len(ops)
    /\ \A o \in OpIds : /\ ops'[o].set = ops[o].set /\ ops'[o].cleanup = ops[o].cleanup
                        /\ ops'[o].files = ops[o].files
                        /\ ops'[o].state = IF o = cur THEN st ELSE ops[o].state
RowMoves(st, f) ==
    /\ Len(ops') = Len(ops)
    /\ \A o \in OpIds : /\ ops'[o].set = ops[o].set /\ ops'[o].cleanup = ops[o].cleanup
                        /\ ops'[o].state = ops[o].state /\ Len(ops'[o].files) = Len(ops[o].files)
                        /\ o # cur => ops'[o].files = ops[o].files
                        /\ \A i \in 1..Len(ops[o].files) :
                              /\ ops'[o].files[i].expected = ops[o].files[i].expected
                              /\ ops'[o].files[i].state =
                                    IF o = cur /\ i = idx THEN st ELSE ops[o].files[i].state
                              /\ ops'[o].files[i].staged =
                                    IF o = cur /\ i = idx THEN f ELSE ops[o].files[i].staged
CleanupEnds ==
    /\ Len(ops') = Len(ops)
    /\ \A o \in OpIds : /\ ops'[o].set = ops[o].set /\ ops'[o].state = ops[o].state
                        /\ ops'[o].files = ops[o].files
                        /\ ops'[o].cleanup = IF o = cur THEN FALSE ELSE ops[o].cleanup
LocatorMoves(f) ==
    /\ Len(sibling') = Len(sibling)
    /\ \A o \in OpIds : /\ Len(sibling'[o]) = Len(sibling[o])
                        /\ o # cur => sibling'[o] = sibling[o]
                        /\ \A i \in 1..Len(sibling[o]) :
                              sibling'[o][i] = IF o = cur /\ i = idx THEN f ELSE sibling[o][i]

(* The row of an operation.                                                *)
LEMMA RowsTyped ==
    ASSUME JournalTyped
    PROVE  /\ Len(ops) \in Nat /\ OpIds = 1..Len(ops) /\ DOMAIN ops = 1..Len(ops)
           /\ \A o \in OpIds :
                 /\ ops[o] \in OpRows /\ ops[o].set \in 1..Sets /\ ops[o].state \in OpStates
                 /\ ops[o].cleanup \in BOOLEAN /\ ops[o].files \in Seq(FileRows)
                 /\ Len(ops[o].files) = Len(Manifest[ops[o].set])
                 /\ DOMAIN ops[o].files = 1..Len(ops[o].files)
                 /\ Len(ops[o].files) \in Nat \ {0}
                 /\ \A i \in 1..Len(ops[o].files) :
                       /\ ops[o].files[i] \in FileRows
                       /\ ops[o].files[i].state \in FileStates
                       /\ ops[o].files[i].expected \in FileType
                       /\ ops[o].files[i].staged \in FileType \cup {None}
<1>1. /\ Len(ops) \in Nat /\ OpIds = 1..Len(ops) /\ DOMAIN ops = 1..Len(ops)
      /\ \A o \in OpIds : ops[o] \in OpRows /\ Len(ops[o].files) = Len(Manifest[ops[o].set])
    BY DEF JournalTyped, OpIds
<1>2. ASSUME NEW o \in OpIds
      PROVE  /\ ops[o].set \in 1..Sets /\ ops[o].state \in OpStates
             /\ ops[o].cleanup \in BOOLEAN /\ ops[o].files \in Seq(FileRows)
    BY <1>1 DEF OpRows
<1>3. ASSUME NEW o \in OpIds, NEW i \in 1..Len(ops[o].files)
      PROVE  /\ ops[o].files[i] \in FileRows
             /\ ops[o].files[i].state \in FileStates
             /\ ops[o].files[i].expected \in FileType
             /\ ops[o].files[i].staged \in FileType \cup {None}
    <2>1. ops[o].files[i] \in FileRows
        BY <1>2
    <2> QED
        BY <2>1 DEF FileRows
<1>4. ASSUME NEW o \in OpIds
      PROVE  DOMAIN ops[o].files = 1..Len(ops[o].files) /\ Len(ops[o].files) \in Nat \ {0}
    BY <1>1, <1>2, ManifestOf, SMTT(30)
<1> QED
    BY <1>1, <1>2, <1>3, <1>4

(* The bytes of a preimage and of a turn's result are numbers.             *)
LEMMA PreOfNat ==
    ASSUME JournalTyped, NEW o \in OpIds, NEW i
    PROVE  PreOf(o, i) \in Nat /\ Post(ops[o].set, PathOf(o, i)) \in Nat \ {0}
<1> DEFINE s == ops[o].set
           p == PathOf(o, i)
<1>1. s \in Int
    BY RowsTyped, UndoAssumption
<1> HIDE DEF s, p
<1>2. Pre(s, p) \in Nat /\ Post(s, p) \in Nat \ {0}
    BY <1>1, PreNat
<1> QED
    BY <1>2 DEF PreOf, s, p

(* One locator for every path of the manifest.                             *)
LEMMA SiblingsTyped ==
    ASSUME WorkspaceTyped, JournalTyped
    PROVE  /\ DOMAIN sibling = OpIds
           /\ \A o \in OpIds : /\ sibling[o] \in Seq(FileType \cup {None})
                               /\ DOMAIN sibling[o] = 1..Len(sibling[o])
                               /\ Len(sibling[o]) = Len(Manifest[ops[o].set])
                               /\ \A i \in 1..Len(sibling[o]) : sibling[o][i] \in FileType \cup {None}
BY DEF WorkspaceTyped, JournalTyped, OpIds

(* transition_undo_operation writes one state.                             *)
LEMMA SetOpMoves ==
    ASSUME JournalTyped, cur \in OpIds, NEW st \in OpStates, SetOp(st)
    PROVE  OpMoves(st) /\ ops' \in Seq(OpRows)
<1> DEFINE row == [ops[cur] EXCEPT !.state = st]
<1>1. ops' = [ops EXCEPT ![cur] = row]
    BY DEF SetOp
<1>2. /\ row \in OpRows /\ row.state = st /\ row.set = ops[cur].set
      /\ row.cleanup = ops[cur].cleanup /\ row.files = ops[cur].files
    BY RowsTyped DEF OpRows
<1> HIDE DEF row
<1>3. Len(ops') = Len(ops) /\ ops' \in Seq(OpRows)
    BY <1>1, <1>2 DEF JournalTyped, OpIds
<1>4. \A o \in OpIds : ops'[o] = IF o = cur THEN row ELSE ops[o]
    BY <1>1 DEF JournalTyped, OpIds
<1> QED
    BY <1>2, <1>3, <1>4 DEF OpMoves

SetRow(r) == ops' = [ops EXCEPT ![cur].files[idx] = r]

(* A file row of the current operation is replaced.                        *)
LEMMA RowReplaced ==
    ASSUME JournalTyped, cur \in OpIds, idx \in 1..Len(ops[cur].files), NEW r \in FileRows,
           r.expected = Row.expected, SetRow(r)
    PROVE  RowMoves(r.state, r.staged) /\ ops' \in Seq(OpRows)
<1> DEFINE fs1 == [ops[cur].files EXCEPT ![idx] = r]
           row == [ops[cur] EXCEPT !.files = fs1]
<1>1. ops' = [ops EXCEPT ![cur] = row]
    BY DEF SetRow
<1>2. /\ fs1 \in Seq(FileRows) /\ Len(fs1) = Len(ops[cur].files)
      /\ \A i \in 1..Len(ops[cur].files) : fs1[i] = IF i = idx THEN r ELSE ops[cur].files[i]
    BY RowsTyped
<1> HIDE DEF fs1
<1>3. /\ row \in OpRows /\ row.state = ops[cur].state /\ row.set = ops[cur].set
      /\ row.cleanup = ops[cur].cleanup /\ row.files = fs1
    BY <1>2, RowsTyped DEF OpRows
<1> HIDE DEF row
<1>4. Len(ops') = Len(ops) /\ ops' \in Seq(OpRows)
    BY <1>1, <1>3 DEF JournalTyped, OpIds
<1>5. \A o \in OpIds : ops'[o] = IF o = cur THEN row ELSE ops[o]
    BY <1>1 DEF JournalTyped, OpIds
<1> QED
    BY <1>2, <1>3, <1>4, <1>5 DEF RowMoves, Row, Files

(* The journal writes the state of one file row,                           *)
LEMMA SetFileMoves ==
    ASSUME JournalTyped, cur \in OpIds, idx \in 1..Len(ops[cur].files), NEW st \in FileStates,
           SetFile(st)
    PROVE  RowMoves(st, Row.staged) /\ ops' \in Seq(OpRows)
<1> DEFINE r == [Row EXCEPT !.state = st]
<1>1. Row \in FileRows
    BY RowsTyped DEF Row, Files
<1>2. r \in FileRows /\ r.expected = Row.expected /\ r.state = st /\ r.staged = Row.staged
    BY <1>1 DEF FileRows
<1>3. SetRow(r)
    BY DEF SetRow, SetFile, Row, Files
<1> HIDE DEF r
<1> QED
    BY <1>2, <1>3, RowReplaced

(* or the identity of the staged file with it,                             *)
LEMMA JournalMoves ==
    ASSUME JournalTyped, cur \in OpIds, idx \in 1..Len(ops[cur].files),
           Locator \in FileType \cup {None}, SetStaged(Locator)
    PROVE  RowMoves("staged", Locator) /\ ops' \in Seq(OpRows)
<1> DEFINE r == [Row EXCEPT !.state = "staged", !.staged = Locator]
<1>1. Row \in FileRows
    BY RowsTyped DEF Row, Files
<1>2. r \in FileRows /\ r.expected = Row.expected /\ r.state = "staged" /\ r.staged = Locator
    BY <1>1 DEF FileRows, FileStates
<1>3. SetRow(r)
    BY RowsTyped DEF SetRow, SetStaged, Row, Files, OpRows
<1> HIDE DEF r
<1> QED
    BY <1>2, <1>3, RowReplaced

(* or that the cleanup is done.                                            *)
LEMMA FinishMoves ==
    ASSUME JournalTyped, cur \in OpIds, ClearCleanup
    PROVE  CleanupEnds /\ ops' \in Seq(OpRows)
<1> DEFINE row == [ops[cur] EXCEPT !.cleanup = FALSE]
<1>1. ops' = [ops EXCEPT ![cur] = row]
    BY DEF ClearCleanup
<1>2. /\ row \in OpRows /\ row.cleanup = FALSE /\ row.set = ops[cur].set
      /\ row.state = ops[cur].state /\ row.files = ops[cur].files
    BY RowsTyped DEF OpRows
<1> HIDE DEF row
<1>3. Len(ops') = Len(ops) /\ ops' \in Seq(OpRows)
    BY <1>1, <1>2 DEF JournalTyped, OpIds
<1>4. \A o \in OpIds : ops'[o] = IF o = cur THEN row ELSE ops[o]
    BY <1>1 DEF JournalTyped, OpIds
<1> QED
    BY <1>2, <1>3, <1>4 DEF CleanupEnds

(* A file-system call changes one locator.                                 *)
LEMMA SetLocatorMoves ==
    ASSUME WorkspaceTyped, JournalTyped, cur \in OpIds, idx \in 1..Len(sibling[cur]),
           NEW f \in FileType \cup {None}, SetLocator(f)
    PROVE  LocatorMoves(f) /\ sibling' \in Seq(Seq(FileType \cup {None}))
<1> DEFINE row == [sibling[cur] EXCEPT ![idx] = f]
<1>1. sibling' = [sibling EXCEPT ![cur] = row]
    BY DEF SetLocator
<1>2. /\ row \in Seq(FileType \cup {None}) /\ Len(row) = Len(sibling[cur])
      /\ \A i \in 1..Len(sibling[cur]) : row[i] = IF i = idx THEN f ELSE sibling[cur][i]
    BY SiblingsTyped
<1> HIDE DEF row
<1>3. Len(sibling') = Len(sibling) /\ sibling' \in Seq(Seq(FileType \cup {None}))
    BY <1>1, <1>2, SiblingsTyped DEF WorkspaceTyped
<1>4. \A o \in OpIds : sibling'[o] = IF o = cur THEN row ELSE sibling[o]
    BY <1>1, SiblingsTyped DEF WorkspaceTyped
<1> QED
    BY <1>2, <1>3, <1>4 DEF LocatorMoves

-----------------------------------------------------------------------------
(* What a step does to workspace and journal.                              *)
Untouched == UNCHANGED <<target, sibling, nextId, base>>
Still == Untouched /\ UNCHANGED <<ops, setState>>
Moves(st) ==
    /\ cur \in OpIds /\ Active(cur) /\ OpMoves(st) /\ ops' \in Seq(OpRows) /\ Untouched
    /\ st \in OpStates \ {"preparing"}
    /\ setState' = IF st = "completed" THEN [setState EXCEPT ![ops[cur].set] = "consumed"] ELSE setState
    /\ st = "prepared" => FilesOf(cur, {"staged"})
    /\ st = "applying" => ops[cur].state = "prepared"
    /\ st = "verifying" => ops[cur].state = "applying"
    /\ st = "completed" => /\ FilesOf(cur, {"verified"})
                           /\ \A i \in DOMAIN Manifest[ops[cur].set] : Restored(cur, i)
    /\ st = "rolled_back" => \A i \in DOMAIN Manifest[ops[cur].set] : Original(cur, i)
AtRow == cur \in OpIds /\ idx \in 1..Len(Manifest[ops[cur].set])
Marks(st) ==
    /\ AtRow /\ RowMoves(st, Row.staged) /\ ops' \in Seq(OpRows) /\ Untouched /\ UNCHANGED setState
    /\ \/ ops[cur].state = "rolling_back" /\ st \in {"rolled_back", "recovery_required"}
       \/ /\ ops[cur].state \in {"applying", "verifying"} /\ Row.state \in {"staged", "applied"}
          /\ st \in {"applied", "verified"}
Names ==
    /\ AtRow /\ RowMoves("staged", Locator) /\ ops' \in Seq(OpRows) /\ Untouched
       /\ UNCHANGED setState
    /\ ops[cur].state = "preparing" /\ Row.staged = None /\ Locator # None
    /\ Locator.bytes = PreOf(cur, idx)
Finishes ==
    /\ cur \in OpIds /\ CleanupEnds /\ ops' \in Seq(OpRows) /\ Untouched /\ UNCHANGED setState
    /\ ~Active(cur) /\ Gone(cur, Len(sibling[cur]))
Relocates(f) ==
    /\ AtRow /\ ops[cur].cleanup /\ LocatorMoves(f)
    /\ sibling' \in Seq(Seq(FileType \cup {None})) /\ UNCHANGED <<ops, setState, base>>
Removes ==
    /\ Relocates(None) /\ UNCHANGED <<target, nextId>> /\ Locator # None
    /\ \/ Row.staged = None
       \/ Row.staged = Locator /\ ops[cur].state # "completed"
       \/ Row.expected = Locator /\ ops[cur].state = "completed"
Creates ==
    /\ Relocates(File(Partial, nextId)) /\ UNCHANGED target /\ nextId' = nextId + 1
    /\ Locator = None /\ Row.staged = None
Fills ==
    /\ Relocates(File(PreOf(cur, idx), Locator.id)) /\ UNCHANGED <<target, nextId>>
    /\ Locator # None /\ Row.staged = None
Swaps ==
    /\ Relocates(target[Here]) /\ target' = [target EXCEPT ![Here] = Locator] /\ UNCHANGED nextId
    /\ Locator # None /\ Row.staged # None /\ ops[cur].state \in {"applying", "rolling_back"}
Installed(p, s) ==
    \/ target[p].id = s
    \/ \E x \in OpIds : /\ ops[x].state = "completed" /\ ops[x].set # s
                       /\ \E j \in 1..Len(Manifest[ops[x].set]) :
                             PathOf(x, j) = p /\ ops[x].files[j].staged = target[p]
Begins(s, n) ==
    /\ n = Len(ops) + 1
    /\ setState[s] = "eligible" /\ \A o \in OpIds : ops[o].set = s => ~Active(o)
    /\ Len(ops') = n /\ Len(sibling') = n /\ ops' \in Seq(OpRows)
    /\ sibling' \in Seq(Seq(FileType \cup {None}))
    /\ \A o \in OpIds : ops'[o] = ops[o] /\ sibling'[o] = sibling[o]
    /\ ops'[n].set = s /\ ops'[n].state = "preparing" /\ ops'[n].cleanup = TRUE
    /\ Len(ops'[n].files) = Len(Manifest[s]) /\ Len(sibling'[n]) = Len(Manifest[s])
    /\ \A i \in 1..Len(Manifest[s]) :
          /\ ops'[n].files[i].state = "planned" /\ ops'[n].files[i].staged = None
          /\ ops'[n].files[i].expected = target[Manifest[s][i]] /\ sibling'[n][i] = None
          /\ target[Manifest[s][i]].bytes = Post(s, Manifest[s][i])
          /\ Installed(Manifest[s][i], s)
    /\ UNCHANGED <<target, nextId, setState>> /\ base' \in [Paths -> FileType]
    /\ \A p \in Paths : base'[p] = IF Touches(s, p) THEN target[p] ELSE base[p]
Rewrites(p, f) ==
    /\ f.bytes = Foreign \/ f.id = nextId
    /\ f.id \in {nextId, target[p].id}
    /\ target' = [target EXCEPT ![p] = f] /\ base' = [base EXCEPT ![p] = f]
    /\ nextId' = nextId + 1 /\ UNCHANGED <<sibling, ops, setState>>
Effect ==
    \/ Still \/ (\E st \in OpStates : Moves(st)) \/ (\E st \in FileStates : Marks(st))
    \/ Names \/ Finishes \/ Removes \/ Creates \/ Fills \/ Swaps
    \/ (\E s \in 1..Sets, n \in Nat : Begins(s, n))
       \/ \E p \in Paths, f \in FileType : Rewrites(p, f)

(* The row and the locator a step works on.                                *)
LEMMA HereTyped ==
    ASSUME TypeOK, AtRow
    PROVE  /\ idx \in 1..Len(ops[cur].files) /\ idx \in 1..Len(sibling[cur])
           /\ idx \in DOMAIN Manifest[ops[cur].set] /\ idx \in Nat /\ cur \in OpIds
           /\ Row \in FileRows /\ Row.state \in FileStates /\ Row.expected \in FileType
           /\ Row.staged \in FileType \cup {None} /\ Locator \in FileType \cup {None}
           /\ Here \in Paths /\ target[Here] \in FileType /\ ops[cur].set \in 1..Sets
           /\ PreOf(cur, idx) \in Nat /\ Here = Manifest[ops[cur].set][idx]
           /\ Count = Len(Manifest[ops[cur].set]) /\ Count \in Nat \ {0}
<1>1. ops[cur].set \in 1..Sets /\ idx \in 1..Len(ops[cur].files) /\ cur \in OpIds
    BY RowsTyped DEF TypeOK, AtRow
<1>2. Row \in FileRows /\ Row.state \in FileStates /\ Row.expected \in FileType
      /\ Row.staged \in FileType \cup {None}
    BY <1>1, RowsTyped DEF TypeOK, Row, Files
<1>3. idx \in 1..Len(sibling[cur]) /\ Locator \in FileType \cup {None}
    BY <1>1, SiblingsTyped DEF TypeOK, AtRow, Locator
<1>4. idx \in DOMAIN Manifest[ops[cur].set] /\ idx \in Nat /\ Here \in Paths
      /\ Here = Manifest[ops[cur].set][idx]
    BY <1>1, ManifestOf DEF AtRow, Here, PathOf
<1>5. target[Here] \in FileType
    BY <1>4 DEF TypeOK, WorkspaceTyped
<1>6. PreOf(cur, idx) \in Nat
    BY <1>1, PreOfNat DEF TypeOK
<1>7. Count = Len(Manifest[ops[cur].set]) /\ Count \in Nat \ {0}
    BY <1>1, RowsTyped DEF TypeOK, Count, Files
<1> QED
    BY <1>1, <1>2, <1>3, <1>4, <1>5, <1>6, <1>7

(* In a loop over the files there is a row to work on.                     *)
LEMMA AtRowHere ==
    ASSUME Places, pc \in AtFile
    PROVE  AtRow /\ ops[cur].cleanup
BY DEF Places, AtRow, Called

(* Steps that only look, or that concern the call or the world.            *)
LEMMA StillSteps ==
    ASSUME \/ ApplyCheck \/ ApplyVerify \/ CheckGit \/ FinalVerify \/ RollbackCheck
              \/ RollbackVerify
           \/ RecoverNext \/ RecoverOperation \/ RecoverCleanup \/ ExecuteBlocked
              \/ ExternalGit \/ Crash
           \/ (\E s \in 1..Sets, b \in {"turn_result", "after_completed_undo"} : Prepare(s, b))
           \/ UNCHANGED vars
    PROVE  Still
BY DEF ApplyCheck, ApplyVerify, CheckGit, FinalVerify, RollbackCheck, RollbackVerify,
   RecoverNext,
   RecoverOperation, RecoverCleanup, ExecuteBlocked, ExternalGit, Crash, Prepare, vars, Still,
   Untouched, fs, db, world

(* The compare-and-swaps of the journal.                                   *)
LEMMA MoveSteps ==
    ASSUME TypeOK, Places, JournalAt, OutcomeAt,
           \/ RequireRecovery \/ ToPrepared \/ ToApplying \/ ToVerifying \/ LostVerifying
              \/ ToCompleted
           \/ Rollback \/ ToRolledBack \/ AbortPreparing \/ RecoverPreparing \/ RecoverUnstaged
    PROVE  Still \/ \E st \in OpStates : Moves(st)
<1>1. CASE RequireRecovery
    <2>1. pc = "require" /\ cur \in OpIds /\ UNCHANGED <<target, sibling, nextId, base>>
        BY <1>1 DEF RequireRecovery, Move, fs, world, Places, Staging, Swapping, Recording,
           Backing, Aborting, Unstaging, AtFile, Called
    <2>2. ops[cur].state \notin {"completed", "rolled_back"}
        BY <2>1 DEF JournalAt, Agrees, Staging, Swapping, Recording, Backing, Aborting,
           Unstaging, AtFile, Called
    <2>3. CASE CanMove(known, "recovery_required") /\ SetOp("recovery_required")
        <3>1. OpMoves("recovery_required") /\ ops' \in Seq(OpRows)
            BY <2>1, <2>3, SetOpMoves DEF TypeOK, OpStates
        <3>2. setState' = setState
            BY <1>1, <2>1, <3>1 DEF RequireRecovery, Move, OpMoves, db
        <3> QED
            BY <2>1, <2>2, <3>1, <3>2 DEF Moves, Untouched, Active, OpStates
    <2>4. CASE UNCHANGED ops
        BY <1>1, <2>1, <2>2, <2>4 DEF RequireRecovery, Move, Still, Untouched, db
    <2> QED
        BY <1>1, <2>3, <2>4 DEF RequireRecovery, Move, db
<1>2. CASE ToPrepared
    <2>1. pc = "prepared" /\ cur \in OpIds /\ UNCHANGED <<target, sibling, nextId, base>>
        BY <1>2 DEF ToPrepared, Move, fs, world, Places, Staging, Swapping, Recording,
           Backing, Aborting, Unstaging, AtFile, Called
    <2>2. ops[cur].state \notin {"completed", "rolled_back"}
        BY <2>1 DEF JournalAt, Agrees, Staging, Swapping, Recording, Backing, Aborting,
           Unstaging, AtFile, Called
    <2>3. CASE CanMove("preparing", "prepared") /\ SetOp("prepared")
        <3>1. OpMoves("prepared") /\ ops' \in Seq(OpRows)
            BY <2>1, <2>3, SetOpMoves DEF TypeOK, OpStates
        <3>2. setState' = setState
            BY <1>2, <2>1, <3>1 DEF ToPrepared, Move, OpMoves, db
        <3>3. FilesOf(cur, {"staged"})
            BY <2>1, <2>3 DEF CanMove, AllFiles, FilesOf, Files, Count
        <3> QED
            BY <2>1, <2>2, <3>1, <3>2, <3>3 DEF Moves, Untouched, Active, OpStates
    <2>4. CASE UNCHANGED ops
        BY <1>2, <2>1, <2>2, <2>4 DEF ToPrepared, Move, Still, Untouched, db
    <2> QED
        BY <1>2, <2>3, <2>4 DEF ToPrepared, Move, db
<1>3. CASE ToApplying
    <2>1. pc = "applying" /\ cur \in OpIds /\ UNCHANGED <<target, sibling, nextId, base>>
        BY <1>3 DEF ToApplying, Move, fs, world, Places, Staging, Swapping, Recording,
           Backing, Aborting, Unstaging, AtFile, Called
    <2>2. ops[cur].state \notin {"completed", "rolled_back"}
        BY <2>1 DEF JournalAt, Agrees, Staging, Swapping, Recording, Backing, Aborting,
           Unstaging, AtFile, Called
    <2>3. CASE CanMove("prepared", "applying") /\ SetOp("applying")
        <3>1. OpMoves("applying") /\ ops' \in Seq(OpRows)
            BY <2>1, <2>3, SetOpMoves DEF TypeOK, OpStates
        <3>2. setState' = setState
            BY <1>3, <2>1, <3>1 DEF ToApplying, Move, OpMoves, db
        <3>3. ops[cur].state = "prepared"
            BY <2>1, <2>3 DEF CanMove
        <3> QED
            BY <2>1, <2>2, <3>1, <3>2, <3>3 DEF Moves, Untouched, Active, OpStates
    <2>4. CASE UNCHANGED ops
        BY <1>3, <2>1, <2>2, <2>4 DEF ToApplying, Move, Still, Untouched, db
    <2> QED
        BY <1>3, <2>3, <2>4 DEF ToApplying, Move, db
<1>4. CASE ToVerifying
    <2>1. pc = "verifying" /\ cur \in OpIds /\ UNCHANGED <<target, sibling, nextId, base>>
        BY <1>4 DEF ToVerifying, Move, fs, world, Places, Staging, Swapping, Recording,
           Backing, Aborting, Unstaging, AtFile, Called
    <2>2. ops[cur].state \notin {"completed", "rolled_back"}
        BY <2>1 DEF JournalAt, Agrees, Staging, Swapping, Recording, Backing, Aborting,
           Unstaging, AtFile, Called
    <2>3. CASE CanMove("applying", "verifying") /\ SetOp("verifying")
        <3>1. OpMoves("verifying") /\ ops' \in Seq(OpRows)
            BY <2>1, <2>3, SetOpMoves DEF TypeOK, OpStates
        <3>2. setState' = setState
            BY <1>4, <2>1, <3>1 DEF ToVerifying, Move, OpMoves, db
        <3>3. ops[cur].state = "applying"
            BY <2>1, <2>3 DEF CanMove
        <3> QED
            BY <2>1, <2>2, <3>1, <3>2, <3>3 DEF Moves, Untouched, Active, OpStates
    <2>4. CASE UNCHANGED ops
        BY <1>4, <2>1, <2>2, <2>4 DEF ToVerifying, Move, Still, Untouched, db
    <2> QED
        BY <1>4, <2>3, <2>4 DEF ToVerifying, Move, db
<1>5. CASE LostVerifying
    <2>1. pc = "lost" /\ cur \in OpIds /\ UNCHANGED <<target, sibling, nextId, base>>
        BY <1>5 DEF LostVerifying, Move, fs, world, Places, Staging, Swapping, Recording,
           Backing, Aborting, Unstaging, AtFile, Called
    <2>2. ops[cur].state \notin {"completed", "rolled_back"}
        BY <2>1 DEF JournalAt, Agrees, Staging, Swapping, Recording, Backing, Aborting,
           Unstaging, AtFile, Called
    <2>3. CASE CanMove("applying", "verifying") /\ SetOp("verifying")
        <3>1. OpMoves("verifying") /\ ops' \in Seq(OpRows)
            BY <2>1, <2>3, SetOpMoves DEF TypeOK, OpStates
        <3>2. setState' = setState
            BY <1>5, <2>1, <3>1 DEF LostVerifying, Move, OpMoves, db
        <3>3. ops[cur].state = "applying"
            BY <2>1, <2>3 DEF CanMove
        <3> QED
            BY <2>1, <2>2, <3>1, <3>2, <3>3 DEF Moves, Untouched, Active, OpStates
    <2>4. CASE UNCHANGED ops
        BY <1>5, <2>1, <2>2, <2>4 DEF LostVerifying, Move, Still, Untouched, db
    <2> QED
        BY <1>5, <2>3, <2>4 DEF LostVerifying, Move, db
<1>6. CASE ToCompleted
    <2>1. pc = "completed" /\ cur \in OpIds /\ UNCHANGED <<target, sibling, nextId, base>>
        BY <1>6 DEF ToCompleted, Move, fs, world, Places, Staging, Swapping, Recording,
           Backing, Aborting, Unstaging, AtFile, Called
    <2>2. ops[cur].state \notin {"completed", "rolled_back"}
        BY <2>1 DEF JournalAt, Agrees, Staging, Swapping, Recording, Backing, Aborting,
           Unstaging, AtFile, Called
    <2>3. CASE CanMove("verifying", "completed") /\ SetOp("completed")
        <3>1. OpMoves("completed") /\ ops' \in Seq(OpRows)
            BY <2>1, <2>3, SetOpMoves DEF TypeOK, OpStates
        <3>2. setState' = [setState EXCEPT ![ops[cur].set] = "consumed"]
            BY <1>6, <2>1, <3>1 DEF ToCompleted, Move, OpMoves, db
        <3>3. FilesOf(cur, {"verified"})
              /\ \A i \in DOMAIN Manifest[ops[cur].set] : Restored(cur, i)
            BY <2>1, <2>3 DEF CanMove, AllFiles, FilesOf, Files, Count, OutcomeAt
        <3> QED
            BY <2>1, <2>2, <3>1, <3>2, <3>3 DEF Moves, Untouched, Active, OpStates
    <2>4. CASE UNCHANGED ops
        BY <1>6, <2>1, <2>2, <2>4 DEF ToCompleted, Move, Still, Untouched, db
    <2> QED
        BY <1>6, <2>3, <2>4 DEF ToCompleted, Move, db
<1>7. CASE Rollback
    <2>1. pc = "rollback" /\ cur \in OpIds /\ UNCHANGED <<target, sibling, nextId, base>>
        BY <1>7 DEF Rollback, Move, fs, world, Places, Staging, Swapping, Recording,
           Backing, Aborting, Unstaging, AtFile, Called
    <2>2. ops[cur].state \notin {"completed", "rolled_back"}
        BY <2>1 DEF JournalAt, Agrees, Staging, Swapping, Recording, Backing, Aborting,
           Unstaging, AtFile, Called
    <2>3. CASE CanMove(known, "rolling_back") /\ SetOp("rolling_back")
        <3>1. OpMoves("rolling_back") /\ ops' \in Seq(OpRows)
            BY <2>1, <2>3, SetOpMoves DEF TypeOK, OpStates
        <3>2. setState' = setState
            BY <1>7, <2>1, <3>1 DEF Rollback, Move, OpMoves, db
        <3> QED
            BY <2>1, <2>2, <3>1, <3>2 DEF Moves, Untouched, Active, OpStates
    <2>4. CASE UNCHANGED ops
        BY <1>7, <2>1, <2>2, <2>4 DEF Rollback, Move, Still, Untouched, db
    <2> QED
        BY <1>7, <2>3, <2>4 DEF Rollback, Move, db
<1>8. CASE ToRolledBack
    <2>1. pc = "rolled_back" /\ cur \in OpIds /\ UNCHANGED <<target, sibling, nextId, base>>
        BY <1>8 DEF ToRolledBack, Move, fs, world, Places, Staging, Swapping, Recording,
           Backing, Aborting, Unstaging, AtFile, Called
    <2>2. ops[cur].state \notin {"completed", "rolled_back"}
        BY <2>1 DEF JournalAt, Agrees, Staging, Swapping, Recording, Backing, Aborting,
           Unstaging, AtFile, Called
    <2>3. CASE CanMove("rolling_back", "rolled_back") /\ SetOp("rolled_back")
        <3>1. OpMoves("rolled_back") /\ ops' \in Seq(OpRows)
            BY <2>1, <2>3, SetOpMoves DEF TypeOK, OpStates
        <3>2. setState' = setState
            BY <1>8, <2>1, <3>1 DEF ToRolledBack, Move, OpMoves, db
        <3>3. \A i \in DOMAIN Manifest[ops[cur].set] : Original(cur, i)
            BY <2>1, <2>3 DEF OutcomeAt
        <3> QED
            BY <2>1, <2>2, <3>1, <3>2, <3>3 DEF Moves, Untouched, Active, OpStates
    <2>4. CASE UNCHANGED ops
        BY <1>8, <2>1, <2>2, <2>4 DEF ToRolledBack, Move, Still, Untouched, db
    <2> QED
        BY <1>8, <2>3, <2>4 DEF ToRolledBack, Move, db
<1>9. CASE AbortPreparing
    <2>1. pc = "abort" /\ cur \in OpIds /\ UNCHANGED <<target, sibling, nextId, base>>
        BY <1>9 DEF AbortPreparing, Move, fs, world, Places, Staging, Swapping, Recording,
           Backing, Aborting, Unstaging, AtFile, Called
    <2>2. ops[cur].state \notin {"completed", "rolled_back"}
        BY <2>1 DEF JournalAt, Agrees, Staging, Swapping, Recording, Backing, Aborting,
           Unstaging, AtFile, Called
    <2>3. CASE CanMove("preparing", "rolling_back") /\ SetOp("rolling_back")
        <3>1. OpMoves("rolling_back") /\ ops' \in Seq(OpRows)
            BY <2>1, <2>3, SetOpMoves DEF TypeOK, OpStates
        <3>2. setState' = setState
            BY <1>9, <2>1, <3>1 DEF AbortPreparing, Move, OpMoves, db
        <3> QED
            BY <2>1, <2>2, <3>1, <3>2 DEF Moves, Untouched, Active, OpStates
    <2>4. CASE UNCHANGED ops
        BY <1>9, <2>1, <2>2, <2>4 DEF AbortPreparing, Move, Still, Untouched, db
    <2> QED
        BY <1>9, <2>3, <2>4 DEF AbortPreparing, Move, db
<1>10. CASE RecoverPreparing
    <2>1. pc = "recover_preparing" /\ cur \in OpIds /\ UNCHANGED <<target, sibling, nextId, base>>
        BY <1>10 DEF RecoverPreparing, Move, fs, world, Places, Staging, Swapping,
           Recording, Backing, Aborting, Unstaging, AtFile, Called
    <2>2. ops[cur].state \notin {"completed", "rolled_back"}
        BY <2>1 DEF JournalAt, Agrees, Staging, Swapping, Recording, Backing, Aborting,
           Unstaging, AtFile, Called
    <2>3. CASE CanMove("preparing", "rolling_back") /\ SetOp("rolling_back")
        <3>1. OpMoves("rolling_back") /\ ops' \in Seq(OpRows)
            BY <2>1, <2>3, SetOpMoves DEF TypeOK, OpStates
        <3>2. setState' = setState
            BY <1>10, <2>1, <3>1 DEF RecoverPreparing, Move, OpMoves, db
        <3> QED
            BY <2>1, <2>2, <3>1, <3>2 DEF Moves, Untouched, Active, OpStates
    <2>4. CASE UNCHANGED ops
        BY <1>10, <2>1, <2>2, <2>4 DEF RecoverPreparing, Move, Still, Untouched, db
    <2> QED
        BY <1>10, <2>3, <2>4 DEF RecoverPreparing, Move, db
<1>11. CASE RecoverUnstaged
    <2>1. pc = "unstaged" /\ cur \in OpIds /\ UNCHANGED <<target, sibling, nextId, base>>
        BY <1>11 DEF RecoverUnstaged, Move, fs, world, Places, Staging, Swapping, Recording,
           Backing, Aborting, Unstaging, AtFile, Called
    <2>2. ops[cur].state \notin {"completed", "rolled_back"}
        BY <2>1 DEF JournalAt, Agrees, Staging, Swapping, Recording, Backing, Aborting,
           Unstaging, AtFile, Called
    <2>3. CASE CanMove("rolling_back", "rolled_back") /\ SetOp("rolled_back")
        <3>1. OpMoves("rolled_back") /\ ops' \in Seq(OpRows)
            BY <2>1, <2>3, SetOpMoves DEF TypeOK, OpStates
        <3>2. setState' = setState
            BY <1>11, <2>1, <3>1 DEF RecoverUnstaged, Move, OpMoves, db
        <3>3. \A i \in DOMAIN Manifest[ops[cur].set] : Original(cur, i)
            BY <2>1, <2>3 DEF OutcomeAt
        <3> QED
            BY <2>1, <2>2, <3>1, <3>2, <3>3 DEF Moves, Untouched, Active, OpStates
    <2>4. CASE UNCHANGED ops
        BY <1>11, <2>1, <2>2, <2>4 DEF RecoverUnstaged, Move, Still, Untouched, db
    <2> QED
        BY <1>11, <2>3, <2>4 DEF RecoverUnstaged, Move, db
<1> QED
    BY <1>1, <1>2, <1>3, <1>4, <1>5, <1>6, <1>7, <1>8, <1>9, <1>10, <1>11

(* The state of one file.                                                  *)
LEMMA MarkSteps ==
    ASSUME TypeOK, Places, JournalAt,
           \/ RecordApplied \/ RecordVerified \/ RollbackMark \/ AbortMark
           \/ RecoverUnstageMark \/ MarkRecovery
    PROVE  Still \/ \E st \in FileStates : Marks(st)
<1>1. CASE RecordApplied
    <2>1. pc = "applied" /\ UNCHANGED <<target, sibling, nextId, base, setState>>
        BY <1>1 DEF RecordApplied, fs, world
    <2>2. AtRow
        BY <2>1, AtRowHere DEF Staging, Swapping, Recording, Backing, Aborting, Unstaging,
           AtFile, Called
    <2>3. CASE SetFile("applied") /\ Row.state \in {"staged", "applied"}
        <3>1. RowMoves("applied", Row.staged) /\ ops' \in Seq(OpRows)
            BY <2>2, <2>3, HereTyped, SetFileMoves DEF TypeOK, FileStates
        <3>2. ops[cur].state \in {"applying", "verifying"}
            BY <2>1 DEF JournalAt, Staging, Swapping, Recording, Backing, Aborting,
               Unstaging, AtFile, Called
        <3> QED
            BY <2>1, <2>2, <2>3, <3>1, <3>2 DEF Marks, Untouched, FileStates
    <2>4. CASE UNCHANGED ops
        BY <2>1, <2>4 DEF Still, Untouched
    <2> QED
        BY <1>1, <2>3, <2>4 DEF RecordApplied
<1>2. CASE RecordVerified
    <2>1. pc = "verified" /\ UNCHANGED <<target, sibling, nextId, base, setState>>
        BY <1>2 DEF RecordVerified, fs, world
    <2>2. AtRow
        BY <2>1, AtRowHere DEF Staging, Swapping, Recording, Backing, Aborting, Unstaging,
           AtFile, Called
    <2>3. CASE SetFile("verified") /\ Row.state \in {"staged", "applied"}
        <3>1. RowMoves("verified", Row.staged) /\ ops' \in Seq(OpRows)
            BY <2>2, <2>3, HereTyped, SetFileMoves DEF TypeOK, FileStates
        <3>2. ops[cur].state \in {"applying", "verifying"}
            BY <2>1 DEF JournalAt, Staging, Swapping, Recording, Backing, Aborting,
               Unstaging, AtFile, Called
        <3> QED
            BY <2>1, <2>2, <2>3, <3>1, <3>2 DEF Marks, Untouched, FileStates
    <2>4. CASE UNCHANGED ops
        BY <2>1, <2>4 DEF Still, Untouched
    <2> QED
        BY <1>2, <2>3, <2>4 DEF RecordVerified
<1>3. CASE RollbackMark
    <2>1. pc = "mark_back" /\ UNCHANGED <<target, sibling, nextId, base, setState>>
        BY <1>3 DEF RollbackMark, MarkRolledBack, fs, world
    <2>2. AtRow
        BY <2>1, AtRowHere DEF Staging, Swapping, Recording, Backing, Aborting, Unstaging,
           AtFile, Called
    <2>3. CASE SetFile("rolled_back") /\ TRUE
        <3>1. RowMoves("rolled_back", Row.staged) /\ ops' \in Seq(OpRows)
            BY <2>2, <2>3, HereTyped, SetFileMoves DEF TypeOK, FileStates
        <3>2. ops[cur].state = "rolling_back"
            BY <2>1 DEF JournalAt, Staging, Swapping, Recording, Backing, Aborting,
               Unstaging, AtFile, Called
        <3> QED
            BY <2>1, <2>2, <2>3, <3>1, <3>2 DEF Marks, Untouched, FileStates
    <2>4. CASE UNCHANGED ops
        BY <2>1, <2>4 DEF Still, Untouched
    <2> QED
        BY <1>3, <2>3, <2>4 DEF RollbackMark, MarkRolledBack
<1>4. CASE AbortMark
    <2>1. pc = "abort_mark" /\ UNCHANGED <<target, sibling, nextId, base, setState>>
        BY <1>4 DEF AbortMark, MarkRolledBack, fs, world
    <2>2. AtRow
        BY <2>1, AtRowHere DEF Staging, Swapping, Recording, Backing, Aborting, Unstaging,
           AtFile, Called
    <2>3. CASE SetFile("rolled_back") /\ TRUE
        <3>1. RowMoves("rolled_back", Row.staged) /\ ops' \in Seq(OpRows)
            BY <2>2, <2>3, HereTyped, SetFileMoves DEF TypeOK, FileStates
        <3>2. ops[cur].state = "rolling_back"
            BY <2>1 DEF JournalAt, Staging, Swapping, Recording, Backing, Aborting,
               Unstaging, AtFile, Called
        <3> QED
            BY <2>1, <2>2, <2>3, <3>1, <3>2 DEF Marks, Untouched, FileStates
    <2>4. CASE UNCHANGED ops
        BY <2>1, <2>4 DEF Still, Untouched
    <2> QED
        BY <1>4, <2>3, <2>4 DEF AbortMark, MarkRolledBack
<1>5. CASE RecoverUnstageMark
    <2>1. pc = "unstage_mark" /\ UNCHANGED <<target, sibling, nextId, base, setState>>
        BY <1>5 DEF RecoverUnstageMark, MarkRolledBack, fs, world
    <2>2. AtRow
        BY <2>1, AtRowHere DEF Staging, Swapping, Recording, Backing, Aborting, Unstaging,
           AtFile, Called
    <2>3. CASE SetFile("rolled_back") /\ TRUE
        <3>1. RowMoves("rolled_back", Row.staged) /\ ops' \in Seq(OpRows)
            BY <2>2, <2>3, HereTyped, SetFileMoves DEF TypeOK, FileStates
        <3>2. ops[cur].state = "rolling_back"
            BY <2>1 DEF JournalAt, Staging, Swapping, Recording, Backing, Aborting,
               Unstaging, AtFile, Called
        <3> QED
            BY <2>1, <2>2, <2>3, <3>1, <3>2 DEF Marks, Untouched, FileStates
    <2>4. CASE UNCHANGED ops
        BY <2>1, <2>4 DEF Still, Untouched
    <2> QED
        BY <1>5, <2>3, <2>4 DEF RecoverUnstageMark, MarkRolledBack
<1>6. CASE MarkRecovery
    <2>1. pc = "mark" /\ UNCHANGED <<target, sibling, nextId, base, setState>>
        BY <1>6 DEF MarkRecovery, fs, world
    <2>2. AtRow
        BY <2>1, AtRowHere DEF Staging, Swapping, Recording, Backing, Aborting, Unstaging,
           AtFile, Called
    <2>3. CASE SetFile("recovery_required") /\ TRUE
        <3>1. RowMoves("recovery_required", Row.staged) /\ ops' \in Seq(OpRows)
            BY <2>2, <2>3, HereTyped, SetFileMoves DEF TypeOK, FileStates
        <3>2. ops[cur].state = "rolling_back"
            BY <2>1 DEF JournalAt, Staging, Swapping, Recording, Backing, Aborting,
               Unstaging, AtFile, Called
        <3> QED
            BY <2>1, <2>2, <2>3, <3>1, <3>2 DEF Marks, Untouched, FileStates
    <2>4. CASE UNCHANGED ops
        BY <2>1, <2>4 DEF Still, Untouched
    <2> QED
        BY <1>6, <2>3, <2>4 DEF MarkRecovery
<1> QED
    BY <1>1, <1>2, <1>3, <1>4, <1>5, <1>6

(* The journal names a staged file; an operation has been cleaned up.      *)
LEMMA NameSteps ==
    ASSUME TypeOK, Places, JournalAt, SiblingsGo, SiblingsCome, StageJournal \/ FinishCleanup
    PROVE  Still \/ Names \/ Finishes
<1>1. CASE StageJournal
    <2>1. pc = "journal" /\ UNCHANGED <<target, sibling, nextId, base, setState>>
        BY <1>1 DEF StageJournal, fs, world
    <2>2. AtRow
        BY <2>1, AtRowHere DEF Staging, Swapping, Recording, Backing, Aborting, Unstaging,
           AtFile, Called
    <2>3. /\ ops[cur].state = "preparing" /\ Row.staged = None /\ Locator # None
          /\ Locator.bytes = PreOf(cur, idx)
        BY <2>1 DEF JournalAt, SiblingsCome, Staging, Swapping, Recording, Backing,
           Aborting, Unstaging, AtFile, Called
    <2>4. CASE SetStaged(Locator)
        <3>1. RowMoves("staged", Locator) /\ ops' \in Seq(OpRows)
            BY <2>2, <2>4, HereTyped, JournalMoves DEF TypeOK
        <3> QED
            BY <2>1, <2>2, <2>3, <3>1 DEF Names, Untouched
    <2>5. CASE UNCHANGED ops
        BY <2>1, <2>5 DEF Still, Untouched
    <2> QED
        BY <1>1, <2>4, <2>5 DEF StageJournal
<1>2. CASE FinishCleanup
    <2>1. pc = "finish" /\ UNCHANGED <<target, sibling, nextId, base, setState>>
        BY <1>2 DEF FinishCleanup, fs, world
    <2>2. cur \in OpIds /\ ~Active(cur) /\ Gone(cur, Len(sibling[cur]))
        BY <2>1 DEF Places, JournalAt, SiblingsGo, Active, Staging, Swapping, Recording,
           Backing, Aborting, Unstaging, AtFile, Called
    <2>3. CASE ClearCleanup
        <3>1. CleanupEnds /\ ops' \in Seq(OpRows)
            BY <2>2, <2>3, FinishMoves DEF TypeOK
        <3> QED
            BY <2>1, <2>2, <3>1 DEF Finishes, Untouched
    <2>4. CASE UNCHANGED ops
        BY <2>1, <2>4 DEF Still, Untouched
    <2> QED
        BY <1>2, <2>3, <2>4 DEF FinishCleanup
<1> QED
    BY <1>1, <1>2

(* The exchange locators.                                                  *)
LEMMA LocatorSteps ==
    ASSUME TypeOK, Places, JournalAt, FilesFollow, SiblingsCome, Named,
           \/ StageCreate \/ StageFill \/ StageCheck \/ CleanupTerminal \/ AbortFile
              \/ RecoverUnstage
           \/ ApplySwap \/ RollbackSwap
    PROVE  Still \/ Removes \/ Creates \/ Fills \/ Swaps
<1>1. CASE StageCreate
    <2>1. pc = "stage" /\ UNCHANGED <<ops, setState, base>>
        BY <1>1 DEF StageCreate, db, world
    <2>2. AtRow /\ ops[cur].cleanup
        BY <2>1, AtRowHere DEF Staging, Swapping, Recording, Backing, Aborting, Unstaging,
           AtFile, Called
    <2>3. CASE SetLocator(File(Partial, nextId)) /\ nextId' = nextId + 1 /\ UNCHANGED target
        <3>1. File(Partial, nextId) \in FileType \cup {None}
            BY <2>1, <2>2, HereTyped, NoneAssumption DEF File, FileType, Partial, TypeOK,
               WorkspaceTyped
        <3>2. Relocates(File(Partial, nextId))
            BY <2>1, <2>2, <2>3, <3>1, HereTyped, SetLocatorMoves DEF TypeOK, Relocates,
               Exchange
        <3>3. Locator = None /\ Row.staged = None
            BY <1>1, <2>1, <2>2, <2>3, HereTyped DEF SiblingsCome, Locator, TypeOK,
               WorkspaceTyped, Staging, Swapping, Recording, Backing, Aborting, Unstaging,
               AtFile, Called
        <3> QED
            BY <2>1, <2>2, <2>3, <3>2, <3>3 DEF Creates, Exchange
    <2>4. CASE UNCHANGED <<target, sibling, nextId>>
        BY <2>1, <2>4 DEF Still, Untouched
    <2> QED
        BY <1>1, <2>3, <2>4 DEF StageCreate
<1>2. CASE StageFill
    <2>1. pc = "fill" /\ UNCHANGED <<ops, setState, base>>
        BY <1>2 DEF StageFill, db, world
    <2>2. AtRow /\ ops[cur].cleanup
        BY <2>1, AtRowHere DEF Staging, Swapping, Recording, Backing, Aborting, Unstaging,
           AtFile, Called
    <2>3. CASE SetLocator(File(PreOf(cur, idx), Locator.id)) /\ UNCHANGED <<target, nextId>>
        <3>1. File(PreOf(cur, idx), Locator.id) \in FileType \cup {None}
            BY <2>1, <2>2, HereTyped, NoneAssumption DEF File, FileType, SiblingsCome
        <3>2. Relocates(File(PreOf(cur, idx), Locator.id))
            BY <2>1, <2>2, <2>3, <3>1, HereTyped, SetLocatorMoves DEF TypeOK, Relocates,
               Exchange
        <3>3. Locator # None /\ Row.staged = None
            BY <1>2, <2>1, <2>2, <2>3, HereTyped DEF SiblingsCome, Staging, Swapping,
               Recording, Backing, Aborting, Unstaging, AtFile, Called
        <3> QED
            BY <2>1, <2>2, <2>3, <3>2, <3>3 DEF Fills, Exchange
    <2>4. CASE SetLocator(None) /\ UNCHANGED <<target, nextId>>
        <3>1. None \in FileType \cup {None}
            BY <2>1, <2>2, HereTyped, NoneAssumption
        <3>2. Relocates(None)
            BY <2>1, <2>2, <2>4, <3>1, HereTyped, SetLocatorMoves DEF TypeOK, Relocates,
               Exchange
        <3>3. Locator # None /\ Row.staged = None
            BY <1>2, <2>1, <2>2, <2>4, HereTyped DEF SiblingsCome, Staging, Swapping,
               Recording, Backing, Aborting, Unstaging, AtFile, Called
        <3> QED
            BY <2>1, <2>2, <2>4, <3>2, <3>3 DEF Removes, Exchange
    <2>5. CASE UNCHANGED <<target, sibling, nextId>>
        BY <2>1, <2>5 DEF Still, Untouched
    <2> QED
        BY <1>2, <2>3, <2>4, <2>5 DEF StageFill
<1>3. CASE StageCheck
    <2>1. pc = "staged" /\ UNCHANGED <<ops, setState, base>>
        BY <1>3 DEF StageCheck, db, world
    <2>2. AtRow /\ ops[cur].cleanup
        BY <2>1, AtRowHere DEF Staging, Swapping, Recording, Backing, Aborting, Unstaging,
           AtFile, Called
    <2>3. CASE SetLocator(None) /\ UNCHANGED <<target, nextId>>
        <3>1. None \in FileType \cup {None}
            BY <2>1, <2>2, HereTyped, NoneAssumption
        <3>2. Relocates(None)
            BY <2>1, <2>2, <2>3, <3>1, HereTyped, SetLocatorMoves DEF TypeOK, Relocates,
               Exchange
        <3>3. Locator # None /\ Row.staged = None
            BY <1>3, <2>1, <2>2, <2>3, HereTyped DEF SiblingsCome, Staging, Swapping,
               Recording, Backing, Aborting, Unstaging, AtFile, Called
        <3> QED
            BY <2>1, <2>2, <2>3, <3>2, <3>3 DEF Removes, Exchange
    <2>4. CASE UNCHANGED <<target, sibling, nextId>>
        BY <2>1, <2>4 DEF Still, Untouched
    <2> QED
        BY <1>3, <2>3, <2>4 DEF StageCheck
<1>4. CASE CleanupTerminal
    <2>1. pc = "cleanup" /\ UNCHANGED <<ops, setState, base>>
        BY <1>4 DEF CleanupTerminal, db, world
    <2>2. AtRow /\ ops[cur].cleanup
        BY <2>1, AtRowHere DEF Staging, Swapping, Recording, Backing, Aborting, Unstaging,
           AtFile, Called
    <2>3. CASE SetLocator(None) /\ Locator # None /\ Locator = Leftover
               /\ UNCHANGED <<target, nextId>>
        <3>1. None \in FileType \cup {None}
            BY <2>1, <2>2, HereTyped, NoneAssumption
        <3>2. Relocates(None)
            BY <2>1, <2>2, <2>3, <3>1, HereTyped, SetLocatorMoves DEF TypeOK, Relocates,
               Exchange
        <3>3. (Row.staged = Locator /\ ops[cur].state # "completed")
              \/ (Row.expected = Locator /\ ops[cur].state = "completed")
            BY <1>4, <2>1, <2>2, <2>3, HereTyped DEF JournalAt, Leftover, Staging, Swapping,
               Recording, Backing, Aborting, Unstaging, AtFile, Called
        <3> QED
            BY <2>1, <2>2, <2>3, <3>2, <3>3 DEF Removes, Exchange
    <2>4. CASE UNCHANGED <<target, sibling, nextId>>
        BY <2>1, <2>4 DEF Still, Untouched
    <2> QED
        BY <1>4, <2>3, <2>4 DEF CleanupTerminal
<1>5. CASE AbortFile
    <2>1. pc = "abort_file" /\ UNCHANGED <<ops, setState, base>>
        BY <1>5 DEF AbortFile, db, world
    <2>2. AtRow /\ ops[cur].cleanup
        BY <2>1, AtRowHere DEF Staging, Swapping, Recording, Backing, Aborting, Unstaging,
           AtFile, Called
    <2>3. CASE SetLocator(None) /\ Row.staged # None /\ Locator = Row.staged
               /\ UNCHANGED <<target, nextId>>
        <3>1. None \in FileType \cup {None}
            BY <2>1, <2>2, HereTyped, NoneAssumption
        <3>2. Relocates(None)
            BY <2>1, <2>2, <2>3, <3>1, HereTyped, SetLocatorMoves DEF TypeOK, Relocates,
               Exchange
        <3>3. Row.staged = Locator /\ ops[cur].state # "completed"
            BY <1>5, <2>1, <2>2, <2>3, HereTyped DEF JournalAt, Staging, Swapping,
               Recording, Backing, Aborting, Unstaging, AtFile, Called
        <3> QED
            BY <2>1, <2>2, <2>3, <3>2, <3>3 DEF Removes, Exchange
    <2>4. CASE UNCHANGED <<target, sibling, nextId>>
        BY <2>1, <2>4 DEF Still, Untouched
    <2> QED
        BY <1>5, <2>3, <2>4 DEF AbortFile
<1>6. CASE RecoverUnstage
    <2>1. pc = "unstage" /\ UNCHANGED <<ops, setState, base>>
        BY <1>6 DEF RecoverUnstage, db, world
    <2>2. AtRow /\ ops[cur].cleanup
        BY <2>1, AtRowHere DEF Staging, Swapping, Recording, Backing, Aborting, Unstaging,
           AtFile, Called
    <2>3. CASE SetLocator(None) /\ Removable /\ UNCHANGED <<target, nextId>>
        <3>1. None \in FileType \cup {None}
            BY <2>1, <2>2, HereTyped, NoneAssumption
        <3>2. Relocates(None)
            BY <2>1, <2>2, <2>3, <3>1, HereTyped, SetLocatorMoves DEF TypeOK, Relocates,
               Exchange
        <3>3. Locator # None
              /\ (Row.staged = None \/ (Row.staged = Locator /\ ops[cur].state # "completed"))
            BY <1>6, <2>1, <2>2, <2>3, HereTyped DEF JournalAt, Named, Removable,
               PairIsUnapplied, Row, Files, Locator, Staging, Swapping, Recording, Backing,
               Aborting, Unstaging, AtFile, Called
        <3> QED
            BY <2>1, <2>2, <2>3, <3>2, <3>3 DEF Removes, Exchange
    <2>4. CASE UNCHANGED <<target, sibling, nextId>>
        BY <2>1, <2>4 DEF Still, Untouched
    <2> QED
        BY <1>6, <2>3, <2>4 DEF RecoverUnstage
<1>7. CASE ApplySwap
    <2>1. pc = "swap" /\ UNCHANGED <<ops, setState, base>>
        BY <1>7 DEF ApplySwap, db, world
    <2>2. AtRow /\ ops[cur].cleanup
        BY <2>1, AtRowHere DEF Staging, Swapping, Recording, Backing, Aborting, Unstaging,
           AtFile, Called
    <2>3. CASE Exchange /\ UNCHANGED nextId
        <3>1. target[Here] \in FileType \cup {None}
            BY <2>1, <2>2, HereTyped, NoneAssumption
        <3>2. Relocates(target[Here])
            BY <2>1, <2>2, <2>3, <3>1, HereTyped, SetLocatorMoves DEF TypeOK, Relocates,
               Exchange
        <3>3. Locator # None /\ Row.staged # None /\ ops[cur].state \in {"applying", "rolling_back"}
            BY <1>7, <2>1, <2>2, <2>3, HereTyped DEF JournalAt, SiblingsCome, Staging,
               Swapping, Recording, Backing, Aborting, Unstaging, AtFile, Called
        <3> QED
            BY <2>1, <2>2, <2>3, <3>2, <3>3 DEF Swaps, Exchange
    <2>4. CASE UNCHANGED <<target, sibling, nextId>>
        BY <2>1, <2>4 DEF Still, Untouched
    <2> QED
        BY <1>7, <2>3, <2>4 DEF ApplySwap
<1>8. CASE RollbackSwap
    <2>1. pc = "swap_back" /\ UNCHANGED <<ops, setState, base>>
        BY <1>8 DEF RollbackSwap, db, world
    <2>2. AtRow /\ ops[cur].cleanup
        BY <2>1, AtRowHere DEF Staging, Swapping, Recording, Backing, Aborting, Unstaging,
           AtFile, Called
    <2>3. CASE Exchange /\ UNCHANGED nextId
        <3>1. target[Here] \in FileType \cup {None}
            BY <2>1, <2>2, HereTyped, NoneAssumption
        <3>2. Relocates(target[Here])
            BY <2>1, <2>2, <2>3, <3>1, HereTyped, SetLocatorMoves DEF TypeOK, Relocates,
               Exchange
        <3>3. Locator # None /\ Row.staged # None /\ ops[cur].state \in {"applying", "rolling_back"}
            BY <1>8, <2>1, <2>2, <2>3, HereTyped DEF JournalAt, SiblingsCome, Staging,
               Swapping, Recording, Backing, Aborting, Unstaging, AtFile, Called
        <3> QED
            BY <2>1, <2>2, <2>3, <3>2, <3>3 DEF Swaps, Exchange
    <2>4. CASE UNCHANGED <<target, sibling, nextId>>
        BY <2>1, <2>4 DEF Still, Untouched
    <2> QED
        BY <1>8, <2>3, <2>4 DEF RollbackSwap
<1> QED
    BY <1>1, <1>2, <1>3, <1>4, <1>5, <1>6, <1>7, <1>8

(* A new operation.                                                        *)
LEMMA ExecuteBegins ==
    ASSUME TypeOK, Execute
    PROVE  \E s \in 1..Sets, n \in Nat : Begins(s, n)
<1> DEFINE s == token.set
<1>0. PICK n \in Nat : n = Len(ops) + 1
    BY RowsTyped DEF TypeOK
<1>1. token \in Tokens /\ Len(token.want) = Len(Manifest[s])
    BY DEF TypeOK, CallTyped, Execute
<1>2. s \in 1..Sets /\ token.want \in Seq(Wants)
    BY <1>1 DEF Tokens
<1>3. /\ DOMAIN token.want = 1..Len(Manifest[s]) /\ Len(Manifest[s]) \in Nat
      /\ \A i \in 1..Len(Manifest[s]) :
            /\ token.want[i] \in Wants /\ token.want[i].expected \in FileType
            /\ token.want[i].from \in Nat
    <2>1. DOMAIN token.want = 1..Len(Manifest[s]) /\ Len(Manifest[s]) \in Nat
        BY <1>1, <1>2, ManifestOf
    <2>2. ASSUME NEW i \in 1..Len(Manifest[s]) PROVE token.want[i] \in Wants
        BY <1>2, <2>1
    <2>3. \A w \in Wants : w.expected \in FileType /\ w.from \in Nat
        BY DEF Wants
    <2> QED
        BY <2>1, <2>2, <2>3
<1> DEFINE rows == [i \in 1..Len(Manifest[s]) |->
                       [state |-> "planned", staged |-> None,
                        expected |-> token.want[i].expected, from |-> token.want[i].from]]
           row == [set |-> s, state |-> "preparing", cleanup |-> TRUE, files |-> rows]
           sibs == [i \in 1..Len(Manifest[s]) |-> None]
<1>4. /\ rows \in Seq(FileRows) /\ Len(rows) = Len(Manifest[s])
      /\ \A i \in 1..Len(Manifest[s]) : /\ rows[i].state = "planned" /\ rows[i].staged = None
                                         /\ rows[i].expected = token.want[i].expected
    <2>1. \A i \in 1..Len(Manifest[s]) : rows[i] \in FileRows
        BY <1>3 DEF FileRows, FileStates
    <2>2. \A i \in 1..Len(Manifest[s]) : /\ rows[i].state = "planned" /\ rows[i].staged = None
                                         /\ rows[i].expected = token.want[i].expected
        OBVIOUS
    <2>3. DOMAIN rows = 1..Len(Manifest[s]) /\ rows = [i \in 1..Len(Manifest[s]) |-> rows[i]]
        OBVIOUS
    <2> HIDE DEF rows
    <2>4. rows \in [1..Len(Manifest[s]) -> FileRows]
        BY <2>1, <2>3
    <2>5. rows \in Seq(FileRows) /\ Len(rows) = Len(Manifest[s])
        BY <1>3, <2>4
    <2> QED
        BY <2>2, <2>5
<1>5. /\ sibs \in Seq(FileType \cup {None}) /\ Len(sibs) = Len(Manifest[s])
      /\ \A i \in 1..Len(Manifest[s]) : sibs[i] = None
    BY <1>3
<1>6. ops' = Append(ops, row) /\ sibling' = Append(sibling, sibs)
    BY <1>3 DEF Execute, NewOperation
<1> HIDE DEF rows, sibs
<1>7. /\ row \in OpRows /\ row.set = s /\ row.state = "preparing" /\ row.cleanup = TRUE
      /\ row.files = rows
    BY <1>2, <1>4 DEF OpRows, OpStates
<1> HIDE DEF row
<1>8. /\ Len(ops') = n /\ ops' \in Seq(OpRows) /\ ops'[n] = row
      /\ \A o \in OpIds : ops'[o] = ops[o]
    BY <1>0, <1>6, <1>7 DEF TypeOK, JournalTyped, OpIds
<1>9. /\ Len(sibling') = n /\ sibling' \in Seq(Seq(FileType \cup {None})) /\ sibling'[n] = sibs
      /\ \A o \in OpIds : sibling'[o] = sibling[o]
    BY <1>0, <1>5, <1>6 DEF TypeOK, WorkspaceTyped, OpIds
<1>10. /\ setState[s] = "eligible" /\ \A o \in OpIds : ops[o].set = s => ~Active(o)
       /\ \A i \in 1..Len(Manifest[s]) :
             token.want[i] \in ExpectedResult(s, Manifest[s][i], token.binding)
    BY <1>3 DEF Execute, StillPrepared
<1>11. ASSUME NEW i \in 1..Len(Manifest[s])
       PROVE  LET p == Manifest[s][i] IN
              /\ token.want[i].expected = target[p] /\ target[p].bytes = Post(s, p)
              /\ Installed(p, s)
    <2> DEFINE p == Manifest[s][i]
    <2>1. token.want[i] \in ExpectedResult(s, p, token.binding)
        BY <1>10
    <2>2. CASE target[p] = TurnResult(s, p)
        BY <2>1, <2>2 DEF ExpectedResult, TurnResult, File, Installed
    <2>3. CASE target[p] # TurnResult(s, p)
        <3>1. target[p].bytes = Post(s, p)
            BY <2>1, <2>3 DEF ExpectedResult
        <3>2. PICK x \in ChainSources(s, p, target[p]) : token.want[i] = [expected |-> target[p], from |-> x]
            BY <2>1, <2>3 DEF ExpectedResult
        <3>3. x \in OpIds /\ DOMAIN ops[x].files = 1..Len(Manifest[ops[x].set])
            BY <3>2, RowsTyped DEF ChainSources, TypeOK
        <3>4. Installed(p, s)
            BY <3>2, <3>3 DEF ChainSources, Installed
        <3> QED
            BY <3>1, <3>2, <3>4
    <2> QED
        BY <2>2, <2>3
<1>12. /\ UNCHANGED <<target, nextId, setState>> /\ base' \in [Paths -> FileType]
       /\ \A p \in Paths : base'[p] = IF Touches(s, p) THEN target[p] ELSE base[p]
    BY DEF Execute, TypeOK, WorkspaceTyped
<1>13. Begins(s, n)
    BY <1>0, <1>4, <1>5, <1>7, <1>8, <1>9, <1>10, <1>11, <1>12 DEF Begins
<1> QED
    BY <1>2, <1>13

(* A write of another program.                                             *)
LEMMA PutRewrites ==
    ASSUME TypeOK, NEW p \in Paths, Put(p)
    PROVE  \E f \in FileType : Rewrites(p, f)
<1>1. PICK f \in NewContents(p) : target' = [target EXCEPT ![p] = f]
      /\ base' = [base EXCEPT ![p] = f]
    BY DEF Put
<1>2. target[p] \in FileType /\ nextId \in Nat
    BY DEF TypeOK, WorkspaceTyped
<1>3. /\ f \in [bytes : {Foreign, target[p].bytes}, id : {nextId, target[p].id}] /\ f # target[p]
    BY <1>1 DEF NewContents
<1>4. f \in FileType
    BY <1>2, <1>3 DEF FileType, Foreign
<1>5. (f.bytes = Foreign \/ f.id = nextId) /\ f.id \in {nextId, target[p].id}
    BY <1>2, <1>3, <1>4 DEF FileType
<1> QED
    BY <1>1, <1>4, <1>5 DEF Rewrites, Put, db

(* Every step is one of these.                                             *)
LEMMA Effects ==
    ASSUME IInv, [Next]_vars
    PROVE  Effect
<1>1. CASE \/ ApplyCheck \/ ApplyVerify \/ CheckGit \/ FinalVerify \/ RollbackCheck
              \/ RollbackVerify
           \/ RecoverNext \/ RecoverOperation \/ RecoverCleanup \/ ExecuteBlocked
              \/ ExternalGit \/ Crash
           \/ (\E s \in 1..Sets, b \in {"turn_result", "after_completed_undo"} : Prepare(s, b))
           \/ UNCHANGED vars
    BY <1>1, StillSteps DEF Effect
<1>2. CASE \/ RequireRecovery \/ ToPrepared \/ ToApplying \/ ToVerifying \/ LostVerifying
              \/ ToCompleted
           \/ Rollback \/ ToRolledBack \/ AbortPreparing \/ RecoverPreparing \/ RecoverUnstaged
    BY <1>2, MoveSteps DEF Effect, IInv
<1>3. CASE \/ RecordApplied \/ RecordVerified \/ RollbackMark \/ AbortMark
           \/ RecoverUnstageMark \/ MarkRecovery
    BY <1>3, MarkSteps DEF Effect, IInv
<1>4. CASE StageJournal \/ FinishCleanup
    BY <1>4, NameSteps DEF Effect, IInv
<1>5. CASE \/ StageCreate \/ StageFill \/ StageCheck \/ CleanupTerminal \/ AbortFile
              \/ RecoverUnstage
           \/ ApplySwap \/ RollbackSwap
    BY <1>5, LocatorSteps DEF Effect, IInv
<1>6. CASE Execute \/ \E p \in Paths : ExternalEdit(p) \/ AppMutation(p)
    BY <1>6, ExecuteBegins, PutRewrites DEF Effect, ExternalEdit, AppMutation, IInv
<1> QED
    BY <1>1, <1>2, <1>3, <1>4, <1>5, <1>6 DEF Next, Step

-----------------------------------------------------------------------------
(* The workspace and the journal, whatever step is taken.                  *)

(* Everything but a new operation keeps the rows and what they expect.     *)
SameRows ==
    /\ Len(ops') = Len(ops)
    /\ \A o \in OpIds :
          /\ ops'[o].set = ops[o].set /\ Len(ops'[o].files) = Len(ops[o].files)
          /\ \A i \in 1..Len(Manifest[ops[o].set]) :
                ops'[o].files[i].expected = ops[o].files[i].expected

(* Rows are only added by a new operation.                                 *)
LEMMA RowsStay ==
    ASSUME TypeOK, Effect
    PROVE  SameRows \/ \E s \in 1..Sets, n \in Nat : Begins(s, n)
<1>1. CASE UNCHANGED ops
    BY <1>1 DEF SameRows, OpIds
<1>2. CASE \E st \in OpStates : Moves(st)
    BY <1>2 DEF Moves, OpMoves, SameRows
<1>3. CASE (\E st \in FileStates : Marks(st)) \/ Names
    <2>1. PICK st, f : RowMoves(st, f)
        BY <1>3 DEF Marks, Names
    <2>2. \A o \in OpIds : Len(Manifest[ops[o].set]) = Len(ops[o].files)
        BY RowsTyped DEF TypeOK
    <2>3. ASSUME NEW o \in OpIds
          PROVE  /\ ops'[o].set = ops[o].set /\ Len(ops'[o].files) = Len(ops[o].files)
                 /\ \A i \in 1..Len(ops[o].files) :
                       ops'[o].files[i].expected = ops[o].files[i].expected
        BY <2>1 DEF RowMoves
    <2>4. Len(ops') = Len(ops)
        BY <2>1 DEF RowMoves
    <2> QED
        BY <2>2, <2>3, <2>4 DEF SameRows
<1>4. CASE Finishes
    BY <1>4 DEF Finishes, CleanupEnds, SameRows
<1> QED
    BY <1>1, <1>2, <1>3, <1>4
    DEF Effect, Still, Removes, Creates, Fills, Swaps, Relocates, Rewrites

(* A new operation is the only row a step adds.                            *)
LEMMA NewRow ==
    ASSUME TypeOK, NEW s \in 1..Sets, NEW n \in Nat, Begins(s, n)
    PROVE  /\ OpIds' = OpIds \cup {n} /\ n \notin OpIds /\ \A o \in OpIds : o < n
           /\ \A o \in OpIds : ops'[o] = ops[o]
           /\ ops'[n].set = s /\ ops'[n].state = "preparing" /\ ops'[n].cleanup = TRUE
<1>1. Len(ops) \in Nat /\ Len(ops') = n /\ n = Len(ops) + 1
    BY RowsTyped DEF Begins, TypeOK
<1>2. /\ OpIds' = OpIds \cup {n} /\ n \notin OpIds /\ \A o \in OpIds : o < n
    BY <1>1 DEF OpIds
<1> QED
    BY <1>2 DEF Begins

(* Workspace and journal keep their types.                                 *)
LEMMA TypesKept ==
    ASSUME TypeOK, Effect, gitSame' \in BOOLEAN
    PROVE  WorkspaceTyped' /\ JournalTyped'
<1>1. ops' \in Seq(OpRows)
    BY DEF Effect, TypeOK, JournalTyped, Still, Moves, Marks, Names, Finishes, Removes, Creates,
       Fills, Swaps, Relocates, Begins, Rewrites
<1>2. \A o \in OpIds' : Len(ops'[o].files) = Len(Manifest[ops'[o].set])
    <2>1. CASE SameRows
        BY <2>1, RowsTyped DEF SameRows, TypeOK, OpIds
    <2>2. ASSUME NEW s \in 1..Sets, NEW n \in Nat, Begins(s, n) PROVE \A o \in OpIds' : Len(ops'[o].files) = Len(Manifest[ops'[o].set])
        <3>1. OpIds' = OpIds \cup {n} /\ \A o \in OpIds : ops'[o] = ops[o]
            BY <2>2, NewRow
        <3>2. ops'[n].set = s /\ Len(ops'[n].files) = Len(Manifest[s])
            BY <2>2 DEF Begins
        <3> QED
            BY <3>1, <3>2, RowsTyped DEF TypeOK
    <2> QED
        BY <2>1, <2>2, RowsStay
<1>3. setState' \in [1..Sets -> {"eligible", "consumed"}]
    <2>1. CASE UNCHANGED setState
        BY <2>1 DEF TypeOK, JournalTyped
    <2>2. ASSUME NEW st \in OpStates, Moves(st) PROVE setState' \in [1..Sets -> {"eligible", "consumed"}]
        BY <2>2, RowsTyped DEF Moves, TypeOK, JournalTyped
    <2> QED
        BY <2>1, <2>2 DEF Effect, Still, Marks, Names, Finishes, Removes, Creates,
           Fills, Swaps, Relocates, Begins, Rewrites
<1>4. /\ target' \in [Paths -> FileType] /\ base' \in [Paths -> FileType]
      /\ nextId' \in Nat
    <2>1. CASE UNCHANGED <<target, base>> /\ nextId' \in {nextId, nextId + 1}
        BY <2>1 DEF TypeOK, WorkspaceTyped
    <2>2. CASE Swaps
        <3>1. Here \in Paths /\ Locator \in FileType
            BY <2>2, HereTyped DEF Swaps, Relocates
        <3> QED
            BY <2>2, <3>1 DEF Swaps, Relocates, TypeOK, WorkspaceTyped
    <2>3. ASSUME NEW s \in 1..Sets, NEW n \in Nat, Begins(s, n) PROVE <1>4!:
        BY <2>3 DEF Begins, TypeOK, WorkspaceTyped
    <2>4. ASSUME NEW p \in Paths, NEW f \in FileType, Rewrites(p, f) PROVE <1>4!:
        BY <2>4 DEF Rewrites, TypeOK, WorkspaceTyped
    <2> QED
        BY <2>1, <2>2, <2>3, <2>4 DEF Effect, Still, Untouched, Moves, Marks, Names, Finishes,
           Removes, Creates, Fills, Relocates
<1>5. /\ sibling' \in Seq(Seq(FileType \cup {None})) /\ Len(sibling') = Len(ops')
      /\ \A o \in OpIds' : Len(sibling'[o]) = Len(Manifest[ops'[o].set])
    <2>1. CASE SameRows /\ UNCHANGED sibling
        BY <2>1 DEF SameRows, TypeOK, WorkspaceTyped, OpIds
    <2>2. ASSUME NEW f, Relocates(f) PROVE <1>5!:
        BY <2>2 DEF Relocates, LocatorMoves, TypeOK, WorkspaceTyped, OpIds
    <2>3. ASSUME NEW s \in 1..Sets, NEW n \in Nat, Begins(s, n) PROVE <1>5!:
        <3>1. Len(sibling') = Len(ops') /\ sibling' \in Seq(Seq(FileType \cup {None}))
            BY <2>3 DEF Begins
        <3>2. ASSUME NEW o \in OpIds' PROVE Len(sibling'[o]) = Len(Manifest[ops'[o].set])
            <4>1. o \in OpIds \/ o = n
                BY <2>3, RowsTyped DEF Begins, OpIds, TypeOK
            <4>2. CASE o \in OpIds
                <5>1. ops'[o] = ops[o] /\ sibling'[o] = sibling[o]
                    BY <2>3, <4>2 DEF Begins
                <5>2. Len(sibling[o]) = Len(Manifest[ops[o].set])
                    BY <4>2, SiblingsTyped DEF TypeOK
                <5> QED
                    BY <5>1, <5>2
            <4>3. CASE o = n
                BY <2>3, <4>3 DEF Begins
            <4> QED
                BY <4>1, <4>2, <4>3
        <3> QED
            BY <3>1, <3>2
    <2> QED
        BY <2>1, <2>2, <2>3, RowsStay DEF Effect, Still, Untouched, Moves, Marks, Names,
           Finishes,
           Removes, Creates, Fills, Swaps, Rewrites
<1> QED
    BY <1>1, <1>2, <1>3, <1>4, <1>5 DEF WorkspaceTyped, JournalTyped

(* The states of an operation and what it is to its restore set.           *)
LEMMA FilesFollowKept ==
    ASSUME TypeOK, FilesFollow, Effect
    PROVE  FilesFollow'
<1>0. /\ \A o \in OpIds : Len(ops[o].files) = Len(Manifest[ops[o].set])
    BY RowsTyped DEF TypeOK
<1>1. CASE UNCHANGED ops
    BY <1>1 DEF FilesFollow, FilesOf, OpIds
<1>2. ASSUME NEW st \in OpStates, Moves(st) PROVE FilesFollow'
    <2>1. \A o \in OpIds : \A S : FilesOf(o, S)' <=> FilesOf(o, S)
        BY <1>2 DEF Moves, OpMoves, FilesOf
    <2>2. OpIds' = OpIds
        BY <1>2 DEF Moves, OpMoves, OpIds
    <2>3. ASSUME NEW o \in OpIds, o # cur PROVE ops'[o].state = ops[o].state
        BY <1>2, <2>3 DEF Moves, OpMoves
    <2>4. /\ ops'[cur].state = st /\ st # "preparing" /\ cur \in OpIds
          /\ st = "prepared" => FilesOf(cur, {"staged"})
          /\ st = "applying" => ops[cur].state = "prepared"
          /\ st = "verifying" => ops[cur].state = "applying"
          /\ st = "completed" => FilesOf(cur, {"verified"})
        BY <1>2 DEF Moves, OpMoves
    <2>5. FilesOf(cur, {"staged"}) => FilesOf(cur, {"staged", "applied", "verified"})
        BY DEF FilesOf
    <2> QED
        BY <2>1, <2>2, <2>3, <2>4, <2>5 DEF FilesFollow
<1>3. ASSUME NEW st \in FileStates, Marks(st) PROVE FilesFollow'
    <2>1. /\ OpIds' = OpIds /\ cur \in OpIds
          /\ \A o \in OpIds : ops'[o].state = ops[o].state /\ Len(ops'[o].files) = Len(ops[o].files)
          /\ \A o \in OpIds : \A i \in 1..Len(ops[o].files) :
                ops'[o].files[i].state = IF o = cur /\ i = idx THEN st ELSE ops[o].files[i].state
        BY <1>3 DEF Marks, RowMoves, OpIds, AtRow
    <2>2. \A o \in OpIds : \A S : o # cur /\ FilesOf(o, S) => FilesOf(o, S)'
        BY <2>1 DEF FilesOf
    <2>3. \A S : st \in S /\ FilesOf(cur, S)
              => \A i \in 1..Len(ops[cur].files) : ops'[cur].files[i].state \in S
        BY <2>1 DEF FilesOf
    <2>4. \/ ops[cur].state = "rolling_back"
          \/ ops[cur].state \in {"applying", "verifying"} /\ st \in {"applied", "verified"}
        BY <1>3 DEF Marks
    <2>5. ASSUME NEW o \in OpIds, o = cur, ops[cur].state \in {"applying", "verifying"}, st \in {"applied", "verified"}
          PROVE  FilesOf(o, {"staged", "applied", "verified"})'
        <3>1. FilesOf(cur, {"staged", "applied", "verified"})
            BY <2>1, <2>5 DEF FilesFollow
        <3>2. \A i \in 1..Len(ops[cur].files) : ops'[cur].files[i].state \in {"staged", "applied", "verified"}
            BY <2>3, <2>5, <3>1
        <3> QED
            BY <2>1, <2>5, <3>2 DEF FilesOf
    <2> QED
        BY <2>1, <2>2, <2>4, <2>5 DEF FilesFollow
<1>4. CASE Names
    <2>1. /\ OpIds' = OpIds /\ cur \in OpIds /\ ops[cur].state = "preparing"
          /\ \A o \in OpIds : ops'[o].state = ops[o].state /\ Len(ops'[o].files) = Len(ops[o].files)
          /\ \A o \in OpIds : \A i \in 1..Len(ops[o].files) :
                ops'[o].files[i].state = IF o = cur
                /\ i = idx THEN "staged" ELSE ops[o].files[i].state
        BY <1>4 DEF Names, RowMoves, OpIds, AtRow
    <2>2. \A o \in OpIds : \A S : o # cur /\ FilesOf(o, S) => FilesOf(o, S)'
        BY <2>1 DEF FilesOf
    <2>3. ASSUME NEW o \in OpIds, o = cur PROVE FilesOf(o, {"planned", "staged"})'
        <3>1. FilesOf(o, {"planned", "staged"})
            BY <2>1, <2>3 DEF FilesFollow
        <3> QED
            BY <2>1, <2>3, <3>1 DEF FilesOf
    <2> QED
        BY <2>1, <2>2, <2>3 DEF FilesFollow
<1>5. CASE Finishes
    <2>1. OpIds' = OpIds /\ \A o \in OpIds : ops'[o].state = ops[o].state
          /\ ops'[o].files = ops[o].files
        BY <1>5 DEF Finishes, CleanupEnds, OpIds
    <2>2. \A o \in OpIds : \A S : FilesOf(o, S) => FilesOf(o, S)'
        BY <2>1 DEF FilesOf
    <2> QED
        BY <2>1, <2>2 DEF FilesFollow
<1>6. ASSUME NEW s \in 1..Sets, NEW n \in Nat, Begins(s, n) PROVE FilesFollow'
    <2>0. OpIds' = OpIds \cup {n}
        BY <1>6, NewRow
    <2>1. \A o \in OpIds : \A S : ops'[o] = ops[o] /\ (FilesOf(o, S) => FilesOf(o, S)')
        BY <1>6 DEF Begins, FilesOf
    <2>2. FilesOf(n, {"planned", "staged"})' /\ ops'[n].state = "preparing"
        BY <1>6 DEF Begins, FilesOf
    <2> QED
        BY <2>0, <2>1, <2>2 DEF FilesFollow
<1> QED
    BY <1>1, <1>2, <1>3, <1>4, <1>5, <1>6
    DEF Effect, Still, Removes, Creates, Fills, Swaps, Relocates, Rewrites

(* An operation that is cleaned up stays so.                               *)
LEMMA CleanedUpKept ==
    ASSUME TypeOK, CleanedUp, Effect
    PROVE  CleanedUp'
<1>1. CASE Still
    BY <1>1 DEF Still, Untouched, CleanedUp, Active, Gone, OpIds
<1>2. ASSUME NEW st \in OpStates, Moves(st) PROVE CleanedUp'
    BY <1>2 DEF Moves, OpMoves, Untouched, CleanedUp, Active, Gone, OpIds
<1>3. ASSUME NEW st \in FileStates, Marks(st) \/ Names PROVE CleanedUp'
    BY <1>3 DEF Marks, Names, RowMoves, Untouched, CleanedUp, Active, Gone, OpIds
<1>4. CASE Finishes
    BY <1>4 DEF Finishes, CleanupEnds, Untouched, CleanedUp, Active, Gone, OpIds
<1>5. ASSUME NEW f, Relocates(f) PROVE CleanedUp'
    BY <1>5 DEF Relocates, LocatorMoves, AtRow, CleanedUp, Active, Gone, OpIds
<1>6. ASSUME NEW s \in 1..Sets, NEW n \in Nat, Begins(s, n) PROVE CleanedUp'
    <2>0. OpIds' = OpIds \cup {n}
        BY <1>6, NewRow
    <2>1. \A o \in OpIds : ops'[o] = ops[o] /\ sibling'[o] = sibling[o]
        BY <1>6 DEF Begins
    <2>2. ops'[n].cleanup = TRUE
        BY <1>6 DEF Begins
    <2> QED
        BY <2>0, <2>1, <2>2 DEF CleanedUp, Active, Gone
<1>7. ASSUME NEW p \in Paths, NEW f \in FileType, Rewrites(p, f) PROVE CleanedUp'
    BY <1>7 DEF Rewrites, CleanedUp, Active, Gone, OpIds
<1> QED
    BY <1>1, <1>2, <1>3, <1>4, <1>5, <1>6, <1>7
    DEF Effect, Removes, Creates, Fills, Swaps, FileStates

(* An operation that is over stays so, and keeps its set.                  *)
LEMMA StatesStay ==
    ASSUME TypeOK, Effect
    PROVE  /\ \A o \in OpIds : /\ o \in OpIds' /\ ops'[o].set = ops[o].set
                               /\ ~Active(o) => ops'[o].state = ops[o].state
           /\ \/ (\E s \in 1..Sets, n \in Nat : Begins(s, n))
              \/ \E st \in OpStates : Moves(st)
              \/ /\ OpIds' = OpIds /\ setState' = setState
                 /\ \A o \in OpIds : ops'[o].state = ops[o].state
<1>1. CASE UNCHANGED <<ops, setState>>
    BY <1>1 DEF OpIds
<1>2. ASSUME NEW st \in OpStates, Moves(st)
      PROVE  \A o \in OpIds : /\ o \in OpIds' /\ ops'[o].set = ops[o].set
                              /\ ~Active(o) => ops'[o].state = ops[o].state
    BY <1>2 DEF Moves, OpMoves, OpIds
<1>3. CASE Names \/ \E st \in FileStates : Marks(st)
    BY <1>3 DEF Marks, Names, RowMoves, OpIds
<1>4. CASE Finishes
    BY <1>4 DEF Finishes, CleanupEnds, OpIds
<1>5. ASSUME NEW s \in 1..Sets, NEW n \in Nat, Begins(s, n)
      PROVE  \A o \in OpIds : /\ o \in OpIds' /\ ops'[o].set = ops[o].set
                              /\ ~Active(o) => ops'[o].state = ops[o].state
    BY <1>5, NewRow
<1> QED
    BY <1>1, <1>2, <1>3, <1>4, <1>5
    DEF Effect, Still, Removes, Creates, Fills, Swaps, Relocates, Rewrites

(* No second active or completed operation gets on a set.                  *)
LEMMA OnePerSetKept ==
    ASSUME TypeOK, OnePerSet, Effect
    PROVE  OnePerSet'
<1>0. /\ \A o \in OpIds : ops[o].set \in 1..Sets
      /\ setState \in [1..Sets -> {"eligible", "consumed"}]
    BY RowsTyped DEF TypeOK, JournalTyped
<1>1. CASE /\ OpIds' = OpIds /\ setState' = setState
           /\ \A o \in OpIds : ops'[o].state = ops[o].state /\ ops'[o].set = ops[o].set
    BY <1>1 DEF OnePerSet, Active
<1>2. ASSUME NEW st \in OpStates, Moves(st) PROVE OnePerSet'
    <2>1. /\ OpIds' = OpIds /\ cur \in OpIds /\ Active(cur)
          /\ \A o \in OpIds : /\ ops'[o].set = ops[o].set
                              /\ ops'[o].state = IF o = cur THEN st ELSE ops[o].state
        BY <1>2 DEF Moves, OpMoves, OpIds
    <2>2. \A r \in 1..Sets : setState'[r] = IF st = "completed"
          /\ r = ops[cur].set THEN "consumed" ELSE setState[r]
        BY <1>0, <1>2 DEF Moves
    <2>3. setState[ops[cur].set] = "eligible"
        BY <2>1 DEF OnePerSet
    <2>4. ASSUME NEW o \in OpIds, o # cur, ops[o].set = ops[cur].set
          PROVE  ~Active(o) /\ ops[o].state # "completed"
        BY <2>1, <2>3, <2>4 DEF OnePerSet
    <2>5. \A o \in OpIds : Active(o)' => Active(o)
        BY <2>1 DEF Active
    <2>6. ASSUME NEW o \in OpIds'
          PROVE  /\ Active(o)' => setState'[ops'[o].set] = "eligible"
                 /\ ops'[o].state = "completed" => setState'[ops'[o].set] = "consumed"
        <3>1. CASE o = cur
            BY <1>0, <2>1, <2>2, <2>3, <3>1 DEF Active
        <3>2. CASE o # cur
            BY <1>0, <2>1, <2>2, <2>4, <3>2 DEF Active, OnePerSet
        <3> QED
            BY <3>1, <3>2
    <2>7. ASSUME NEW o \in OpIds', NEW x \in OpIds', x # o, ops'[x].set = ops'[o].set
          PROVE  /\ ~(Active(o)' /\ Active(x)')
                 /\ ~(ops'[o].state = "completed" /\ ops'[x].state = "completed")
        <3>1. ops[x].set = ops[o].set /\ o \in OpIds /\ x \in OpIds
            BY <2>1, <2>7
        <3>2. ~(Active(o)' /\ Active(x)')
            BY <2>5, <2>7, <3>1 DEF OnePerSet
        <3>3. ~(ops'[o].state = "completed" /\ ops'[x].state = "completed")
            BY <2>1, <2>4, <2>7, <3>1 DEF OnePerSet
        <3> QED
            BY <3>2, <3>3
    <2> QED
        BY <2>6, <2>7 DEF OnePerSet
<1>3. ASSUME NEW s \in 1..Sets, NEW n \in Nat, Begins(s, n) PROVE OnePerSet'
    <2>1. /\ OpIds' = OpIds \cup {n} /\ n \notin OpIds /\ \A o \in OpIds : ops'[o] = ops[o]
          /\ ops'[n].set = s /\ ops'[n].state = "preparing"
        BY <1>3, NewRow
    <2>2. /\ setState[s] = "eligible" /\ setState' = setState
          /\ \A o \in OpIds : ops[o].set = s => ~Active(o)
        BY <1>3 DEF Begins
    <2>3. \A o \in OpIds : Active(o)' <=> Active(o)
        BY <2>1 DEF Active
    <2> QED
        BY <2>1, <2>2, <2>3 DEF OnePerSet
<1> QED
    BY <1>1, <1>2, <1>3, StatesStay

(* The turns that are newer than the one being undone, on its paths.       *)
LEMMA NewerUndone ==
    ASSUME TypeOK, Identities, Named, Chained, OnePerSet,
           NEW s \in 1..Sets, NEW n \in Nat, Begins(s, n), NEW i \in DOMAIN Manifest[s],
           NEW r \in 1..Sets, r > s, Touches(r, Manifest[s][i])
    PROVE  \E x \in OpIds : ops[x].set = r /\ ops[x].state = "completed"
<1> DEFINE p == Manifest[s][i]
<1>1. p \in Paths /\ Touches(s, p) /\ i \in 1..Len(Manifest[s])
    BY ManifestOf
<1>2. Installed(p, s) /\ target[p].bytes = Post(s, p)
    BY <1>1 DEF Begins
<1>3. target[p].id # s
    BY <1>1, UndoAssumption, SMTT(30) DEF Identities, Aged, NotOlder
<1>4. PICK x \in OpIds : /\ ops[x].state = "completed" /\ ops[x].set # s
                         /\ \E j \in 1..Len(Manifest[ops[x].set]) :
                               PathOf(x, j) = p /\ ops[x].files[j].staged = target[p]
    BY <1>2, <1>3 DEF Installed
<1>5. PICK j \in 1..Len(Manifest[ops[x].set]) : PathOf(x, j) = p
      /\ ops[x].files[j].staged = target[p]
    BY <1>4
<1> DEFINE t == ops[x].set
<1>6. t \in 1..Sets /\ j \in DOMAIN Manifest[t] /\ Touches(t, p)
    BY <1>4, <1>5, RowsTyped, ManifestOf DEF TypeOK, PathOf
<1>7. target[p] # None
    BY <1>1, NoneAssumption DEF TypeOK, WorkspaceTyped
<1>8. Pre(t, p) = Post(s, p)
    <2>1. target[p].bytes = PreOf(x, j)
        BY <1>4, <1>5, <1>6, <1>7 DEF Named
    <2> QED
        BY <1>2, <1>5, <2>1 DEF PreOf
<1> HIDE DEF t, p
<1>9. r >= t
    <2>1. Touches(r, p)
        BY DEF p
    <2> QED
        BY <1>1, <1>6, <1>8, <2>1, NextToucher
<1>10. CASE r = t
    BY <1>4, <1>10 DEF t
<1>11. CASE r > t
    <2>1. Undone(r, x)
        BY <1>4, <1>5, <1>6, <1>11 DEF Chained, t, p
    <2> QED
        BY <2>1, RowsTyped DEF Undone, TypeOK, OpIds
<1> QED
    BY <1>6, <1>9, <1>10, <1>11, UndoAssumption

(* What was undone before an operation began stays undone.                 *)
LEMMA ChainedKept ==
    ASSUME TypeOK, Identities, Named, Chained, OnePerSet, Effect
    PROVE  Chained'
<1>1. \A o \in OpIds, r \in 1..Sets : Undone(r, o) => Undone(r, o)'
    <2> SUFFICES ASSUME NEW o \in OpIds, NEW r \in 1..Sets, Undone(r, o) PROVE Undone(r, o)'
        OBVIOUS
    <2>1. PICK x \in 1..(o - 1) : ops[x].set = r /\ ops[x].state = "completed"
        BY DEF Undone
    <2>2. x \in OpIds
        BY RowsTyped DEF TypeOK, OpIds
    <2>3. ops'[x].set = r /\ ops'[x].state = "completed"
        BY <2>1, <2>2, StatesStay DEF Active
    <2> QED
        BY <2>3 DEF Undone
<1>2. ASSUME NEW o \in OpIds, NEW r \in 1..Sets, NEW i \in DOMAIN Manifest[ops'[o].set],
             r > ops'[o].set, Touches(r, Manifest[ops'[o].set][i])
      PROVE  Undone(r, o)'
    <2>1. ops'[o].set = ops[o].set
        BY StatesStay
    <2>2. Undone(r, o)
        BY <1>2, <2>1 DEF Chained, PathOf
    <2> QED
        BY <1>1, <2>2
<1>3. CASE OpIds' = OpIds
    BY <1>2, <1>3 DEF Chained, PathOf
<1>4. ASSUME NEW s \in 1..Sets, NEW n \in Nat, Begins(s, n) PROVE Chained'
    <2>1. /\ OpIds' = OpIds \cup {n} /\ \A o \in OpIds : o < n /\ ops'[o] = ops[o]
          /\ ops'[n].set = s
        BY <1>4, NewRow
    <2>2. ASSUME NEW r \in 1..Sets, NEW i \in DOMAIN Manifest[s], r > s, Touches(r, Manifest[s][i])
          PROVE  Undone(r, n)'
        <3>1. PICK x \in OpIds : ops[x].set = r /\ ops[x].state = "completed"
            BY <1>4, <2>2, NewerUndone
        <3>2. x \in 1..(n - 1)
            BY <2>1 DEF OpIds
        <3> QED
            BY <2>1, <3>1, <3>2 DEF Undone
    <2> QED
        BY <1>2, <2>1, <2>2 DEF Chained, PathOf
<1>5. CASE \E st \in OpStates : Moves(st)
    BY <1>3, <1>5 DEF Moves, OpMoves, OpIds
<1> QED
    BY <1>3, <1>4, <1>5, StatesStay

(* A new operation finds no active one on its paths.                       *)
LEMMA AloneKept ==
    ASSUME TypeOK, Identities, Named, Chained, OnePerSet, Alone, Effect
    PROVE  Alone'
<1>1. ASSUME NEW o \in OpIds, NEW x \in 1..(o - 1), NEW p \in Paths,
             Touches(ops'[o].set, p), Touches(ops'[x].set, p)
      PROVE  ~Active(x)'
    <2>1. x \in OpIds
        BY RowsTyped DEF TypeOK, OpIds
    <2>2. ops'[o].set = ops[o].set /\ ops'[x].set = ops[x].set
        BY <2>1, StatesStay
    <2>3. ~Active(x)
        BY <1>1, <2>2 DEF Alone
    <2> QED
        BY <2>1, <2>3, StatesStay DEF Active
<1>2. CASE OpIds' = OpIds
    BY <1>1, <1>2 DEF Alone
<1>3. ASSUME NEW s \in 1..Sets, NEW n \in Nat, Begins(s, n) PROVE Alone'
    <2>1. /\ OpIds' = OpIds \cup {n} /\ ops'[n].set = s
          /\ \A o \in OpIds : o < n /\ ops'[o] = ops[o]
        BY <1>3, NewRow
    <2>2. /\ setState[s] = "eligible" /\ n = Len(ops) + 1
          /\ \A o \in OpIds : ops[o].set = s => ~Active(o)
        BY <1>3 DEF Begins
    <2>3. ASSUME NEW x \in 1..(n - 1), NEW p \in Paths, Touches(s, p), Touches(ops'[x].set, p)
          PROVE  ~Active(x)'
        <3>1. x \in OpIds
            BY <2>2, RowsTyped DEF OpIds, TypeOK
        <3>2. ops'[x] = ops[x] /\ ops[x].set \in 1..Sets
            BY <2>1, <3>1, RowsTyped DEF TypeOK
        <3>3. CASE ops[x].set = s
            BY <2>2, <3>1, <3>2, <3>3 DEF Active
        <3>4. CASE ops[x].set > s
            <4>1. PICK i \in DOMAIN Manifest[s] : Manifest[s][i] = p
                BY <2>3 DEF Touches
            <4>2. PICK y \in OpIds : ops[y].set = ops[x].set /\ ops[y].state = "completed"
                BY <1>3, <2>3, <3>2, <3>4, <4>1, NewerUndone
            <4>3. ~Active(x)
                BY <3>1, <4>2 DEF OnePerSet
            <4> QED
                BY <3>2, <4>3 DEF Active
        <3>5. CASE ops[x].set < s
            <4>1. PICK i \in DOMAIN Manifest[ops[x].set] : PathOf(x, i) = p
                BY <2>3, <3>2 DEF Touches, PathOf
            <4>2. Undone(s, x)
                BY <2>3, <3>1, <3>5, <4>1 DEF Chained
            <4>3. PICK y \in OpIds : ops[y].set = s /\ ops[y].state = "completed"
                BY <3>1, <4>2, RowsTyped DEF Undone, TypeOK, OpIds
            <4> QED
                BY <2>2, <4>3 DEF OnePerSet
        <3> QED
            BY <3>2, <3>3, <3>4, <3>5, UndoAssumption
    <2> QED
        BY <1>1, <2>1, <2>3 DEF Alone
<1>4. CASE \E st \in OpStates : Moves(st)
    BY <1>2, <1>4 DEF Moves, OpMoves, OpIds
<1> QED
    BY <1>2, <1>3, <1>4, StatesStay

(* What becomes of the locators.                                           *)
LEMMA LocatorsMove ==
    ASSUME TypeOK, NEW f, Relocates(f)
    PROVE  /\ AtRow /\ ops' = ops /\ base' = base /\ OpIds' = OpIds
           /\ \A o \in OpIds : \A i \in DOMAIN Manifest[ops[o].set] :
                 sibling'[o][i] = IF o = cur /\ i = idx THEN f ELSE sibling[o][i]
<1>1. \A o \in OpIds : \A i \in DOMAIN Manifest[ops[o].set] : i \in 1..Len(sibling[o])
    BY SiblingsTyped, RowsTyped, ManifestOf DEF TypeOK
<1> QED
    BY <1>1 DEF Relocates, LocatorMoves, OpIds

(* The effects that leave target, locators and identities as they are.     *)
Quiet ==
    \/ Still \/ (\E st \in OpStates : Moves(st)) \/ (\E st \in FileStates : Marks(st))
    \/ Names \/ Finishes

(* Those steps keep workspace, sets and expected files.                    *)
LEMMA QuietRows ==
    ASSUME TypeOK, Quiet
    PROVE  /\ Effect /\ Untouched /\ OpIds' = OpIds /\ \A o \in OpIds : ops'[o].set = ops[o].set
           /\ \A o \in OpIds : \A i \in DOMAIN Manifest[ops[o].set] :
                 ops'[o].files[i].expected = ops[o].files[i].expected
<1>1. Effect /\ Untouched
    BY DEF Quiet, Effect, Still, Moves, Marks, Names, Finishes
<1>2. ~\E s \in 1..Sets, n \in Nat : Begins(s, n)
    <2> SUFFICES ASSUME NEW s \in 1..Sets, NEW n \in Nat, Begins(s, n) PROVE FALSE
        OBVIOUS
    <2>1. Len(sibling') = Len(sibling) /\ Len(sibling) = Len(ops)
        BY <1>1 DEF Untouched, TypeOK, WorkspaceTyped
    <2> QED
        BY <2>1, RowsTyped DEF Begins, TypeOK
<1>3. \A o \in OpIds : DOMAIN Manifest[ops[o].set] = 1..Len(Manifest[ops[o].set])
    BY RowsTyped, ManifestOf DEF TypeOK
<1> QED
    BY <1>1, <1>2, <1>3, RowsStay DEF SameRows, OpIds

(* New files get new identities, exchanges only move them.                 *)
LEMMA IdentitiesKept ==
    ASSUME TypeOK, Identities, Effect
    PROVE  Identities'
<1>0. nextId \in Nat /\ Sets \in Nat /\ nextId > Sets
    BY UndoAssumption DEF TypeOK, WorkspaceTyped, Identities
<1>1. CASE Quiet
    <2>1. /\ Untouched /\ OpIds' = OpIds /\ \A o \in OpIds : ops'[o].set = ops[o].set
        BY <1>1, QuietRows
    <2> QED
        BY <2>1 DEF Untouched, Identities, Aged, PathOf
<1>2. ASSUME NEW f, Relocates(f), nextId' \in {nextId, nextId + 1},
             f # None => f.id < nextId' /\ NotOlder(Here, f),
             \A p \in Paths : target'[p].id < nextId' /\ NotOlder(p, target'[p])
      PROVE  Identities'
    <2>1. /\ AtRow /\ ops' = ops /\ base' = base /\ OpIds' = OpIds
          /\ \A o \in OpIds : \A i \in DOMAIN Manifest[ops[o].set] :
                 sibling'[o][i] = IF o = cur /\ i = idx THEN f ELSE sibling[o][i]
        BY <1>2, LocatorsMove
    <2>2. nextId' > Sets /\ nextId' >= nextId /\ nextId' \in Nat
        BY <1>0, <1>2
    <2>3. \A p \in Paths : base'[p].id < nextId'
        BY <1>0, <1>2, <2>1 DEF Identities, TypeOK, WorkspaceTyped, FileType
    <2>4. ASSUME NEW o \in OpIds, NEW i \in DOMAIN Manifest[ops[o].set], sibling'[o][i] # None
          PROVE  sibling'[o][i].id < nextId' /\ NotOlder(PathOf(o, i), sibling'[o][i])
        <3>1. CASE o = cur /\ i = idx
            BY <1>2, <2>1, <2>4, <3>1 DEF Here
        <3>2. CASE ~(o = cur /\ i = idx)
            <4>1. sibling'[o][i] = sibling[o][i] /\ Aged(PathOf(o, i), sibling[o][i])
                BY <2>1, <2>4, <3>2 DEF Identities
            <4>2. sibling[o][i].id \in Nat
                BY <2>4, <4>1, SiblingsTyped, RowsTyped, ManifestOf DEF TypeOK, FileType
            <4> QED
                BY <1>0, <2>2, <4>1, <4>2 DEF Aged
        <3> QED
            BY <3>1, <3>2
    <2>5. \A o \in OpIds : \A i \in DOMAIN Manifest[ops[o].set] : PathOf(o, i)' = PathOf(o, i)
        BY <2>1 DEF PathOf
    <2> QED
        BY <1>2, <2>1, <2>2, <2>3, <2>4, <2>5 DEF Identities, Aged
<1>3. CASE Removes
    BY <1>2, <1>3 DEF Removes, Relocates, Identities, Aged
<1>4. CASE Creates
    <2>1. nextId' = nextId + 1 /\ target' = target
        BY <1>4 DEF Creates
    <2>2. \A p \in Paths : target'[p].id < nextId' /\ NotOlder(p, target'[p])
        BY <1>0, <2>1 DEF Identities, Aged, TypeOK, WorkspaceTyped, FileType
    <2>3. File(Partial, nextId).id < nextId' /\ NotOlder(Here, File(Partial, nextId))
        BY <1>0, <2>1 DEF File, NotOlder
    <2> QED
        BY <1>2, <1>4, <2>1, <2>2, <2>3 DEF Creates
<1>5. CASE Fills
    <2>1. nextId' = nextId /\ target' = target /\ Locator # None /\ AtRow
        BY <1>5 DEF Fills, Relocates
    <2>2. Aged(Here, Locator)
        BY <2>1, HereTyped DEF Identities, Here, Locator
    <2>3. \A p \in Paths : target'[p].id < nextId' /\ NotOlder(p, target'[p])
        BY <2>1 DEF Identities, Aged
    <2>4. LET f == File(PreOf(cur, idx), Locator.id) IN f.id < nextId' /\ NotOlder(Here, f)
        BY <2>1, <2>2 DEF File, Aged, NotOlder
    <2> QED
        BY <1>2, <1>5, <2>1, <2>3, <2>4 DEF Fills
<1>6. CASE Swaps
    <2>1. /\ nextId' = nextId /\ target' = [target EXCEPT ![Here] = Locator] /\ Locator # None
             /\ AtRow
          /\ Relocates(target[Here])
        BY <1>6 DEF Swaps, Relocates
    <2>2. Aged(Here, Locator) /\ Aged(Here, target[Here])
        BY <2>1, HereTyped DEF Identities, Here, Locator
    <2>3. \A p \in Paths : target'[p] = IF p = Here THEN Locator ELSE target[p]
        BY <2>1 DEF TypeOK, WorkspaceTyped
    <2>4. \A p \in Paths : target'[p].id < nextId' /\ NotOlder(p, target'[p])
        BY <2>1, <2>2, <2>3 DEF Identities, Aged
    <2> QED
        BY <1>2, <2>1, <2>2, <2>4 DEF Aged
<1>7. ASSUME NEW s \in 1..Sets, NEW n \in Nat, Begins(s, n) PROVE Identities'
    <2>1. /\ OpIds' = OpIds \cup {n} /\ \A o \in OpIds : ops'[o] = ops[o]
          /\ ops'[n].set = s
        BY <1>7, NewRow
    <2>2. /\ target' = target /\ nextId' = nextId /\ \A o \in OpIds : sibling'[o] = sibling[o]
          /\ \A i \in 1..Len(Manifest[s]) : sibling'[n][i] = None
          /\ \A p \in Paths : base'[p] = target[p] \/ base'[p] = base[p]
        BY <1>7 DEF Begins
    <2>3. DOMAIN Manifest[s] = 1..Len(Manifest[s])
        BY ManifestOf
    <2> QED
        BY <2>1, <2>2, <2>3 DEF Identities, Aged, PathOf
<1>8. ASSUME NEW p \in Paths, NEW f \in FileType, Rewrites(p, f) PROVE Identities'
    <2>1. /\ nextId' = nextId + 1 /\ ops' = ops /\ sibling' = sibling
          /\ f.id \in {nextId, target[p].id}
          /\ \A q \in Paths : /\ target'[q] = IF q = p THEN f ELSE target[q]
                              /\ base'[q] = IF q = p THEN f ELSE base[q]
        BY <1>8 DEF Rewrites, TypeOK, WorkspaceTyped
    <2>2. f.id < nextId' /\ NotOlder(p, f)
        BY <1>0, <2>1 DEF Identities, Aged, NotOlder, TypeOK, WorkspaceTyped, FileType
    <2>3. ASSUME NEW q \in Paths
          PROVE  target'[q].id < nextId' /\ NotOlder(q, target'[q]) /\ base'[q].id < nextId'
        <3>1. target[q].id \in Nat /\ base[q].id \in Nat
            BY DEF TypeOK, WorkspaceTyped, FileType
        <3> QED
            BY <1>0, <2>1, <2>2, <3>1 DEF Identities, Aged
    <2>4. ASSUME NEW o \in OpIds', NEW i \in DOMAIN Manifest[ops'[o].set], sibling'[o][i] # None
          PROVE  sibling'[o][i].id < nextId' /\ NotOlder(PathOf(o, i)', sibling'[o][i])
        <3>1. o \in OpIds /\ i \in DOMAIN Manifest[ops[o].set]
            BY <2>1, <2>4 DEF OpIds
        <3>2. sibling[o][i] \in FileType
            BY <2>1, <2>4, <3>1, SiblingsTyped, RowsTyped, ManifestOf DEF TypeOK
        <3>3. Aged(PathOf(o, i), sibling[o][i]) /\ PathOf(o, i)' = PathOf(o, i)
            BY <2>1, <2>4, <3>1 DEF Identities, PathOf
        <3> QED
            BY <1>0, <2>1, <3>2, <3>3 DEF Aged, FileType
    <2> QED
        BY <1>0, <2>1, <2>3, <2>4 DEF Identities, Aged
<1> QED
    BY <1>1, <1>3, <1>4, <1>5, <1>6, <1>7, <1>8 DEF Effect, Quiet

(* What becomes of the file rows.                                          *)
LEMMA RowsNow ==
    ASSUME TypeOK, Quiet, NEW o \in OpIds, NEW i \in DOMAIN Manifest[ops[o].set]
    PROVE  \/ /\ ops'[o].files[i].state = ops[o].files[i].state
              /\ ops'[o].files[i].staged = ops[o].files[i].staged
           \/ /\ o = cur /\ i = idx /\ ops'[o].files[i].staged = ops[o].files[i].staged
              /\ \/ ops'[o].files[i].state \in {"rolled_back", "recovery_required"}
                 \/ /\ ops[o].files[i].state \in {"staged", "applied"}
                    /\ ops'[o].files[i].state \in {"applied", "verified"}
           \/ /\ o = cur /\ i = idx /\ Names
              /\ ops'[o].files[i].state = "staged" /\ ops'[o].files[i].staged = Locator
<1>1. i \in 1..Len(ops[o].files)
    BY RowsTyped, ManifestOf DEF TypeOK
<1>2. CASE Still
    BY <1>2 DEF Still
<1>3. CASE (\E st \in OpStates : Moves(st)) \/ Finishes
    BY <1>3 DEF Moves, OpMoves, Finishes, CleanupEnds
<1>4. ASSUME NEW st \in FileStates, Marks(st)
      PROVE  \/ /\ ops'[o].files[i].state = ops[o].files[i].state
                /\ ops'[o].files[i].staged = ops[o].files[i].staged
             \/ /\ o = cur /\ i = idx /\ ops'[o].files[i].staged = ops[o].files[i].staged
                /\ \/ ops'[o].files[i].state \in {"rolled_back", "recovery_required"}
                   \/ /\ ops[o].files[i].state \in {"staged", "applied"}
                      /\ ops'[o].files[i].state \in {"applied", "verified"}
    <2>1. /\ ops'[o].files[i].state = IF o = cur /\ i = idx THEN st ELSE ops[o].files[i].state
          /\ ops'[o].files[i].staged = IF o = cur
             /\ i = idx THEN Row.staged ELSE ops[o].files[i].staged
        BY <1>1, <1>4 DEF Marks, RowMoves
    <2>2. \/ st \in {"rolled_back", "recovery_required"}
          \/ Row.state \in {"staged", "applied"} /\ st \in {"applied", "verified"}
        BY <1>4 DEF Marks
    <2> QED
        BY <2>1, <2>2 DEF Row, Files
<1>5. CASE Names
    BY <1>1, <1>5 DEF Names, RowMoves
<1> QED
    BY <1>2, <1>3, <1>4, <1>5 DEF Quiet

(* The effects on the files.                                               *)
Disturbs == Removes \/ Creates \/ Fills \/ Swaps \/ \E p \in Paths, f \in FileType : Rewrites(p, f)

(* Those steps keep the journal.                                           *)
LEMMA DisturbsRows ==
    ASSUME TypeOK, Disturbs
    PROVE  ops' = ops /\ OpIds' = OpIds /\ nextId' \in Nat /\ nextId' >= nextId
BY DEF Disturbs, Removes, Creates, Fills, Swaps, Relocates, Rewrites, OpIds, TypeOK,
   WorkspaceTyped

(* What the journal names is a preimage or a turn's result.                *)
LEMMA NamedKept ==
    ASSUME TypeOK, Identities, Named, PlannedApart, Effect
    PROVE  Named'
<1>0. nextId \in Nat /\ Sets \in Nat /\ nextId > Sets
    BY UndoAssumption DEF TypeOK, WorkspaceTyped, Identities
<1>1. CASE Quiet
    <2>1. /\ Untouched /\ OpIds' = OpIds /\ \A o \in OpIds : ops'[o].set = ops[o].set
          /\ \A o \in OpIds : \A i \in DOMAIN Manifest[ops[o].set] :
                ops'[o].files[i].expected = ops[o].files[i].expected
        BY <1>1, QuietRows
    <2>2. \A o \in OpIds : \A i \in DOMAIN Manifest[ops[o].set] :
              PathOf(o, i)' = PathOf(o, i) /\ PreOf(o, i)' = PreOf(o, i)
        BY <2>1 DEF PathOf, PreOf
    <2>3. ASSUME NEW o \in OpIds, NEW i \in DOMAIN Manifest[ops[o].set]
          PROVE  LET f == ops'[o].files[i] IN
                 /\ f.state = "planned" => f.staged = None
                 /\ f.state \in {"staged", "applied", "verified"} => f.staged # None
                 /\ f.staged # None =>
                       f.staged.bytes = PreOf(o, i) /\ f.staged.id > Sets /\ f.staged.id < nextId
        <3>1. LET f == ops[o].files[i] IN
              /\ f.state = "planned" => f.staged = None
              /\ f.state \in {"staged", "applied", "verified"} => f.staged # None
              /\ f.staged # None =>
                    f.staged.bytes = PreOf(o, i) /\ f.staged.id > Sets /\ f.staged.id < nextId
            BY DEF Named
        <3>2. CASE o = cur /\ i = idx /\ Names
            <4>1. Locator # None /\ Row.staged = None /\ Locator.bytes = PreOf(cur, idx)
                BY <3>2 DEF Names
            <4>2. Locator.id > Sets
                BY <3>2, <4>1 DEF PlannedApart, Unnamed, Row, Files, Locator
            <4>3. Locator.id < nextId
                BY <3>2, <4>1 DEF Identities, Aged, Locator
            <4> QED
                BY <1>1, <3>1, <3>2, <4>1, <4>2, <4>3, RowsNow
        <3>3. CASE ~(o = cur /\ i = idx /\ Names)
            BY <1>1, <3>1, <3>3, RowsNow
        <3> QED
            BY <3>2, <3>3
    <2>4. ASSUME NEW o \in OpIds, NEW i \in DOMAIN Manifest[ops[o].set]
          PROVE  /\ ops'[o].files[i].expected.id < nextId
                 /\ ops'[o].files[i].expected.bytes = Post(ops[o].set, PathOf(o, i))
        BY <2>1 DEF Named
    <2>5. nextId' = nextId
        BY <2>1 DEF Untouched
    <2> QED
        BY <2>1, <2>2, <2>3, <2>4, <2>5 DEF Named
<1>2. CASE Disturbs
    <2>1. ops' = ops /\ OpIds' = OpIds /\ nextId' \in Nat /\ nextId' >= nextId
        BY <1>2, DisturbsRows
    <2>2. ASSUME NEW o \in OpIds, NEW i \in DOMAIN Manifest[ops[o].set]
          PROVE  LET f == ops[o].files[i] IN
                 f.expected.id < nextId' /\ (f.staged # None => f.staged.id < nextId')
        <3>1. /\ ops[o].files[i].expected \in FileType
              /\ ops[o].files[i].staged \in FileType \cup {None}
            BY RowsTyped, ManifestOf DEF TypeOK
        <3> QED
            BY <1>0, <2>1, <3>1 DEF Named, FileType
    <2>3. \A o \in OpIds, i \in Nat : PathOf(o, i)' = PathOf(o, i) /\ PreOf(o, i)' = PreOf(o, i)
        BY <2>1 DEF PathOf, PreOf
    <2>4. \A o \in OpIds : DOMAIN Manifest[ops[o].set] \subseteq Nat
        BY RowsTyped, ManifestOf DEF TypeOK
    <2> QED
        BY <2>1, <2>2, <2>3, <2>4 DEF Named
<1>3. ASSUME NEW s \in 1..Sets, NEW n \in Nat, Begins(s, n) PROVE Named'
    <2>1. /\ OpIds' = OpIds \cup {n} /\ \A o \in OpIds : ops'[o] = ops[o]
          /\ ops'[n].set = s
        BY <1>3, NewRow
    <2>2. nextId' = nextId
        BY <1>3 DEF Begins
    <2>3. ASSUME NEW i \in DOMAIN Manifest[s]
          PROVE  LET f == ops'[n].files[i] IN
                 /\ f.state = "planned" /\ f.staged = None
                 /\ f.expected.id < nextId /\ f.expected.bytes = Post(s, Manifest[s][i])
        <3>1. i \in 1..Len(Manifest[s]) /\ Manifest[s][i] \in Paths
            BY ManifestOf
        <3> QED
            BY <1>3, <3>1 DEF Begins, Identities, Aged
    <2> QED
        BY <2>1, <2>2, <2>3 DEF Named, PathOf, PreOf
<1> QED
    BY <1>1, <1>2, <1>3 DEF Effect, Quiet, Disturbs

(* The journal never names a staged file twice.                            *)
LEMMA StagedOnceKept ==
    ASSUME TypeOK, PlannedApart, StagedOnce, Effect
    PROVE  StagedOnce'
<1>1. CASE Quiet
    <2>1. OpIds' = OpIds /\ \A o \in OpIds : ops'[o].set = ops[o].set
        BY <1>1, QuietRows
    <2>2. CASE Names
        <3>1. AtRow /\ Locator # None /\ Row.staged = None
            BY <2>2 DEF Names
        <3>2. cur \in OpIds /\ idx \in DOMAIN Manifest[ops[cur].set]
            BY <3>1, HereTyped
        <3>3. ASSUME NEW x \in OpIds, NEW j \in DOMAIN Manifest[ops[x].set], ops[x].files[j].staged # None
              PROVE  ops[x].files[j].staged.id # Locator.id
            BY <3>1, <3>2, <3>3 DEF PlannedApart, Unnamed, Row, Files, Locator
        <3>4. ASSUME NEW o \in OpIds, NEW i \in DOMAIN Manifest[ops[o].set]
              PROVE  ops'[o].files[i].staged = IF o = cur
                     /\ i = idx THEN Locator ELSE ops[o].files[i].staged
            <4>1. i \in 1..Len(ops[o].files)
                BY RowsTyped, ManifestOf DEF TypeOK
            <4> QED
                BY <2>2, <4>1 DEF Names, RowMoves
        <3>5. ASSUME NEW o \in OpIds, NEW x \in OpIds, NEW i \in DOMAIN Manifest[ops[o].set],
                    NEW j \in DOMAIN Manifest[ops[x].set],
                    ops'[o].files[i].staged # None, ops'[x].files[j].staged # None,
                    ops'[o].files[i].staged.id = ops'[x].files[j].staged.id
              PROVE  o = x /\ i = j
            <4>1. /\ ops'[o].files[i].staged = (IF o = cur /\ i = idx THEN Locator ELSE ops[o].files[i].staged)
                  /\ ops'[x].files[j].staged = (IF x = cur /\ j = idx THEN Locator ELSE ops[x].files[j].staged)
                BY <3>4
            <4>2. CASE ~(o = cur /\ i = idx) /\ ~(x = cur /\ j = idx)
                BY <3>5, <4>1, <4>2 DEF StagedOnce
            <4>3. CASE o = cur /\ i = idx
                BY <3>3, <3>5, <4>1, <4>3
            <4>4. CASE x = cur /\ j = idx
                BY <3>3, <3>5, <4>1, <4>4
            <4> QED
                BY <4>2, <4>3, <4>4
        <3>6. \A o \in OpIds : DOMAIN Manifest[ops'[o].set] = DOMAIN Manifest[ops[o].set]
            BY <2>1
        <3> QED
            BY <2>1, <3>5, <3>6 DEF StagedOnce
    <2>3. CASE ~Names
        <3>1. \A o \in OpIds : \A i \in DOMAIN Manifest[ops[o].set] :
                  ops'[o].files[i].staged = ops[o].files[i].staged
            BY <1>1, <2>3, RowsNow
        <3>2. ASSUME NEW o \in OpIds, NEW x \in OpIds, NEW i \in DOMAIN Manifest[ops[o].set],
                    NEW j \in DOMAIN Manifest[ops[x].set],
                    ops'[o].files[i].staged # None, ops'[x].files[j].staged # None,
                    ops'[o].files[i].staged.id = ops'[x].files[j].staged.id
              PROVE  o = x /\ i = j
            <4>1. /\ ops'[o].files[i].staged = ops[o].files[i].staged
                  /\ ops'[x].files[j].staged = ops[x].files[j].staged
                BY <3>1
            <4> QED
                BY <3>2, <4>1 DEF StagedOnce
        <3>3. \A o \in OpIds : DOMAIN Manifest[ops'[o].set] = DOMAIN Manifest[ops[o].set]
            BY <2>1
        <3> QED
            BY <2>1, <3>2, <3>3 DEF StagedOnce
    <2> QED
        BY <2>2, <2>3
<1>2. CASE Disturbs
    <2>1. ops' = ops /\ OpIds' = OpIds
        BY <1>2, DisturbsRows
    <2> QED
        BY <2>1 DEF StagedOnce
<1>3. ASSUME NEW s \in 1..Sets, NEW n \in Nat, Begins(s, n) PROVE StagedOnce'
    <2>1. /\ OpIds' = OpIds \cup {n} /\ \A o \in OpIds : ops'[o] = ops[o]
          /\ ops'[n].set = s
        BY <1>3, NewRow
    <2>2. \A i \in DOMAIN Manifest[s] : ops'[n].files[i].staged = None
        BY <1>3, ManifestOf DEF Begins
    <2> QED
        BY <2>1, <2>2, SMTT(30) DEF StagedOnce
<1> QED
    BY <1>1, <1>2, <1>3 DEF Effect, Quiet, Disturbs

(* A sibling no row names is apart from every other file.                  *)
Apart(o, i, id) ==
    /\ id > Sets
    /\ \A p \in Paths : target[p].id # id /\ base[p].id # id
    /\ \A x \in OpIds : \A j \in DOMAIN Manifest[ops[x].set] :
          /\ ops[x].files[j].staged # None => ops[x].files[j].staged.id # id
          /\ sibling[x][j] # None /\ <<x, j>> # <<o, i>> => sibling[x][j].id # id

(* The same, with the identity as a parameter.                             *)
LEMMA ApartIsPlannedApart ==
    /\ PlannedApart <=> \A o \in OpIds : \A i \in DOMAIN Manifest[ops[o].set] :
                            Unnamed(o, i) => Apart(o, i, sibling[o][i].id)
    /\ PlannedApart' <=> \A o \in OpIds' : \A i \in DOMAIN Manifest[ops'[o].set] :
                            Unnamed(o, i)' => Apart(o, i, sibling[o][i].id)'
BY DEF PlannedApart, Apart

(* A sibling that no row names is nobody else's file.                      *)
LEMMA PlannedApartKept ==
    ASSUME TypeOK, Identities, Named, PlannedApart, Effect
    PROVE  PlannedApart'
<1>0. nextId \in Nat /\ Sets \in Nat /\ nextId > Sets
    BY UndoAssumption DEF TypeOK, WorkspaceTyped, Identities
<1>a. ASSUME NEW o \in OpIds, NEW i \in DOMAIN Manifest[ops[o].set], Unnamed(o, i)
      PROVE  Apart(o, i, sibling[o][i].id) /\ sibling[o][i].id < nextId /\ sibling[o][i].id \in Nat
    <2>1. sibling[o][i] \in FileType
        BY <1>a, SiblingsTyped, RowsTyped, ManifestOf DEF TypeOK, Unnamed
    <2> QED
        BY <1>a, <2>1, ApartIsPlannedApart DEF Identities, Aged, Unnamed, FileType
<1>b. ASSUME NEW o \in OpIds, NEW i \in DOMAIN Manifest[ops[o].set]
      PROVE  Apart(o, i, nextId)
    <2>1. \A p \in Paths : target[p].id # nextId /\ base[p].id # nextId
        BY <1>0 DEF Identities, Aged, TypeOK, WorkspaceTyped, FileType
    <2>2. ASSUME NEW x \in OpIds, NEW j \in DOMAIN Manifest[ops[x].set]
          PROVE  /\ ops[x].files[j].staged # None => ops[x].files[j].staged.id # nextId
                 /\ sibling[x][j] # None => sibling[x][j].id # nextId
        BY <1>0 DEF Identities, Aged, Named
    <2> QED
        BY <1>0, <2>1, <2>2 DEF Apart
<1>1. CASE Quiet
    <2>1. Untouched /\ OpIds' = OpIds /\ \A o \in OpIds : ops'[o].set = ops[o].set
        BY <1>1, QuietRows
    <2>2. ASSUME NEW o \in OpIds, NEW i \in DOMAIN Manifest[ops[o].set], Unnamed(o, i)'
          PROVE  Apart(o, i, sibling[o][i].id)'
        <3>1. Unnamed(o, i) /\ ~(Names /\ o = cur /\ i = idx)
            <4>1. Names => Locator # None
                BY DEF Names
            <4>2. Names /\ o = cur /\ i = idx => ops'[o].files[i].staged = Locator
                <5>1. i \in 1..Len(ops[o].files)
                    BY RowsTyped, ManifestOf DEF TypeOK
                <5> QED
                    BY <5>1 DEF Names, RowMoves
            <4> QED
                BY <1>1, <2>1, <2>2, <4>1, <4>2, RowsNow DEF Unnamed, Untouched
        <3>2. Apart(o, i, sibling[o][i].id)
            BY <1>a, <3>1
        <3>3. ASSUME NEW x \in OpIds, NEW j \in DOMAIN Manifest[ops[x].set], ops'[x].files[j].staged # None
              PROVE  ops'[x].files[j].staged.id # sibling[o][i].id
            <4>1. CASE ops'[x].files[j].staged = ops[x].files[j].staged
                BY <3>2, <3>3, <4>1 DEF Apart
            <4>2. CASE Names /\ x = cur /\ j = idx /\ ops'[x].files[j].staged = Locator
                BY <3>1, <3>2, <3>3, <4>2 DEF Apart, Locator
            <4> QED
                BY <1>1, <4>1, <4>2, RowsNow
        <3>4. sibling' = sibling /\ target' = target /\ base' = base
            BY <2>1 DEF Untouched
        <3>5. \A x \in OpIds : DOMAIN Manifest[ops'[x].set] = DOMAIN Manifest[ops[x].set]
            BY <2>1
        <3> QED
            BY <2>1, <3>2, <3>3, <3>4, <3>5 DEF Apart
    <2> QED
        BY <2>1, <2>2, ApartIsPlannedApart
<1>2. ASSUME NEW f, Relocates(f), nextId' \in {nextId, nextId + 1},
             Row.staged # None \/ f = None \/ f.id = nextId
             \/ (Locator # None /\ f.id = Locator.id),
             Row.staged # None /\ f # None => \E p \in Paths : f = target[p],
             \A p \in Paths : target'[p] = target[p]
             \/ (target'[p] = Locator /\ Locator # None /\ Row.staged # None)
      PROVE  PlannedApart'
    <2>1. /\ AtRow /\ ops' = ops /\ base' = base /\ OpIds' = OpIds
          /\ \A o \in OpIds : \A i \in DOMAIN Manifest[ops[o].set] :
                 sibling'[o][i] = IF o = cur /\ i = idx THEN f ELSE sibling[o][i]
        BY <1>2, LocatorsMove
    <2>2. cur \in OpIds /\ idx \in DOMAIN Manifest[ops[cur].set]
        BY <2>1, HereTyped
    <2>3. ASSUME NEW o \in OpIds, NEW i \in DOMAIN Manifest[ops[o].set], Unnamed(o, i)'
          PROVE  Apart(o, i, sibling[o][i].id)'
        <3>1. CASE o = cur /\ i = idx
            <4>1. sibling'[o][i] = f /\ f # None /\ Row.staged = None
                BY <2>1, <2>3, <3>1 DEF Unnamed, Row, Files
            <4>2. \A p \in Paths : target'[p] = target[p]
                BY <1>2, <4>1
            <4>3. Apart(o, i, f.id)
                <5>1. CASE f.id = nextId
                    BY <1>b, <5>1
                <5>2. CASE Locator # None /\ f.id = Locator.id
                    BY <1>a, <3>1, <4>1, <5>2 DEF Unnamed, Row, Files, Locator
                <5> QED
                    BY <1>2, <4>1, <5>1, <5>2
            <4>4. \A x \in OpIds : \A j \in DOMAIN Manifest[ops[x].set] :
                      <<x, j>> # <<o, i>> => sibling'[x][j] = sibling[x][j]
                BY <2>1, <3>1
            <4> QED
                BY <2>1, <4>1, <4>2, <4>3, <4>4 DEF Apart
        <3>2. CASE ~(o = cur /\ i = idx)
            <4>1. sibling'[o][i] = sibling[o][i] /\ Unnamed(o, i)
                BY <2>1, <2>3, <3>2 DEF Unnamed
            <4>2. Apart(o, i, sibling[o][i].id) /\ sibling[o][i].id < nextId
                  /\ sibling[o][i].id \in Nat
                BY <1>a, <4>1
            <4>3. Locator # None => Locator.id # sibling[o][i].id
                BY <2>2, <3>2, <4>2 DEF Apart, Locator
            <4>4. \A p \in Paths : target'[p].id # sibling[o][i].id
                BY <1>2, <4>2, <4>3 DEF Apart
            <4>5. f # None => f.id # sibling[o][i].id
                BY <1>0, <1>2, <4>2, <4>3 DEF Apart
            <4>6. \A x \in OpIds : \A j \in DOMAIN Manifest[ops[x].set] :
                      sibling'[x][j] # None /\ <<x, j>> # <<o, i>>
                          => sibling'[x][j].id # sibling[o][i].id
                BY <2>1, <4>2, <4>5 DEF Apart
            <4> QED
                BY <2>1, <4>1, <4>2, <4>4, <4>6 DEF Apart
        <3> QED
            BY <3>1, <3>2
    <2> QED
        BY <2>1, <2>3, ApartIsPlannedApart
<1>3. CASE Removes
    <2>1. \A p \in Paths : target'[p] = target[p]
        BY <1>3 DEF Removes
    <2>2. Relocates(None) /\ nextId' = nextId
        BY <1>3 DEF Removes
    <2> QED
        BY <1>2, <2>1, <2>2
<1>4. CASE Creates
    <2>1. \A p \in Paths : target'[p] = target[p]
        BY <1>4 DEF Creates
    <2>2. Relocates(File(Partial, nextId)) /\ nextId' = nextId + 1 /\ Row.staged = None
        BY <1>4 DEF Creates
    <2>3. File(Partial, nextId).id = nextId
        BY DEF File
    <2> QED
        BY <1>2, <2>1, <2>2, <2>3
<1>5. CASE Fills
    <2>1. \A p \in Paths : target'[p] = target[p]
        BY <1>5 DEF Fills
    <2>2. /\ Relocates(File(PreOf(cur, idx), Locator.id)) /\ nextId' = nextId
          /\ Locator # None /\ Row.staged = None
        BY <1>5 DEF Fills
    <2>3. File(PreOf(cur, idx), Locator.id).id = Locator.id
        BY DEF File
    <2> QED
        BY <1>2, <2>1, <2>2, <2>3
<1>6. CASE Swaps
    <2>1. Here \in Paths
        BY <1>6, HereTyped DEF Swaps, Relocates
    <2> QED
        BY <1>2, <1>6, <2>1 DEF Swaps, TypeOK, WorkspaceTyped
<1>7. ASSUME NEW s \in 1..Sets, NEW n \in Nat, Begins(s, n) PROVE PlannedApart'
    <2>1. /\ OpIds' = OpIds \cup {n} /\ \A o \in OpIds : ops'[o] = ops[o]
          /\ ops'[n].set = s
        BY <1>7, NewRow
    <2>2. /\ target' = target /\ \A o \in OpIds : sibling'[o] = sibling[o]
          /\ \A p \in Paths : base'[p] = target[p] \/ base'[p] = base[p]
        BY <1>7 DEF Begins
    <2>3. \A i \in DOMAIN Manifest[s] : sibling'[n][i] = None /\ ops'[n].files[i].staged = None
        BY <1>7, ManifestOf DEF Begins
    <2>4. ASSUME NEW o \in OpIds, NEW i \in DOMAIN Manifest[ops[o].set], Unnamed(o, i)'
          PROVE  Apart(o, i, sibling[o][i].id)'
        <3>1. sibling'[o] = sibling[o] /\ Unnamed(o, i)
            BY <2>1, <2>2, <2>4 DEF Unnamed
        <3>2. Apart(o, i, sibling[o][i].id)
            BY <1>a, <3>1
        <3> QED
            BY <2>1, <2>2, <2>3, <3>1, <3>2 DEF Apart
    <2> QED
        BY <2>1, <2>3, <2>4, ApartIsPlannedApart DEF Unnamed
<1>8. ASSUME NEW p \in Paths, NEW f \in FileType, Rewrites(p, f) PROVE PlannedApart'
    <2>1. /\ ops' = ops /\ sibling' = sibling /\ OpIds' = OpIds
          /\ f.id \in {nextId, target[p].id}
          /\ \A q \in Paths : /\ target'[q] = IF q = p THEN f ELSE target[q]
                              /\ base'[q] = IF q = p THEN f ELSE base[q]
        BY <1>8 DEF Rewrites, TypeOK, WorkspaceTyped, OpIds
    <2>2. ASSUME NEW o \in OpIds, NEW i \in DOMAIN Manifest[ops[o].set], Unnamed(o, i)'
          PROVE  Apart(o, i, sibling[o][i].id)'
        <3>1. Unnamed(o, i)
            BY <2>1, <2>2 DEF Unnamed
        <3>2. Apart(o, i, sibling[o][i].id) /\ sibling[o][i].id < nextId /\ sibling[o][i].id \in Nat
            BY <1>a, <3>1
        <3>3. f.id # sibling[o][i].id
            BY <1>0, <2>1, <3>2 DEF Apart
        <3> QED
            BY <2>1, <3>2, <3>3 DEF Apart
    <2> QED
        BY <2>1, <2>2, ApartIsPlannedApart
<1> QED
    BY <1>1, <1>3, <1>4, <1>5, <1>6, <1>7, <1>8 DEF Effect, Quiet

(* No preimage passes for a file that others left.                         *)
LEMMA BaseInstalledKept ==
    ASSUME TypeOK, Identities, Named, StagedOnce, PlannedApart, BaseInstalled, Effect
    PROVE  BaseInstalled'
<1>0. nextId \in Nat /\ Sets \in Nat
    BY UndoAssumption DEF TypeOK, WorkspaceTyped
<1>1. \A p \in Paths : base[p] # None /\ target[p] # None
    BY NoneAssumption DEF TypeOK, WorkspaceTyped
<1>2. \A o \in OpIds : \A i \in DOMAIN Manifest[ops[o].set] : PathOf(o, i) \in Paths
    BY RowsTyped, ManifestOf DEF TypeOK, PathOf
<1>3. CASE Quiet
    <2>1. Effect /\ Untouched /\ OpIds' = OpIds /\ \A o \in OpIds : ops'[o].set = ops[o].set
        BY <1>3, QuietRows
    <2>2. ASSUME NEW o \in OpIds, NEW i \in DOMAIN Manifest[ops[o].set],
                 ops'[o].files[i].staged = base[PathOf(o, i)]
          PROVE  ops'[o].state = "completed"
        <3>1. CASE ops'[o].files[i].staged = ops[o].files[i].staged
            BY <2>1, <2>2, <3>1, StatesStay DEF BaseInstalled, Active
        <3>2. CASE Names /\ o = cur /\ i = idx /\ ops'[o].files[i].staged = Locator
            <4>1. Unnamed(o, i)
                BY <3>2 DEF Names, Unnamed, Row, Files, Locator
            <4>2. base[PathOf(o, i)].id # Locator.id
                BY <1>2, <3>2, <4>1 DEF PlannedApart, Locator
            <4> QED
                BY <2>2, <3>2, <4>2
        <3> QED
            BY <1>3, <3>1, <3>2, RowsNow
    <2>3. base' = base
          /\ \A o \in OpIds : \A i \in DOMAIN Manifest[ops[o].set] : PathOf(o, i)' = PathOf(o, i)
        BY <2>1 DEF Untouched, PathOf
    <2> QED
        BY <2>1, <2>2, <2>3 DEF BaseInstalled
<1>4. CASE UNCHANGED <<ops, base>>
    BY <1>4 DEF BaseInstalled, PathOf, OpIds
<1>5. ASSUME NEW s \in 1..Sets, NEW n \in Nat, Begins(s, n) PROVE BaseInstalled'
    <2>1. /\ OpIds' = OpIds \cup {n} /\ \A o \in OpIds : ops'[o] = ops[o]
          /\ ops'[n].set = s
        BY <1>5, NewRow
    <2>2. \A i \in DOMAIN Manifest[s] : ops'[n].files[i].staged = None
        BY <1>5, ManifestOf DEF Begins
    <2>3. base' \in [Paths -> FileType]
          /\ \A p \in Paths : base'[p] = IF Touches(s, p) THEN target[p] ELSE base[p]
        BY <1>5 DEF Begins
    <2>4. \A i \in DOMAIN Manifest[s] : Manifest[s][i] \in Paths
        BY ManifestOf
    <2>5. ASSUME NEW o \in OpIds, NEW i \in DOMAIN Manifest[ops[o].set],
                 ops[o].files[i].staged = base'[PathOf(o, i)]
          PROVE  ops[o].state = "completed"
        <3> DEFINE p == PathOf(o, i)
        <3>1. p \in Paths
            BY <1>2
        <3>2. CASE ~Touches(s, p)
            BY <2>3, <2>5, <3>1, <3>2 DEF BaseInstalled
        <3>3. CASE Touches(s, p)
            <4>1. ops[o].files[i].staged = target[p] /\ target[p] # None
                BY <1>1, <2>3, <2>5, <3>1, <3>3
            <4>2. target[p].id > Sets
                BY <4>1 DEF Named
            <4>3. PICK k \in 1..Len(Manifest[s]) : Manifest[s][k] = p
                BY <3>3, ManifestOf DEF Touches
            <4>4. Installed(p, s)
                BY <1>5, <4>3 DEF Begins
            <4>5. PICK x \in OpIds : /\ ops[x].state = "completed"
                                     /\ \E j \in 1..Len(Manifest[ops[x].set]) : ops[x].files[j].staged = target[p]
                BY <1>0, <4>2, <4>4 DEF Installed
            <4>6. PICK j \in DOMAIN Manifest[ops[x].set] : ops[x].files[j].staged = target[p]
                BY <4>5, RowsTyped, ManifestOf DEF TypeOK
            <4>7. o = x
                BY <4>1, <4>6 DEF StagedOnce
            <4> QED
                BY <4>5, <4>7
        <3> QED
            BY <3>2, <3>3
    <2>6. ASSUME NEW i \in DOMAIN Manifest[s] PROVE ops'[n].files[i].staged # base'[Manifest[s][i]]
        BY <2>2, <2>3, <2>4, NoneAssumption
    <2>7. \A o \in OpIds : \A i \in DOMAIN Manifest[ops[o].set] : PathOf(o, i)' = PathOf(o, i)
        BY <2>1 DEF PathOf
    <2>8. \A i \in DOMAIN Manifest[s] : PathOf(n, i)' = Manifest[s][i]
        BY <2>1 DEF PathOf
    <2> QED
        BY <2>1, <2>5, <2>6, <2>7, <2>8 DEF BaseInstalled
<1>6. ASSUME NEW p \in Paths, NEW f \in FileType, Rewrites(p, f) PROVE BaseInstalled'
    <2>1. /\ ops' = ops /\ OpIds' = OpIds /\ (f.bytes = Foreign \/ f.id = nextId)
          /\ \A q \in Paths : base'[q] = IF q = p THEN f ELSE base[q]
        BY <1>6 DEF Rewrites, TypeOK, WorkspaceTyped, OpIds
    <2>2. ASSUME NEW o \in OpIds, NEW i \in DOMAIN Manifest[ops[o].set] PROVE ops[o].files[i].staged # f
        <3>1. PreOf(o, i) \in Nat
            BY PreOfNat DEF TypeOK
        <3>2. ops[o].files[i].staged # None =>
                 ops[o].files[i].staged.bytes = PreOf(o, i) /\ ops[o].files[i].staged.id < nextId
            BY DEF Named
        <3>3. f # None
            BY NoneAssumption
        <3> QED
            BY <1>0, <2>1, <3>1, <3>2, <3>3 DEF Foreign
    <2>3. \A o \in OpIds : \A i \in DOMAIN Manifest[ops[o].set] : PathOf(o, i)' = PathOf(o, i)
        BY <2>1 DEF PathOf
    <2> QED
        BY <1>2, <2>1, <2>2, <2>3 DEF BaseInstalled
<1> QED
    BY <1>3, <1>4, <1>5, <1>6 DEF Effect, Quiet, Removes, Creates, Fills, Swaps, Relocates

(* No step destroys what was at a path.                                    *)
LEMMA NoFileIsLostKept ==
    ASSUME TypeOK, PlannedApart, BaseInstalled, NoFileIsLost, Effect
    PROVE  NoFileIsLost'
<1> DEFINE Replaced(p) == \E o \in OpIds : /\ ops[o].state = "completed"
                                           /\ \E i \in DOMAIN ops[o].files : /\ PathOf(o, i) = p
                                                                             /\ ops[o].files[i].expected = base[p]
<1>0. ASSUME NEW o \in OpIds
      PROVE  /\ DOMAIN ops[o].files = DOMAIN Manifest[ops[o].set]
             /\ DOMAIN sibling[o] = DOMAIN Manifest[ops[o].set]
             /\ \A i \in DOMAIN Manifest[ops[o].set] : PathOf(o, i) \in Paths
    BY RowsTyped, SiblingsTyped, ManifestOf DEF TypeOK, PathOf
<1>1. \A p \in Paths : base[p] # None
    BY NoneAssumption DEF TypeOK, WorkspaceTyped
<1>2. CASE Quiet
    <2>1. /\ Effect /\ Untouched /\ OpIds' = OpIds /\ \A o \in OpIds : ops'[o].set = ops[o].set
          /\ \A o \in OpIds : \A i \in DOMAIN Manifest[ops[o].set] :
                ops'[o].files[i].expected = ops[o].files[i].expected
        BY <1>2, QuietRows
    <2>2. ASSUME NEW o \in OpIds
          PROVE  /\ DOMAIN ops'[o].files = DOMAIN ops[o].files
                 /\ \A i \in DOMAIN Manifest[ops[o].set] : PathOf(o, i)' = PathOf(o, i)
        <3>1. ops' \in Seq(OpRows) /\ Len(ops') = Len(ops) /\ Len(ops'[o].files) = Len(ops[o].files)
            BY <1>2 DEF Quiet, Still, Moves, OpMoves, Marks, Names, RowMoves, Finishes,
               CleanupEnds,
               TypeOK, JournalTyped
        <3>2. ops'[o].files \in Seq(FileRows) /\ ops[o].files \in Seq(FileRows)
            <4>1. o \in 1..Len(ops') /\ Len(ops') \in Nat
                BY <3>1, RowsTyped DEF TypeOK, OpIds
            <4>2. ops'[o] \in OpRows
                BY <3>1, <4>1
            <4> QED
                BY <4>2, RowsTyped DEF OpRows, TypeOK
        <3> QED
            BY <2>1, <3>1, <3>2 DEF PathOf
    <2>3. target' = target /\ sibling' = sibling /\ base' = base
        BY <2>1 DEF Untouched
    <2>4. \A o \in OpIds : ops[o].state = "completed" => ops'[o].state = "completed"
        BY <2>1, StatesStay DEF Active
    <2>5. ASSUME NEW p \in Paths PROVE Kept(p, base[p]) => Kept(p, base[p])'
        BY <1>0, <2>1, <2>2, <2>3 DEF Kept
    <2>6. ASSUME NEW p \in Paths PROVE Replaced(p) => Replaced(p)'
        BY <1>0, <2>1, <2>2, <2>3, <2>4
    <2> QED
        BY <2>5, <2>6 DEF NoFileIsLost
<1>3. ASSUME NEW f, Relocates(f),
             \A p \in Paths : p # Here => target'[p] = target[p],
             \/ target'[Here] = target[Here] /\ (Locator = base[Here] => Replaced(Here))
             \/ target'[Here] = Locator /\ f = target[Here]
      PROVE  NoFileIsLost'
    <2>1. /\ AtRow /\ ops' = ops /\ base' = base /\ OpIds' = OpIds
          /\ \A o \in OpIds : \A i \in DOMAIN Manifest[ops[o].set] :
                 sibling'[o][i] = IF o = cur /\ i = idx THEN f ELSE sibling[o][i]
        BY <1>3, LocatorsMove
    <2>2. \A o \in OpIds : DOMAIN sibling'[o] = DOMAIN Manifest[ops[o].set]
        <3>1. \A o \in OpIds : Len(sibling'[o]) = Len(sibling[o])
              /\ sibling'[o] \in Seq(FileType \cup {None})
            BY <1>3 DEF Relocates, LocatorMoves, OpIds, TypeOK, WorkspaceTyped
        <3> QED
            BY <1>0, <3>1, SiblingsTyped DEF TypeOK
    <2>3. \A o \in OpIds : \A i \in DOMAIN Manifest[ops[o].set] : PathOf(o, i)' = PathOf(o, i)
        BY <2>1 DEF PathOf
    <2>4. cur \in OpIds /\ idx \in DOMAIN Manifest[ops[cur].set] /\ PathOf(cur, idx) = Here
        BY <2>1, HereTyped DEF Here
    <2>5. ASSUME NEW p \in Paths PROVE Replaced(p) => Replaced(p)'
        BY <2>1, <2>3, <1>0
    <2>6. ASSUME NEW p \in Paths, Kept(p, base[p]) PROVE Kept(p, base[p])' \/ Replaced(p)
        <3>1. CASE target[p] = base[p] /\ p # Here
            BY <1>3, <2>1, <3>1 DEF Kept
        <3>2. CASE target[p] = base[p] /\ p = Here
            <4>1. CASE target'[Here] = target[Here]
                BY <2>1, <3>2, <4>1 DEF Kept
            <4>2. CASE f = target[Here]
                <5>1. sibling'[cur][idx] = base'[p]
                    BY <2>1, <2>4, <3>2, <4>2
                <5>2. PICK o \in OpIds' : o = cur
                    BY <2>1, <2>4
                <5>3. PICK i \in DOMAIN sibling'[o] : i = idx
                    BY <2>2, <2>4, <5>2
                <5>4. PathOf(o, i)' = p
                    BY <2>3, <2>4, <3>2, <5>2, <5>3
                <5> QED
                    BY <5>1, <5>2, <5>3, <5>4 DEF Kept
            <4> QED
                BY <1>3, <4>1, <4>2
        <3>3. ASSUME NEW o \in OpIds, NEW i \in DOMAIN sibling[o], PathOf(o, i) = p, sibling[o][i] = base[p]
              PROVE  Kept(p, base[p])' \/ Replaced(p)
            <4>0. i \in DOMAIN Manifest[ops[o].set]
                BY <1>0
            <4>1. CASE ~(o = cur /\ i = idx)
                <5>1. sibling'[o][i] = base'[p] /\ PathOf(o, i)' = p /\ o \in OpIds'
                      /\ i \in DOMAIN sibling'[o]
                    BY <2>1, <2>2, <2>3, <3>3, <4>0, <4>1
                <5> QED
                    BY <5>1 DEF Kept
            <4>2. CASE o = cur /\ i = idx
                <5>1. p = Here /\ Locator = base[p]
                    BY <3>3, <4>2 DEF Here, Locator
                <5> QED
                    BY <1>3, <2>1, <5>1 DEF Kept
            <4> QED
                BY <4>1, <4>2
        <3> QED
            BY <2>6, <3>1, <3>2, <3>3 DEF Kept
    <2> QED
        BY <2>5, <2>6 DEF NoFileIsLost
<1>4. CASE Removes \/ Creates \/ Fills
    <2>1. AtRow /\ (\E f : Relocates(f)) /\ target' = target
        BY <1>4 DEF Removes, Creates, Fills, Relocates
    <2>2. cur \in OpIds /\ idx \in DOMAIN Manifest[ops[cur].set] /\ Here \in Paths
        BY <2>1, HereTyped
    <2>3. Locator = base[Here] => Replaced(Here)
        <3>1. SUFFICES ASSUME Locator = base[Here] PROVE Replaced(Here)
            OBVIOUS
        <3>2. Locator # None
            BY <1>1, <2>2, <3>1
        <3>3. Row.staged # None
            BY <2>2, <3>1, <3>2 DEF PlannedApart, Unnamed, Row, Files, Locator
        <3>4. /\ \/ Row.staged = Locator /\ ops[cur].state # "completed"
                 \/ Row.expected = Locator /\ ops[cur].state = "completed"
            BY <1>4, <3>2, <3>3 DEF Removes, Creates, Fills
        <3>5. Row.expected = Locator /\ ops[cur].state = "completed"
            BY <2>2, <3>1, <3>4 DEF BaseInstalled, Row, Files, Here
        <3>6. idx \in DOMAIN ops[cur].files /\ PathOf(cur, idx) = Here
              /\ ops[cur].files[idx].expected = base[Here]
            BY <1>0, <2>2, <3>1, <3>5 DEF Row, Files, Here
        <3> QED
            BY <2>2, <3>5, <3>6
    <2> QED
        BY <1>3, <2>1, <2>3
<1>5. CASE Swaps
    <2>1. AtRow /\ Relocates(target[Here]) /\ target' = [target EXCEPT ![Here] = Locator]
        BY <1>5 DEF Swaps, Relocates
    <2>2. Here \in Paths /\ \A p \in Paths : target'[p] = IF p = Here THEN Locator ELSE target[p]
        BY <2>1, HereTyped DEF TypeOK, WorkspaceTyped
    <2> QED
        BY <1>3, <2>1, <2>2
<1>6. ASSUME NEW s \in 1..Sets, NEW n \in Nat, Begins(s, n) PROVE NoFileIsLost'
    <2>1. /\ OpIds' = OpIds \cup {n} /\ \A o \in OpIds : ops'[o] = ops[o]
        BY <1>6, NewRow
    <2>2. /\ target' = target /\ \A o \in OpIds : sibling'[o] = sibling[o]
          /\ \A p \in Paths : base'[p] = target[p] \/ base'[p] = base[p]
        BY <1>6 DEF Begins
    <2>3. \A o \in OpIds : \A i \in DOMAIN Manifest[ops[o].set] : PathOf(o, i)' = PathOf(o, i)
        BY <2>1 DEF PathOf
    <2>4. ASSUME NEW p \in Paths, base'[p] = base[p], Kept(p, base[p]) PROVE Kept(p, base[p])'
        BY <1>0, <2>1, <2>2, <2>3, <2>4 DEF Kept
    <2>5. ASSUME NEW p \in Paths, base'[p] = base[p], Replaced(p) PROVE Replaced(p)'
        BY <1>0, <2>1, <2>2, <2>3, <2>5
    <2>6. ASSUME NEW p \in Paths, base'[p] = target[p] PROVE Kept(p, base[p])'
        BY <2>2, <2>6 DEF Kept
    <2> QED
        BY <2>2, <2>4, <2>5, <2>6 DEF NoFileIsLost
<1>7. ASSUME NEW p \in Paths, NEW f \in FileType, Rewrites(p, f) PROVE NoFileIsLost'
    <2>1. /\ ops' = ops /\ sibling' = sibling
          /\ \A q \in Paths : /\ target'[q] = IF q = p THEN f ELSE target[q]
                              /\ base'[q] = IF q = p THEN f ELSE base[q]
        BY <1>7 DEF Rewrites, TypeOK, WorkspaceTyped
    <2>2. Kept(p, base[p])'
        BY <2>1 DEF Kept
    <2>3. ASSUME NEW q \in Paths, q # p
          PROVE  (Kept(q, base[q]) => Kept(q, base[q])') /\ (Replaced(q) => Replaced(q)')
        BY <2>1, <2>3 DEF Kept, OpIds, PathOf
    <2> QED
        BY <2>2, <2>3 DEF NoFileIsLost
<1> QED
    BY <1>2, <1>4, <1>5, <1>6, <1>7 DEF Effect, Quiet

(* Only an exchange changes what became of a file, and only at its path.   *)
LEMMA OutcomesStay ==
    ASSUME TypeOK, Identities, Named, Effect, NEW o \in OpIds, NEW i \in DOMAIN Manifest[ops[o].set],
           Swaps /\ target' # target => PathOf(o, i) # Here
    PROVE  /\ Original(o, i) => Original(o, i)'
           /\ Restored(o, i) /\ ~(Names /\ o = cur /\ i = idx) => Restored(o, i)'
<1> DEFINE p == PathOf(o, i)
<1>0. p \in Paths /\ nextId \in Nat /\ Len(ops) \in Nat /\ OpIds = 1..Len(ops)
    BY RowsTyped, ManifestOf DEF TypeOK, WorkspaceTyped, PathOf
<1>1. ASSUME PathOf(o, i)' = p,
             \A x \in (o + 1)..Len(ops) : ops'[x].set = ops[x].set,
             Len(ops') >= Len(ops), Len(ops') \in Nat,
             ops'[o].files[i].expected = ops[o].files[i].expected,
             base'[p] = base[p] \/ ~Calm(o, i)', target'[p] = target[p] \/ ~Calm(o, i)'
      PROVE  /\ Original(o, i) => Original(o, i)'
             /\ Restored(o, i) /\ ops'[o].files[i].staged = ops[o].files[i].staged
                    => Restored(o, i)'
    <2>1. Calm(o, i)' => Calm(o, i)
        BY <1>0, <1>1 DEF Calm
    <2> QED
        BY <1>1, <2>1 DEF Original, Restored
<1>2. CASE Quiet
    <2>1. /\ Untouched /\ OpIds' = OpIds /\ \A x \in OpIds : ops'[x].set = ops[x].set
          /\ ops'[o].files[i].expected = ops[o].files[i].expected
        BY <1>2, QuietRows
    <2>2. Len(ops') = Len(ops)
        BY <1>2 DEF Quiet, Still, Moves, OpMoves, Marks, Names, RowMoves, Finishes, CleanupEnds
    <2>3. PathOf(o, i)' = p /\ base' = base /\ target' = target
        BY <2>1 DEF PathOf, Untouched
    <2>4. \A x \in (o + 1)..Len(ops) : x \in OpIds
        BY <1>0
    <2>5. ~(Names /\ o = cur /\ i = idx) => ops'[o].files[i].staged = ops[o].files[i].staged
        BY <1>2, RowsNow
    <2> QED
        BY <1>0, <1>1, <2>1, <2>2, <2>3, <2>4, <2>5
<1>3. CASE Disturbs
    <2>1. ops' = ops
        BY <1>3, DisturbsRows
    <2>2. PathOf(o, i)' = p
        BY <2>1 DEF PathOf
    <2>3. CASE Removes \/ Creates \/ Fills
        BY <1>0, <1>1, <2>1, <2>2, <2>3 DEF Removes, Creates, Fills, Relocates
    <2>4. CASE Swaps
        <3>1. base' = base /\ target'[p] = target[p]
            BY <1>0, <2>4 DEF Swaps, Relocates, TypeOK, WorkspaceTyped
        <3> QED
            BY <1>0, <1>1, <2>1, <2>2, <3>1
    <2>5. ASSUME NEW q \in Paths, NEW f \in FileType, Rewrites(q, f)
          PROVE  /\ base'[p] = base[p] \/ ~Calm(o, i)'
                 /\ target'[p] = target[p] \/ ~Calm(o, i)'
        <3>1. CASE q # p
            BY <1>0, <2>5, <3>1 DEF Rewrites, TypeOK, WorkspaceTyped
        <3>2. CASE q = p
            <4>1. base'[p] = f /\ (f.bytes = Foreign \/ f.id = nextId)
                BY <1>0, <2>5, <3>2 DEF Rewrites, TypeOK, WorkspaceTyped
            <4>2. /\ ops[o].files[i].expected.id < nextId
                  /\ ops[o].files[i].expected.bytes = Post(ops[o].set, p)
                BY DEF Named
            <4>3. Post(ops[o].set, p) \in Nat \ {0}
                BY PreOfNat DEF TypeOK
            <4>4. f # ops[o].files[i].expected
                BY <1>0, <4>1, <4>2, <4>3 DEF Foreign
            <4> QED
                BY <2>1, <2>2, <4>1, <4>4 DEF Calm
        <3> QED
            BY <3>1, <3>2
    <2>6. CASE \E q \in Paths, f \in FileType : Rewrites(q, f)
        BY <1>0, <1>1, <2>1, <2>2, <2>5, <2>6
    <2> QED
        BY <1>3, <2>3, <2>4, <2>6 DEF Disturbs
<1>4. ASSUME NEW s \in 1..Sets, NEW n \in Nat, Begins(s, n)
      PROVE  /\ Original(o, i) => Original(o, i)'
             /\ Restored(o, i) => Restored(o, i)'
    <2>1. \A x \in OpIds : ops'[x] = ops[x]
        BY <1>4, NewRow
    <2>2. /\ n = Len(ops) + 1 /\ Len(ops') = n /\ ops'[n].set = s /\ target' = target
          /\ base'[p] = IF Touches(s, p) THEN target[p] ELSE base[p]
        BY <1>0, <1>4 DEF Begins
    <2>3. PathOf(o, i)' = p
        BY <2>1 DEF PathOf
    <2>4. base'[p] = base[p] \/ ~Calm(o, i)'
        <3>1. CASE Touches(s, p)
            <4>1. n \in (o + 1)..Len(ops')
                BY <1>0, <2>2
            <4> QED
                BY <2>2, <2>3, <3>1, <4>1 DEF Calm
        <3> QED
            BY <2>2, <3>1
    <2>5. \A x \in (o + 1)..Len(ops) : ops'[x].set = ops[x].set
        BY <1>0, <2>1
    <2> QED
        BY <1>0, <1>1, <2>1, <2>2, <2>3, <2>4, <2>5
<1> QED
    BY <1>2, <1>3, <1>4 DEF Effect, Quiet, Disturbs

(* The operation that exchanges files is the last one on their paths.      *)
LEMMA OutcomeKept ==
    ASSUME TypeOK, Identities, Named, Alone, Outcome, Effect
    PROVE  Outcome'
<1>1. ASSUME NEW o \in OpIds, NEW i \in DOMAIN Manifest[ops[o].set]
      PROVE  /\ ops'[o].state \in {"preparing", "rolled_back"} => Original(o, i)'
             /\ ops'[o].state = "completed" => Restored(o, i)'
    <2>1. CASE Swaps /\ PathOf(o, i) = Here
        <3>1. /\ AtRow /\ ops' = ops /\ base' = base
                 /\ ops[cur].state \in {"applying", "rolling_back"}
            BY <2>1, LocatorsMove DEF Swaps
        <3>2. cur \in OpIds /\ Here \in Paths /\ Touches(ops[cur].set, Here) /\ Active(cur)
            BY <3>1, HereTyped DEF Touches, Active
        <3>3. Touches(ops[o].set, Here)
            BY <2>1 DEF Touches, PathOf
        <3>4. cur >= o
            BY <3>2, <3>3, RowsTyped DEF Alone, TypeOK
        <3>5. CASE cur = o
            BY <3>1, <3>5
        <3>6. CASE cur > o
            <4>1. cur \in (o + 1)..Len(ops)
                BY <3>2, <3>6, RowsTyped DEF TypeOK
            <4>2. ~Calm(o, i)'
                BY <2>1, <3>1, <3>2, <4>1 DEF Calm, PathOf
            <4> QED
                BY <4>2 DEF Original, Restored
        <3> QED
            BY <3>2, <3>4, <3>5, <3>6, RowsTyped DEF TypeOK
    <2>2. CASE ~(Swaps /\ PathOf(o, i) = Here)
        <3>1. /\ Original(o, i) => Original(o, i)'
              /\ Restored(o, i) /\ ~(Names /\ o = cur /\ i = idx) => Restored(o, i)'
            BY <2>2, OutcomesStay
        <3>2. ASSUME NEW st \in OpStates, Moves(st), o = cur, st \in {"preparing", "rolled_back", "completed"}
              PROVE  ops'[o].state = st /\ (st # "completed" => Original(o, i))
                     /\ (st = "completed" => Restored(o, i)) /\ ~Names
            BY <3>2, RowsTyped DEF Moves, OpMoves, Names, RowMoves, TypeOK, Active
        <3>3. ASSUME NEW st \in OpStates, Moves(st), o # cur PROVE ops'[o].state = ops[o].state
            BY <3>3 DEF Moves, OpMoves
        <3>4. Names /\ o = cur => ops[o].state = "preparing" /\ ops'[o].state = "preparing"
            BY DEF Names, RowMoves
        <3>5. CASE ops'[o].state = ops[o].state
            BY <3>1, <3>4, <3>5 DEF Outcome
        <3>6. ASSUME NEW st \in OpStates, Moves(st), o = cur
              PROVE  /\ ops'[o].state \in {"preparing", "rolled_back"} => Original(o, i)'
                     /\ ops'[o].state = "completed" => Restored(o, i)'
            <4>1. ops'[o].state = st
                BY <3>6 DEF Moves, OpMoves
            <4> QED
                BY <3>1, <3>2, <3>6, <4>1
        <3>7. ASSUME NEW s \in 1..Sets, NEW n \in Nat, Begins(s, n) PROVE ops'[o].state = ops[o].state
            BY <3>7 DEF Begins
        <3> QED
            BY <3>3, <3>5, <3>6, <3>7, StatesStay
    <2> QED
        BY <2>1, <2>2
<1>2. \A o \in OpIds : ops'[o].set = ops[o].set
    BY StatesStay
<1>3. CASE OpIds' = OpIds
    BY <1>1, <1>2, <1>3 DEF Outcome
<1>4. ASSUME NEW s \in 1..Sets, NEW n \in Nat, Begins(s, n) PROVE Outcome'
    <2>1. /\ OpIds' = OpIds \cup {n} /\ ops'[n].set = s /\ ops'[n].state = "preparing"
        BY <1>4, NewRow
    <2>2. ASSUME NEW i \in DOMAIN Manifest[s] PROVE Original(n, i)'
        <3>1. i \in 1..Len(Manifest[s])
            BY ManifestOf
        <3>2. ops'[n].files[i].expected = target[Manifest[s][i]] /\ target' = target
            BY <1>4, <3>1 DEF Begins
        <3> QED
            BY <2>1, <3>2 DEF Original, PathOf
    <2> QED
        BY <1>1, <1>2, <2>1, <2>2 DEF Outcome
<1>5. CASE \E st \in OpStates : Moves(st)
    BY <1>3, <1>5 DEF Moves, OpMoves, OpIds
<1> QED
    BY <1>3, <1>4, <1>5, StatesStay
=============================================================================
