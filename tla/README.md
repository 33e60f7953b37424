# MaidSafe-Launcher in TLA+

The SAFE App Launcher keeps a user's apps: which ones exist (in an account saved,
encrypted, on the network), which ones are installed on this machine (in a config
file), and what each may access. This directory models the C++ library under
`src/maidsafe/launcher` and the views in front of it, with the script that rates new
passwords, checks the models with TLC and proves most of their safety properties with
TLAPS.

    tlc -config OneCaller.cfg LauncherProperties     # any run: see "Runs"
    tlapm LauncherProofs.tla

Line numbers below are of files in `src/src/maidsafe/launcher/`.

## 1. The system

| Component | State | Operations | Talks to |
|---|---|---|---|
| **Account, AppDetails** (`account.cc`, `app_details.cc`) | name, path, args, permitted_dirs, icon, auto_start of each app; a set ordered by name | encrypt, parse | – |
| **AppHandler** (`app_handler.cc`) | `local_apps_`, `non_local_apps_`, a pointer to the account and its mutex, the config file | Initialise, GetSnapshot, ApplySnapshot, Add/Link, Update…, RemoveLocally, RemoveFromNetwork | account (pointer), file system |
| **Launcher** (`launcher.cc`) | `account_mutex_`, `rollback_snapshot_`, the two handlers | the public API: Login, CreateAccount, AddApp, LinkApp, UpdateApp…, RemoveApp…, SaveSession, RevertToLastSavedSession, LogoutAndStop, LaunchApp | AppHandler and AccountHandler (calls) |
| **AccountHandler** (`account_handler.cc`) | account, `account_versions_` (a chain of at most 20 version names), credentials | constructor for a new account, Login, Save | network (Store, Get, Delete) |
| **App launch** (`launcher.cc:277`, `launch.h`) | per launch: listener, timer, connection, strand | LaunchApp, HandleNewConnection, HandleMessage | asio, tcp (callbacks) |
| **AppHandshake** | a listener | stub: everything is commented out, nothing uses it | – |
| **AccountGetter** (`account_getter.cc`) | network health, its mutex and condition | join the network and wait for health 100 (code that does not compile, section 7) | routing (callbacks) |
| **UI** (`ui/`) | current views, `future_` of a login or creation; per view: fields, QML state, loading animation | login, createAccount, result slots, buttons, tabs, links | AccountHandlerModel, a stub for Launcher (std::async), Qt signals |
| **Password strength** (`ui/resources/js/password_strength.js`, `CreateAccount.qml`, `FloatingStatusBox.qml`) | text of a field, what its box says; per check: matches, least entropies, match sequence | type, erase, paste; omnimatch, minimum_entropy_match_sequence, score | the field's handler calls it after each change |
| **launcher_main** | a promise | create an account, wait for a signal, log out | Launcher |

What is hard here, and what correctness means, per component:

* **AppHandler** keeps *four* copies of the same knowledge: two sets, the account's
  set and the file. Each operation changes them one after the other and may throw in
  between. Correct: an app is shown in one set, the account agrees with the sets, the
  file brings back the local apps, whatever fails.
* **Launcher** promises the strong exception guarantee with a snapshot and a scope
  guard. Snapshot, change, recording and undo are separate critical sections, so calls
  of other threads fall in between. Correct: undo gives back the state before the call;
  `rollback_snapshot_` is set exactly when there is something unsaved; every call
  returns.
* **AccountHandler** saves with two network calls and undoes with a third; other
  machines, crashes and lost replies fall in between. Correct: a save is all or
  nothing and a login can always be served.
* **App launch** has three actors (caller, timer, strand) and two deadlines on one timer.
  Correct: each open connection is timed, each launch ends, a late client is only a
  failed launch.
* **UI**: the views fade for 860 ms in which they still take events, while a thread runs
  and its result is queued. Correct: complete forms only, the result is shown for the form
  it belongs to, and loading ends.
* **Password strength**: a score that the code calls the entropy of the cheapest way to
  guess the password is found by dynamic programming over matches that overlap, of
  matchers full of indices and regular expressions. Correct: no cheaper way is missed, the
  shown sequence explains the score, and what the matchers mean to find they find.

`PROJECT.json` lists every hazard at its line with the properties aimed at it.

## 2. Modules

    AppSets <- AppHandler <- Launcher <- LauncherProperties <- MCLauncher
       ^                                    |      ^
       |          LauncherService <-(INSTANCE,     |
       |                           refinement)     |
       +---------------------------------- LauncherProofs <- OneCallerProofs
                                                   |
                          InductionLemmas <--------+
                                 ^
    MinimumEntropy <- MinimumEntropyProofs <- PasswordStrengthProofs
          ^                                            |
    PasswordStrength <---------------------------------+
          |       ^
          |       MCPasswordStrength
          +-> PasswordMatching -> PasswordTables

    SavedAccount <-(INSTANCE, refinement)- AccountHandler <- AccountHandlerProofs

    Launch <- LaunchProofs             LoginFlow <- LoginFlowProofs

An arrow goes from a module to one that it uses.

| Module | Models |
|---|---|
| `AppSets` | `std::set<AppDetails>` as a function from names, its insert, erase and set_union; what serialising to the account and to the config file keeps; the merge loop of Initialise, turn by turn and in closed form |
| `AppHandler` | one operator per public function: guards, assignments in the code's order, the partial state a throw leaves |
| `Launcher` | composes it: sessions, threads, locks, scope guards, rollback, save, crash |
| `LauncherProperties` | all properties of the above |
| `LauncherService` | abstract: what `launcher.h` promises one caller of one session; two sets and a saved account, calls that are atomic or throw without effect |
| `MCLauncher` | a budget of calls and the fairness, for the run with two threads; an assumption compares the merge loop with its closed form for all pairs of sets |
| `SavedAccount` | abstract: one account on the network, looked at, copied, changed and saved atomically |
| `AccountHandler` | the real thing: immutable accounts, a chain of versions, one action per network call, catch blocks as actions |
| `Launch` | a launch from listening to its end |
| `LoginFlow` | the login and create-account views with their controllers, the call's thread and the animations that decide what can be clicked |
| `MinimumEntropy` | the three loops of `minimum_entropy_match_sequence`, one turn a step: least entropies, the walk back over the matches, the gaps filled; and the least entropy as it is meant, over all ways to cut the password into pieces |
| `PasswordTables` | keyboards, l33t table, an excerpt of the five word lists |
| `PasswordMatching` | each matcher and its entropy, as sets of matches of a text; the score |
| `PasswordStrength` | the field and its box: each change of the text is matched by `PasswordMatching` and worked through by `MinimumEntropy` |
| `MCPasswordStrength` | the texts that are typed and pasted |
| `InductionLemmas` | induction and recursion as facts about sets, and what the proofs need of arithmetic: powers, binomial coefficients and their rows (section 5) |
| `LauncherProofs`, `OneCallerProofs`, `AccountHandlerProofs`, `LaunchProofs`, `LoginFlowProofs`, `MinimumEntropyProofs`, `PasswordStrengthProofs` | theorems (section 5) |

**State to code.** `apps` is `account_->apps`, `localApps` and `nonLocalApps` are the
sets, `configFile` the file (with status *missing*, *whole* or *torn*), `rollback` is
`rollback_snapshot_`, `snap[t]` the local variable `snapshot` of thread t's call,
`saved` what a login would read from the network. `pc[t]` is the place in the call; a
step ends where a lock is released, so what the code does under `AcquireLocks` is one
step, and the lock of `SaveSession`, held during network calls, is visible as
`pc[t] = "saving"`.

**The views.** `state[v]` is the QML state of view v and `phase[v]` the place in its
transition to LOADING: *paused* (the LoadingView waits 550 ms), *collapsing* (until the
elements are hidden at 860 ms), *hidden*. `sprite[v]` and `next[v]` are the animation and
`loadingSprite.to`; `attempt` is `future_` with the call in it. A call takes three seconds
and its view's fade less than one, so `ModelReturns` waits for `fading` to end: that, and
the order of the two scripts, is all the model knows of time. `touched` is a history
variable: the user has acted on a view while it faded.

**The strength box.** `least` and `ending` are the arrays `k` and `d` of the minified
function `ia`, with index p for the first p characters; `path` is the sequence before it is
reversed and filled, `parts` the `match_sequence`. Entropies are whole 1024ths of a bit and
logarithms are rounded down to them: the code's floating point decides ties between
matches by its rounding, the model allows either. A regular expression is the set of
places that it matches, leftmost and longest first as `findall` does. `PasswordTables` has
of the 85,088 words those that can be read in the texts of `MCPasswordStrength`, and the
keyboards' tables of neighbours are computed from the rows of keys. Two fields run the
check, the keyword's and the password's (`CreateAccount.qml:401` and `:443`), and they share
one box, the `FloatingStatusBox` of line 521, which shows the errors of all six fields as
well. Modelled are one of the two and what the box says of it. The box leaves a field when a
tab, the button or `resetFields` hides it, or when it is shown for another field: `Hide`.

**Abstractions.** `path`, `args` and `auto_start` are one value, `settings`: the code
stores, merges and updates the three alike. Two kinds of directory stand for
`permitted_dirs`, the app's own and SafeDrive. `CreateAccount` is a login to an account
without apps. The access to `rollback_snapshot_`, which takes no lock, is a data race in
the code; the model has it as a test (`Mark`) and an assignment (`Record`), each
indivisible, the mildest outcome a build can have. `LinkApp` past its inverted condition
erases `end()`, which is undefined: the thread is then `"stuck"` with both mutexes and
the process may die; no property looks behind that point. A snapshot's temporary file is
part of the snapshot. `UpdateAppSafeDriveAccess` reads two identities under a lock of its own
(`launcher.cc:231`), which is no step; the two deletions of a creation that failed
(`account_handler.cc:66-72`) are one step, without a crash between them. Locking an owned `std::mutex` in `RevertToLastSavedSession` waits
for ever or throws `std::system_error`: both are there (`RevertThrows` is under no
fairness).

Definitions marked `\* slip:` are plausible mistakes in the code next to them. No
specification uses them: replacing the real definition by one of them is how each
property was seen to be able to fail.

## 3. Runs

| Run | Bounds | What it shows |
|---|---|---|
| `OneCaller` | 2 names, 1 caller, any number of sessions; write, rename and save failures, torn files, crashes, another machine's saves | `ShownOnce`, `ConfigHasLocalApps`, `ConfigHasNoOtherApps`, `LoginShowsAccount`, types. 1.0 M states |
| `OneSession` | 2 names, 2 icons, 1 caller, 1 session, the same failures | `UndoWouldRestore` (the strong guarantee), `UnsavedIsFlagged`, `RollbackIsLastSaved`; the Launcher implements `LauncherService` (`KeepsPromises`). 1.0 M states |
| `TwoCallers` | 2 names, 2 threads, 3 calls | `ShownOnce`, `StaysCoherent`, `StaysInStep` in every interleaving; `CallsReturn` under fairness. 46 k states |
| `SaveAndLogin` | 2 machines, 2 contents, 4 encrypted accounts, chain of 2 | `TipIsStored`; the network calls implement `SavedAccount`. 373 k states |
| `Launches` | 2 launches, stray clients | `OpenIsTimed`, `ConnectDeadlineIsOver`, `PortIsTimed`, `LaunchEnds`. 1.6 k states |
| `LoginFlow` | 1 text per field besides an invalid one, any number of attempts | `OnlyCompleteForms`, `HomeNeedsLogin`; for a user who leaves a fading view alone `PendingIsShown`, `LoadingIsFollowed` and `LoadingEnds`. 648 k states |
| `PasswordStrength` | all texts of up to 5 characters of each of 4 alphabets, typed and erased in any order, and 22 longer ones pasted and erased | `NoCheaperEnd`, `PartsTile`, `PartsExplainEntropy`, `ShownStrengthIsRight` (against all ways to cut the text up), `CommonWordsAreWeak`, `SequencesAreFound`, `CheckIsShown`. 71.6 k states |

Runs in which the code does *not* do what its comments say; each finding in
`PROJECT.json` quotes the line:

| Run | Finding |
|---|---|
| `RevertHangs` | `RevertToLastSavedSession` locks `account_mutex_` twice (`launcher.cc:314`) |
| `FailedAddLosesApp` | undo after `RemoveAppLocally` deletes the app from the account (`app_handler.cc:158`) |
| `DuplicateCreate` | creating an existing account deletes its versions (`account_handler.cc:70`) |
| `DroppedAttempt` | cancelling before the LoadingView is up lets a second submission be dropped (`LoadingView.qml:118`) |
| `LateConnection` | `LaunchApp` has returned, a client connects and the timer expires before its handler runs on the strand: that handler resets the listener and drops the connection, and the timer's handler behind it follows the null pointer (`launcher.cc:333`) |

Such a behaviour is switched on by the run's own constants (`Ops`, `Env`,
`CollidingRenames`, `Duplicates`, `Faults`, `StrayClients`), so the passing runs say what
holds *besides* it, and each passing run says in `Ops`, `Env` and `Faults` what it covers:

* `OneSession` leaves out `RemoveAppLocally`, after which undo does not restore
  (`FailedAddLosesApp`), and a second login, after which `Persisted(apps)` differs from
  what was saved (the icon, section 6).
* `OneCaller` and `TwoCallers` rename to free names only. With `CollidingRenames = TRUE`
  `UpdateName` erases the app and fails to insert it, and `ShownOnce` breaks.
* `RollbackIsLastSaved` and `UnsavedIsFlagged` hold for one caller only.
* `SaveAndLogin` leaves out `"replyIsLost"` (a Store that throws although it was done):
  the catch block then deletes the account that the newest version names, and
  `TipIsStored` breaks. The code cannot tell the two cases apart.

**Why the bounds are enough.** The operators look at the name they are called with and,
in a merge or rename, at a second one: two names give every case of local/non-local,
taken/free and before/after in the order. One setting besides "none" tells kept from
lost. Two threads and three calls allow a call to begin and finish, or two to begin,
inside another one. Two machines and four accounts allow a creation and three saves, so
that a chain of two versions overflows. Two launches, which share nothing but the
undefined state, are there to show that. Of the alphabets, each lets its characters meet
all matchers of one kind: letters in sequences and words, digits and separators in years
and dates, l33t, neighbouring keys with shift; five characters hold two matches that
overlap, and the pasted texts hold the matches that need more (dates, long walks, words
with capitals).

**Deadlock** is checked in `OneCaller`, `OneSession`, `Launches` and `PasswordStrength`. `TwoCallers` and
`SaveAndLogin` stop when their budgets (`MaxCalls`, `MaxIds`) are used up, and `LoginFlow`
stops at the home page, or where loading never ends for a user who acted on a fading view.

## 4. Fairness

`MCLauncher!FairBudgetSpec`: weak fairness of the steps of a call that has begun: the
operating system runs the thread, a lock that stays free is taken in the end, and a
network call ends, in success or failure. A caller need not begin another call; the
`std::system_error` of `RevertThrows` and a crash need never come. Weak fairness is
enough for the locks because the budget ends the competition; with callers that never
stop, `std::mutex` promises no more.

`Launch!Spec`: weak fairness of the caller, of the timer and of the strand: asio's
threads run, and steady_clock advances. Clients need neither connect nor close.

`LoginFlow!Spec`: weak fairness of the animations of each view and of the call's thread
and its queued result: Qt's animations and event loop run. The user need not do anything.

`PasswordStrength!Spec`: weak fairness of the check: JavaScript runs a handler through.
The user need not type anything.

## 5. What is proved

Everything here is for every value of the constants, under the assumptions the modules
name and those of the table.

`LauncherProofs`, for every set of names, threads, calls and failures:

| Theorem | Statement |
|---|---|
| `TypeCorrect` | `Spec => []TypeOK` |
| `AppsAreShownOnce` | `~CollidingRenames` gives `Spec => []ShownOnce` |
| `CoherenceIsKept` | `~CollidingRenames` gives `Spec => StaysCoherent` |
| `StepIsKept` | `~CollidingRenames` gives `Spec => StaysInStep` |
| `LoginShowsEachApp` | `Spec => LoginShowsAccount` |
| `MergeIsTheLoop` | the merge loop, turn by turn, ends with `MergedLocal` and `MergedNonLocal` |

Assumptions: those of the modules (names are numbers, `NoApp` and `NoSnapshot` are no
real values, `Ops` and `Env` are known) and, where the table says so, `~CollidingRenames`,
without which those three are false. `MergeIsTheLoop` is for finite sets of apps, as
`std::set` is.

*Argument.* `ShownOnce` is not inductive: an undo puts back a snapshot that may be
minutes old, while other threads have changed everything. The invariant
(`InvariantHolds`) therefore says of every snapshot a thread may still apply what
`ShownOnce` says of the current state: its two sets are disjoint. `ApplySnapshot` rebuilds
the account from the two sets, so after it the account agrees with them by construction,
however stale they are; each other operation changes set and account by the same insert
and erase. `StaysCoherent` and `StaysInStep` follow step by step from that invariant.
`LoginShowsAccount` needs the types only: whatever the file says, an app of the account is
left by the merge in exactly one of the sets, with the account's directories.

The model of Initialise uses the merge loop's closed form. That this is what the loop
leaves is `MergeIsTheLoop`: what an iterator has passed is as it should be left, what it
has not is untouched, and each has passed only names before all that the other has yet to
pass; the number of names in front of the two falls with each turn.

`OneCallerProofs`, for one caller in one session, any names, details and failures, without
`RemoveAppLocally` (`FailedAddLosesApp` shows why), renames onto names in use, crashes and
saves of other machines (the operator `OneSession` says so):

| Theorem | Statement |
|---|---|
| `UndoRestores` | `Spec => []UndoWouldRestore` |
| `ChangesAreFlagged` | `Spec => []UnsavedIsFlagged` |
| `RollbackIsTrue` | `Spec => []RollbackIsLastSaved` |
| `PromisesAreKept` | `Spec => KeepsPromises`, that is `Launcher` implements `LauncherService` |

*Argument.* What was last saved is not in any one variable: it is `rollback`, or before a
call has recorded its snapshot that snapshot, or between calls the account itself. The
invariant says that `LastSaved`, so defined, is what the network has, that the account is
the union of the two sets, and that a snapshot which has not been used is the present
state. For the refinement, between a throw and its undo the snapshot's sets count: so the
partial change of a failed call is never seen, the undo is a stutter, and each AppHandler
function is one step of `LauncherService` or none.

`OneCallerProofs` also, for one caller and any number of sessions, crashes, torn files, failed
undos and saves of other machines:

| Theorem | Statement |
|---|---|
| `ConfigKeepsLocalApps` | `~CollidingRenames` gives `Spec => []ConfigHasLocalApps` |
| `ConfigKeepsNoOtherApps` | `~CollidingRenames` gives `Spec => []ConfigHasNoOtherApps` |

*Argument.* From a throw to its undo the file and the sets do not belong together. What
holds throughout is that the file then is the snapshot's or torn, and that the snapshot's
file shows the snapshot's sets; so the file is right when the undo has put the sets back,
whether or not it could write the file.

`AccountHandlerProofs`, for any number of machines, accounts and kept versions, if no call
throws that was done (`RepliesArrive`) and no existing account is created again:

| Theorem | Statement |
|---|---|
| `TypesHold` | `Spec => []TypeOK` |
| `LoginsAreServed` | `Spec => []TipIsStored` |
| `SavingIsAtomic` | `Spec => SavesAsPromised`, that is `AccountHandler` implements `SavedAccount` |

*Argument.* A name is *wanted* if it is the newest version's or that of a login in progress.
The names that operations in progress work on are pairwise different and none is wanted, so
nobody's Store or Delete touches what another one reads. A name becomes wanted when its
version is put, and by then its account is stored, as it is in memory (`WorkIsStored`). A
creator is alone, since nobody can log in before the versions are there.

`LaunchProofs`, for any number of launches, with stray clients and without:

| Theorem | Statement |
|---|---|
| `TypesHold` | `Spec => []TypeOK` |
| `ConnectionsAreTimed` | `Spec => []OpenIsTimed` |
| `FirstDeadlineIsOver` | `Spec => []ConnectDeadlineIsOver` |
| `PortsAreTimed` | `Spec => []PortIsTimed` |

*Argument.* A launch waits for its connection exactly once. The wait, the handler that it
becomes when it completes, and an open connection exclude one another; so the connection
that cancels the wait cancels the only one there is. The port stays open just as long: what
takes the wait away is the handler of its end or a connection, and both close the port.
`ConnectionsAreTimed` and `PortsAreTimed` are the safety at the core of `LaunchEnds`: what
is left to fairness is only that timers expire and the strand runs.

`MinimumEntropyProofs`, for passwords of any length, any matches (overlapping, alike,
running past the end) and any sequence of calls:

| Theorem | Statement |
|---|---|
| `TypesHold` | `EntropySpec => []EntropyTypeOK` |
| `NothingIsCheaper` | `EntropySpec => []NoCheaperEnd` |
| `PartsCoverPassword` | `EntropySpec => []PartsTile` |
| `PartsAddUp` | `EntropySpec => []PartsExplainEntropy` |
| `EntropyIsLeast` | `EntropySpec => [](phase = "done" => least[length] = LeastEntropy)` |
| `EveryTurnShortens` | `EntropySpec => [][Compute => TurnsLeft \in Nat /\ TurnsLeft' < TurnsLeft]_entropyVars` |
| `ScanGoesOn` | `EntropySpec => [](phase = "scan" /\ pos < length => ScanFinds)` |

*Argument.* Each remembered end costs what it says, and none at that place is cheaper. The
matches of the walk follow each other with gaps that cost what brute force does, up to
where the walk has come, and the filling goes the same way forwards. `LeastEntropy` is over
all sets of places to cut. That none is cheaper is by induction over the cuts of such a
set, each of which `NothingIsCheaper` bounds by the one before; that one is as cheap, by
induction over the length, with the match that was remembered as the last piece.

The last two are the safety at the core of `CheckIsShown`. `TurnsLeft` counts down through all
three loops: the walk takes a match only from its end back to its beginning, which is before
it, and puts at most one match on the path for each character, so that what is left to fill is
paid for. And the scan, whose guards ask for a cheapest match, always has one to take or none
that is cheaper.

`PasswordStrengthProofs`, for any alphabets, length of what is typed, and pasted strings:

| Theorem | Statement |
|---|---|
| `FieldTypesHold` | `Spec => []TypeOK` |
| `ShownIsRight` | `Spec => []ShownStrengthIsRight` |
| `EachSequenceIsFound` | `Spec => []SequencesAreFound` |
| `CommonWordsStayWeak` | `Spec => []CommonWordsAreWeak` |

*Argument.* Every matcher, whatever the text, returns matches: a place, an end that is not
before it, and an entropy that is a natural number. Most of the work is in the entropies,
which go through logarithms, binomial coefficients and sums. So a change of the text is a
`Call` of `MinimumEntropy`, and everything else of the field a step of its loops or a
stutter (the lemma `FieldImplementsEntropy`); with that the theorems about the loops hold of the
field, and `ShownIsRight` is `EntropyIsLeast`
of the text beside the box. For the sequences, the search jumps from the end of each to the
next. That a run is found from any place up to its second
character is shown by induction downwards over these places; no other space takes the run
away, which is why the spaces have to be disjoint.

`CommonWordsStayWeak` says of every text, however long, that reads as a word of the lists,
in plain, with capitals or in l33t used consistently, that it is rated Weak if the word's
rank leaves room for a bit of capitals and a bit of l33t for each character. It has three
steps. *The word is found*: the substitutions are built up one letter at a time, and in each
of these steps one of the extensions takes the character that the text uses for the letter;
so, by induction over the letters, one of the substitutions that are tried undoes the
disguise (`WordIsFound`). *The disguise is cheap*: the extra entropies are logarithms of sums
of binomial coefficients, and a sum over part of a row of Pascal's triangle is at most
2 ^ n; this is carried to texts of up to 30 characters, which is enough, as anything weak
has less than 28 bits (`DisguisesCost`). *The result is no dearer than the match*: that is
`NothingIsCheaper` for the match that covers the text. The lists themselves do not come in:
the theorem holds of any lists of words in small letters.

*Assumptions.* Five facts about data are assumed by name, since the provers can read no
string: no character is in two spaces (`SpacesAreDisjoint`), keys have at least one
neighbour on the average (`KeysHaveNeighbours`), the words of the lists are not empty and
have no capitals (`WordsAreInSmallLetters`), no capital is a small letter or stands for one
in l33t (`CapitalsAreCapitals`), strings have a length (`StringsHaveLengths`). None but the
last is about a parameter; TLC evaluates each.

`InductionLemmas` is what these proofs have in common. The library's induction theorems
have an operator for a parameter, which the provers cannot instantiate; stated of a *set*
of numbers that has 0 and with each number the next, induction follows from the
well-foundedness of the natural numbers and is cited like any fact. From it come induction
over finite sets, the laws of `Min` and `SumFunctionOnSet`, and that a function defined by
recursion exists; and, for the entropies, that powers of two grow and add up, and that a row
of binomial coefficients sums to one.

`LoginFlowProofs`, for every set of texts and any number of attempts, under the module's
only assumption (`Invalid` is no text):

| Theorem | Statement |
|---|---|
| `TypesAreKept` | `Spec => []TypeOK` |
| `FormsAreComplete` | `Spec => []OnlyCompleteForms` |
| `HomeComesAfterLogin` | `Spec => []HomeNeedsLogin` |
| `ResultIsForShownForm` | `Spec => []PendingIsShown` |
| `LoadingHasAnEnd` | `Spec => []LoadingIsFollowed` |

*Argument.* The first three are inductive given the types. `PendingIsShown` is not: that
nobody can cancel while a call runs depends on `loading`, which stays true only as long as
the animation has nothing to go over to. `PendingWaits` adds that. It is kept because an
untouched view with elements is in no LOADING state, so that nothing can be pending when
the user acts on it; and because a view that waits was told of no result.

`LoadingIsFollowed` depends on how the present call came about, and `Untouched` says that:
only the view that is shown is loading, a view fades only in its own call, whose result comes
later, and at the home page no other call begins. A loading view then has its call, or its
animation is on the way to an end, or it is broken and can be left, or the views are closed.
This is the safety at the core of `LoadingEnds`.

Only model-checked is what is out of the prover's reach, liveness: `CallsReturn`,
`LaunchEnds`, `LoadingEnds`, `CheckIsShown`. Every other property of the passing runs is a
theorem.
`RollbackIsLastSaved` and `UnsavedIsFlagged` are neither proved nor true for several
callers.

## 6. Other disagreements met while modelling

Modelled as the code does them, and without a run of their own:

* "Any app which appears as local only is removed" (`app_handler.cc:105`): only those
  before the last non-local app are; the loop ends with the other iterator. `MergedLocal`
  says so.
* `Login` "Provides strong exception guarantee" (`account_handler.h:58`), but
  `account_versions_` keeps what `ApplySerialised` put there when decrypting fails.
* `Save`, "The only member which is modified in this process is the account timestamp"
  (`account_handler.cc:106`), leaves its version in `account_versions_` when the last
  Store fails; each failed save pushes an older version out of the chain of 20.
* The network's side of `Save` has no check of the version it replaces: of two machines
  the later one wins. `SavedAccount` allows that.
* `LinkApp` "must have been previously added non-locally" (`launcher.h:86`), but the
  condition at `app_handler.cc:227` is inverted: it throws for such an app and erases
  `end()` for any other.
* "The 'Update...' functions all replace the existing field" (`launcher.h:92`) and write
  the local copy over the account's; after a login that copy has no icon
  (`app_handler.cc:116`), so an update of the path empties the account's icon.
* The undo of one thread's failed call takes back what another thread's successful call did
  since the snapshot (`launcher.cc:188`), against the strong guarantee of both. `LauncherProofs`
  says that what is left is still coherent.
* A created account is reported by `loginError` (`account_handler_controller.cc:105`) and
  shown as "There was an error creating your account" (`CreateAccount.qml:274`).
* The result of a call is told to the view that is current when it arrives, and is
  forgotten if the LoadingView is in its pause. Without `touched` in `LoadingEnds`, TLC
  finds a login during which the user clicks "Create one" in the fading view, and whose
  view never leaves LOADING.
* The controllers put `connect` into `Q_ASSERT_X`, which a build with `QT_NO_DEBUG` leaves
  out altogether.
* A descending sequence that reaches the first character of its space ("cba", "210") goes on
  to whatever comes next, since the index of any foreign character is the -1 that would
  follow 0 (`password_strength.js:34`). At the end of the text its end is behind the text,
  and it is not found at all: "edcba" is rated as if it were none.
* "4" and "@" both stand for "a", but substitutions are tried one character to a letter, so a
  word with both is not recognised.
* A substitution gives a meaning to every l33t character of the text. So a word of the lists
  that has one itself is no longer recognised when it is disguised further: "cafc91" is
  Weak, "c@fc91" is Medium, since the "1" is read as a letter along with the "@".
* Where the code splits two digits off for a year, the year fails the check that follows, so
  that the branch of `date_entropy` for years under 100 is never reached.
* A sequence or a walk begins behind the last character of the one before it, also where
  that character belongs to both: it is found one character shorter than it is.

## 7. Not modelled, and the plan

Modelled are the library's core (`AppSets`, `AppHandler`, `Launcher`), what it promises
(`LauncherService`), saving (`SavedAccount`, `AccountHandler`), launching (`Launch`), the
views (`LoginFlow`) and the strength of passwords (`PasswordStrength` and what it uses).

Not modelled, with the reason:

* **`AccountGetter`.** With `USE_FAKE_STORE`, which `src/CMakeLists.txt:61` defines when the
  tests are built, its constructor only opens the fake store. Without it, the join and the
  wait for network health do not compile: `account_getter.cc:98` uses `public_pmid_helper_`,
  whose declaration is commented out (`account_getter.h:76`). There is no program whose
  behaviour a model could follow.
* **`CreateAccount` over the config file of an earlier account** (`launcher.cc:120`): the
  model has one account, hence one key.
* **Login from an older version**, for when the newest cannot be read: it is a comment
  (`account_handler.cc:90`).
* **A failing backend of the UI**: `AccountHandlerModel` is a stub that cannot fail.

Next, in this order: two accounts of one system user, for the config file; the older
versions, when the code falls back to them; several callers of `LauncherService`, if the
code comes to undo only its own change.

Out of scope: the passport and cryptography (a wrong password only makes a login fail),
routing and vaults (external, modelled by what the code uses of them), `AppHandshake` (a
stub), layout and focus, `launcher_main`, build files.
