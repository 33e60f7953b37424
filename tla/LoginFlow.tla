------------------------------ MODULE LoginFlow ------------------------------
(***************************************************************************)
(* Logging in and creating an account in the user interface (ui/): the     *)
(* controllers and the model, in C++, and the states of the views, in QML. *)
(*                                                                         *)
(* The user, a thread of std::async and the event loop take turns.  Each   *)
(* handler on the event loop is one step; what takes time there, the       *)
(* animations, is a step per script it runs.  The views' slide of 300 ms   *)
(* when one replaces the other is part of the step that begins it.         *)
(*                                                                         *)
(* The backend is a stub in the code: both calls sleep three seconds and   *)
(* succeed.                                                                *)
(***************************************************************************)
CONSTANTS
    Texts,     \* what a user may enter, so that the view accepts it
    Invalid    \* an entry that is not accepted: blank, no PIN, or not confirmed

ASSUME InvalidIsNoText == Invalid \notin Texts

VARIABLES
    currentView,  \* AccountHandlerController::current_view_
    mainView,     \* MainController::current_view_
    closed,       \* the Loader in MainWindow.qml has let go of the account views
    attempt,      \* future_, with the call whose result it will hold
    form,         \* form[v][s]: what the text fields of view v hold
    state,        \* state[v]: the QML state of view v
    phase,        \* phase[v]: how far its transition to LOADING has come
    sprite,       \* sprite[v]: what its LoadingAnimation shows
    next,         \* next[v]: loadingSprite.to, what comes after "loading"
    loading,      \* loading[v]: loadingView.loading
    cancel,       \* cancel[v]: its cancel button is not faded out
    touched       \* history: the user has acted on a view while it faded

controllerVars == <<currentView, mainView, attempt>>
viewVars == <<form, state, phase>>
loadingVars == <<sprite, next, loading, cancel>>
vars == <<controllerVars, closed, viewVars, loadingVars, touched>>

Views == {"login", "create"}
Steps == {"PIN", "KEYWORD", "PASSWORD"}
Entries == Texts \cup {Invalid}
Forms == [Steps -> Entries]
EmptyForm == [s \in Steps |-> Invalid]
NoAttempt == [stage |-> "none"]

(* fading: the transition that began with the call is not over. *)
Attempts == [stage : {"running", "posted"}, view : Views, form : Forms, fading : BOOLEAN]

States == [login |-> {"", "LOADING"}, create |-> Steps \cup {"LOADING"}]
FirstState == [login |-> "", create |-> "PIN"]
Phases == {"form", "paused", "collapsing", "hidden"}
Sprites == {"hidden", "loading", "failing", "broken", "success"}

Init ==
    /\ currentView = "login"
    /\ mainView = "HandleAccount"
    /\ closed = FALSE
    /\ attempt = NoAttempt
    /\ form = [v \in Views |-> EmptyForm]
    /\ state = FirstState
    /\ phase = [v \in Views |-> "form"]
    /\ sprite = [v \in Views |-> "hidden"]
    /\ next = [v \in Views |-> "none"]
    /\ loading = [v \in Views |-> FALSE]
    /\ cancel = [v \in Views |-> TRUE]
    /\ touched = FALSE

-----------------------------------------------------------------------------
(* What a view lets the user do.  Its elements take events until the transition
   to LOADING is over, though they fade out from its beginning. *)

ElementsShown(v) == ~closed /\ currentView = v /\ phase[v] # "hidden"

Fading(v) == phase[v] \in {"paused", "collapsing"}

Touch(v) == touched' = (touched \/ Fading(v))

Accepts(v, s) == form[v][s] # Invalid

(* Leaving LOADING stops its transition; the animation is out of sight, and
   stands still there. *)
FadeIsOver(v) ==
    attempt' = IF attempt # NoAttempt /\ attempt.view = v
               THEN [attempt EXCEPT !.fading = FALSE]
               ELSE attempt

Leave(v, s) ==
    /\ state' = [state EXCEPT ![v] = s]
    /\ phase' = [phase EXCEPT ![v] = "form"]
    /\ FadeIsOver(v)

(* The view goes to LOADING and calls the controller, which does nothing while
   future_ is valid. *)
Call(v) ==
    attempt' = IF attempt = NoAttempt
               THEN [stage |-> "running", view |-> v, form |-> form[v], fading |-> TRUE]
               ELSE attempt

Submit(v) ==
    /\ state' = [state EXCEPT ![v] = "LOADING"]
    /\ phase' = [phase EXCEPT ![v] = IF @ = "form" THEN "paused" ELSE @]
    /\ Call(v)

-----------------------------------------------------------------------------
(* The user. *)

(* Of the create view, the fields of one step are visible at a time. *)
Visible(s) == state["create"] = s \/ (state["create"] = "LOADING" /\ s = "PASSWORD")

Edit(v) ==
    /\ ElementsShown(v)
    /\ \E s \in Steps, entry \in Entries :
           /\ v = "create" => Visible(s)
           /\ form' = [form EXCEPT ![v][s] = entry]
    /\ Touch(v)
    /\ UNCHANGED <<controllerVars, closed, state, phase, loadingVars>>

LoginClicked ==
    /\ ElementsShown("login")
    /\ \A s \in Steps : Accepts("login", s)     \* else an error is shown
    /\ Submit("login")
    /\ Touch("login")
    /\ UNCHANGED <<currentView, mainView, closed, form, loadingVars>>

NextLeadsOn ==     \* slip: the pin is looked at only where it is entered
    IF state["create"] = "PIN" /\ ~Accepts("create", "PIN") THEN "PIN"
    ELSE IF state["create"] = "PIN" \/ ~Accepts("create", "KEYWORD") THEN "KEYWORD"
    ELSE IF state["create"] = "KEYWORD" \/ ~Accepts("create", "PASSWORD") THEN "PASSWORD"
    ELSE "LOADING"

(* Back to the first step that is not accepted, or on by one. *)
NextLeadsTo ==
    IF ~Accepts("create", "PIN") THEN "PIN"
    ELSE IF state["create"] = "PIN" \/ ~Accepts("create", "KEYWORD") THEN "KEYWORD"
    ELSE IF state["create"] = "KEYWORD" \/ ~Accepts("create", "PASSWORD") THEN "PASSWORD"
    ELSE "LOADING"

NextClicked ==
    /\ ElementsShown("create")
    /\ \/ NextLeadsTo = "LOADING" /\ Submit("create")
       \/ NextLeadsTo # "LOADING" /\ Leave("create", NextLeadsTo)
    /\ Touch("create")
    /\ UNCHANGED <<currentView, mainView, closed, form, loadingVars>>

TabLeadsTo(tab) ==
    IF tab # "PIN" /\ ~Accepts("create", "PIN") THEN "PIN"
    ELSE IF tab = "PASSWORD" /\ ~Accepts("create", "KEYWORD") THEN "KEYWORD"
    ELSE tab

TabClicked ==
    /\ ElementsShown("create")
    /\ \E tab \in Steps : tab # state["create"] /\ Leave("create", TabLeadsTo(tab))
    /\ Touch("create")
    /\ UNCHANGED <<currentView, mainView, closed, form, loadingVars>>

(* The link to the other view, whose transition resets that view's fields.  Its
   state it leaves as it is, and that of the view that is left as well. *)
LinkClicked ==
    /\ ElementsShown(currentView)
    /\ \E v \in Views \ {currentView} :
           /\ currentView' = v
           /\ form' = [form EXCEPT ![v] = EmptyForm]
    /\ Touch(currentView)
    /\ UNCHANGED <<mainView, closed, attempt, state, phase, loadingVars>>

(* The button of the LoadingView, "CANCEL" and later "GO BACK".  While the view
   fades, its other button lies above it, but the keyboard reaches it. *)
CanCancel(v) == currentView = v /\ cancel[v]     \* slip: no test of loading

CanGoBack(v) == currentView = v /\ cancel[v] /\ ~loading[v]

CanceledStateLikeLogin == [v \in Views |-> ""]     \* slip: the create view has no such state

CanceledState == [login |-> "", create |-> "PIN"]

CancelClicked(v) ==
    /\ ~closed /\ state[v] = "LOADING"
    /\ CanGoBack(v)
    /\ next' = [next EXCEPT ![v] = "none"]
    /\ sprite' = [sprite EXCEPT ![v] = "hidden"]
    /\ Leave(v, CanceledState[v])
    /\ Touch(v)
    /\ UNCHANGED <<currentView, mainView, closed, form, loading, cancel>>

-----------------------------------------------------------------------------
(* Transitions and animations.  The LoadingView pauses 550 ms before it shows
   the animation, and the elements are out of the way after 860 ms. *)

ShowLoading(v) ==
    /\ phase[v] = "paused"
    /\ phase' = [phase EXCEPT ![v] = "collapsing"]
    /\ loading' = [loading EXCEPT ![v] = TRUE]
    /\ sprite' = [sprite EXCEPT ![v] = "loading"]
    /\ next' = [next EXCEPT ![v] = "none"]
    /\ UNCHANGED <<controllerVars, closed, form, state, cancel, touched>>

HideElements(v) ==
    /\ phase[v] = "collapsing"
    /\ phase' = [phase EXCEPT ![v] = "hidden"]
    /\ FadeIsOver(v)
    /\ UNCHANGED <<currentView, mainView, closed, form, state, loadingVars, touched>>

Playing(v) == ~closed /\ currentView = v /\ state[v] = "LOADING"

LoadingLoops(v) ==     \* and goes over to what is next, if anything is
    /\ Playing(v)
    /\ sprite[v] = "loading"
    /\ next[v] # "none"
    /\ sprite' = [sprite EXCEPT ![v] = next[v]]
    /\ UNCHANGED <<controllerVars, closed, viewVars, next, loading, cancel, touched>>

StartFailingUnnoticed(v) ==     \* slip: loading stays true
    /\ Playing(v)
    /\ sprite[v] = "failing"
    /\ sprite' = [sprite EXCEPT ![v] = "broken"]
    /\ UNCHANGED <<controllerVars, closed, viewVars, next, loading, cancel, touched>>

StartFailing(v) ==
    /\ Playing(v)
    /\ sprite[v] = "failing"
    /\ sprite' = [sprite EXCEPT ![v] = "broken"]
    /\ loading' = [loading EXCEPT ![v] = FALSE]
    /\ UNCHANGED <<controllerVars, closed, viewVars, next, cancel, touched>>

LoadingFinished(v) ==
    /\ Playing(v)
    /\ sprite[v] = "success"
    /\ closed' = TRUE
    /\ UNCHANGED <<controllerVars, viewVars, loadingVars, touched>>

-----------------------------------------------------------------------------
(* The thread and its result. *)

(* The call takes three seconds, so the fade that began with it is over. *)
ModelReturns ==
    /\ attempt.stage = "running"
    /\ ~attempt.fading
    /\ attempt' = [attempt EXCEPT !.stage = "posted"]
    /\ UNCHANGED <<currentView, mainView, closed, viewVars, loadingVars, touched>>

(* The controllers tell the view that is current now. *)
ShowSuccess ==
    /\ next' = [next EXCEPT ![currentView] = "success"]
    /\ cancel' = [cancel EXCEPT ![currentView] = FALSE]

ShowFailed ==
    /\ next' = [next EXCEPT ![currentView] = "failing"]
    /\ UNCHANGED cancel

LoginCompleted ==     \* SetCurrentView tells nobody when the view stays the same
    /\ mainView' = "HomePage"
    /\ \/ mainView = "HandleAccount" /\ ShowSuccess
       \/ mainView = "HomePage" /\ UNCHANGED <<next, cancel>>

LoginResultAvailable ==
    /\ attempt.stage = "posted" /\ attempt.view = "login"
    /\ attempt' = NoAttempt
    /\ LoginCompleted
    /\ UNCHANGED <<currentView, closed, viewVars, sprite, loading, touched>>

CreateAccountSucceeds ==     \* slip: as LoginResultAvailable, without LoginCompleted
    /\ attempt.stage = "posted" /\ attempt.view = "create"
    /\ attempt' = NoAttempt
    /\ ShowSuccess
    /\ UNCHANGED <<currentView, mainView, closed, viewVars, sprite, loading, touched>>

CreateAccountResultAvailable ==     \* emits loginError, though it succeeded
    /\ attempt.stage = "posted" /\ attempt.view = "create"
    /\ attempt' = NoAttempt
    /\ \/ ~closed /\ ShowFailed
       \/ closed /\ UNCHANGED <<next, cancel>>
    /\ UNCHANGED <<currentView, mainView, closed, viewVars, sprite, loading, touched>>

-----------------------------------------------------------------------------
User ==
    \/ LoginClicked \/ NextClicked \/ TabClicked \/ LinkClicked
    \/ \E v \in Views : Edit(v) \/ CancelClicked(v)

Animate(v) ==
    \/ ShowLoading(v) \/ HideElements(v)
    \/ LoadingLoops(v) \/ StartFailing(v) \/ LoadingFinished(v)

Answer == ModelReturns \/ LoginResultAvailable \/ CreateAccountResultAvailable

Next ==
    \/ User
    \/ \E v \in Views : Animate(v)
    \/ Answer

(* Animations play and calls return; the user need not do anything. *)
Spec ==
    /\ Init /\ [][Next]_vars
    /\ WF_vars(Answer)
    /\ \A v \in Views : WF_vars(Animate(v))

-----------------------------------------------------------------------------
TypeOK ==
    /\ currentView \in Views
    /\ mainView \in {"HandleAccount", "HomePage"}
    /\ closed \in BOOLEAN
    /\ attempt \in Attempts \cup {NoAttempt}
    /\ form \in [Views -> Forms]
    /\ state \in [Views -> Steps \cup {"", "LOADING"}]
    /\ \A v \in Views : state[v] \in States[v]
    /\ phase \in [Views -> Phases]
    /\ \A v \in Views : state[v] = "LOADING" <=> phase[v] # "form"
    /\ sprite \in [Views -> Sprites]
    /\ next \in [Views -> {"none", "failing", "success"}]
    /\ loading \in [Views -> BOOLEAN]
    /\ cancel \in [Views -> BOOLEAN]
    /\ touched \in BOOLEAN

(* In whatever order the user fills in, edits, clicks tabs and turns back, even
   while a view fades: only complete forms are submitted.  (The create view
   validates one step at a time, and a step that was validated can be edited
   again.) *)
OnlyCompleteForms ==
    attempt # NoAttempt => \A s \in Steps : attempt.form[s] # Invalid

(* The home page comes after a login, of which no other view's result makes the
   user believe: success is shown, or the account views closed, only once
   MainController is at the home page. *)
HomeNeedsLogin ==
    \A v \in Views :
        closed \/ next[v] = "success" \/ sprite[v] = "success" => mainView = "HomePage"

(* While a call runs, its view is shown, is loading, and holds the entries that
   were submitted, so that the result is shown for the form it belongs to: for
   a user who leaves a view alone while it fades. *)
PendingIsShown ==
    ~touched /\ attempt # NoAttempt =>
        /\ currentView = attempt.view
        /\ state[attempt.view] = "LOADING"
        /\ form[attempt.view] = attempt.form

(* A view that is loading has somebody to end that, so long as the user leaves it
   alone while it fades: a call whose result is for it, or an animation that has
   something to go over to and goes on where the view is shown.  No result is lost
   in the pause, or to a view that is not shown. *)
LoadingIsFollowed ==
    \A v \in Views :
        state[v] = "LOADING" /\ ~(touched \/ closed \/ CanGoBack(v)) =>
            \/ attempt # NoAttempt /\ attempt.view = v
            \/ /\ currentView = v
               /\ \/ sprite[v] \in {"failing", "success"}
                  \/ sprite[v] = "loading" /\ next[v] # "none"

(* "to avoid multiple login attempt at the same time when canceling during
   logging in, cancel functionality is disabled for now" (LoadingView.qml:115):
   a form that has just been submitted is the one that is attempted. *)
OneAttemptAtATime ==
    \A v \in Views : phase[v] = "paused" =>
        attempt # NoAttempt /\ attempt.view = v /\ attempt.fading

(* Loading ends, with the home page or with a way back to the form, again for a
   user who leaves a view alone while it fades.  For others it need not: a result
   that comes while the LoadingView pauses, or that the other view is told of, is
   lost, and the button stays disabled. *)
LoadingEnds ==
    \A v \in Views :
        (state[v] = "LOADING") ~> (touched \/ closed \/ state[v] # "LOADING" \/ CanGoBack(v))
=============================================================================
