-------------------------- MODULE LoginFlowProofs --------------------------
(* What holds of the login and create-account views for any texts a user enters. *)
EXTENDS LoginFlow, TLAPS

(* The parts of TypeOK that clicks change. *)
AttemptType == attempt \in Attempts \cup {NoAttempt}

ViewTypes ==
    /\ state \in [Views -> Steps \cup {"", "LOADING"}]
    /\ \A v \in Views : state[v] \in States[v]
    /\ phase \in [Views -> Phases]
    /\ \A v \in Views : state[v] = "LOADING" <=> phase[v] # "form"

LEMMA PendingType ==
    ASSUME AttemptType, attempt # NoAttempt
    PROVE  attempt \in Attempts
  BY DEF AttemptType

(* A call that ends its fade, or returns, keeps its view and form. *)
LEMMA SameCall ==
    ASSUME NEW a \in Attempts
    PROVE  LET faded == [a EXCEPT !.fading = FALSE]
               posted == [a EXCEPT !.stage = "posted"]
           IN  /\ faded \in Attempts /\ faded.form = a.form
               /\ posted \in Attempts /\ posted.form = a.form
  BY DEF Attempts

LEMMA NoAttemptIsNoCall == NoAttempt \notin Attempts
  <1>1. \A a \in Attempts : a.stage # "none"
    BY DEF Attempts
  <1> QED
    BY <1>1 DEF NoAttempt

LEMMA FadeIsOverType ==
    ASSUME AttemptType, NEW v \in Views, FadeIsOver(v)
    PROVE  /\ AttemptType'
           /\ attempt' # NoAttempt => attempt # NoAttempt /\ attempt'.form = attempt.form
  BY PendingType, SameCall, NoAttemptIsNoCall DEF FadeIsOver, AttemptType

LEMMA CallType ==
    ASSUME AttemptType, form \in [Views -> Forms], NEW v \in Views, Call(v)
    PROVE  /\ AttemptType'
           /\ attempt' # NoAttempt =>
                  \/ attempt # NoAttempt /\ attempt'.form = attempt.form
                  \/ attempt'.form = form[v]
  <1> DEFINE new == [stage |-> "running", view |-> v, form |-> form[v], fading |-> TRUE]
  <1>1. new \in Attempts
    BY DEF Attempts
  <1> QED
    BY <1>1 DEF Call, AttemptType

LEMMA StatesOfViews ==
    /\ States["login"] = {"", "LOADING"} /\ States["create"] = Steps \cup {"LOADING"}
    /\ \A v \in Views : States[v] \subseteq Steps \cup {"", "LOADING"} /\ "LOADING" \in States[v]
  <1>1. States["login"] = {"", "LOADING"} /\ States["create"] = Steps \cup {"LOADING"}
    BY DEF States
  <1> QED
    BY <1>1 DEF Views

LEMMA LeaveTypes ==
    ASSUME ViewTypes, NEW v \in Views, NEW s \in States[v] \ {"LOADING"}, Leave(v, s)
    PROVE  ViewTypes'
  BY StatesOfViews DEF Leave, ViewTypes, Phases

LEMMA SubmitTypes ==
    ASSUME ViewTypes, NEW v \in Views, Submit(v)
    PROVE  ViewTypes'
  BY StatesOfViews DEF Submit, ViewTypes, Phases

-----------------------------------------------------------------------------
(* Where the tabs and the Next button lead. *)

LEMMA NextLeadsToType ==
    /\ NextLeadsTo \in Steps \cup {"LOADING"}
    /\ NextLeadsTo = "LOADING" => \A s \in Steps : Accepts("create", s)
  BY DEF NextLeadsTo, Steps

LEMMA TabLeadsToType == \A tab \in Steps : TabLeadsTo(tab) \in Steps
  BY DEF TabLeadsTo, Steps

LEMMA CreateStates == Steps \subseteq States["create"] \ {"LOADING"}
  BY DEF States, Steps

LEMMA CanceledStates == \A v \in Views : CanceledState[v] \in States[v] \ {"LOADING"}
  <1>1. CanceledState["login"] = "" /\ CanceledState["create"] = "PIN"
    BY DEF CanceledState
  <1> QED
    BY <1>1, StatesOfViews DEF Views, Steps

-----------------------------------------------------------------------------
(* OnlyCompleteForms by itself is inductive, given the types: a form is looked
   at once, when the call is made. *)

LEMMA SubmitIsComplete ==
    ASSUME AttemptType, OnlyCompleteForms, form \in [Views -> Forms],
           NEW v \in Views, Submit(v), \A s \in Steps : Accepts(v, s)
    PROVE  AttemptType' /\ OnlyCompleteForms'
  BY CallType DEF Submit, OnlyCompleteForms, Accepts

LEMMA SameForm ==
    ASSUME OnlyCompleteForms,
           attempt' # NoAttempt => attempt # NoAttempt /\ attempt'.form = attempt.form
    PROVE  OnlyCompleteForms'
  BY DEF OnlyCompleteForms

LEMMA InitTypes == Init => TypeOK
  <1> SUFFICES ASSUME Init PROVE TypeOK
    OBVIOUS
  <1>1. FirstState["login"] = "" /\ FirstState["create"] = "PIN"
    BY DEF FirstState
  <1>2. \A v \in Views : state[v] \in States[v] /\ state[v] # "LOADING"
    BY <1>1, StatesOfViews DEF Init, Views, Steps
  <1>3. state \in [Views -> Steps \cup {"", "LOADING"}]
    BY <1>2, StatesOfViews DEF Init, FirstState, Views
  <1>4. form \in [Views -> Forms]
    BY DEF Init, Forms, EmptyForm, Entries
  <1> QED
    BY <1>2, <1>3, <1>4 DEF Init, TypeOK, Views, Phases, Sprites

Inv == TypeOK /\ OnlyCompleteForms

LEMMA UserKeepsInv == Inv /\ User => Inv'
  <1> SUFFICES ASSUME Inv, User PROVE Inv'
    OBVIOUS
  <1> USE DEF Inv
  <1>0. AttemptType /\ ViewTypes /\ form \in [Views -> Forms]
    BY DEF TypeOK, AttemptType, ViewTypes
  <1>t. ASSUME NEW v \in Views, Touch(v) PROVE touched' \in BOOLEAN
    BY <1>t DEF Touch, TypeOK
  <1>r. ASSUME AttemptType', ViewTypes', form' \in [Views -> Forms], touched' \in BOOLEAN,
               currentView' \in Views, sprite' \in [Views -> Sprites],
               next' \in [Views -> {"none", "failing", "success"}],
               UNCHANGED <<mainView, closed, loading, cancel>>
        PROVE  TypeOK'
    BY <1>r DEF TypeOK, AttemptType, ViewTypes
  <1>1. CASE LoginClicked
    <2>1. "login" \in Views
      BY DEF Views
    <2>2. ViewTypes'
      BY <1>0, <1>1, <2>1, SubmitTypes DEF LoginClicked
    <2>3. AttemptType' /\ OnlyCompleteForms'
      BY <1>0, <1>1, <2>1, SubmitIsComplete DEF LoginClicked
    <2> QED
      BY <1>1, <1>0, <1>t, <1>r, <2>1, <2>2, <2>3 DEF LoginClicked, TypeOK, loadingVars
  <1>2. CASE NextClicked
    <2>1. "create" \in Views
      BY DEF Views
    <2>2. CASE NextLeadsTo = "LOADING" /\ Submit("create")
      BY <2>1, <2>2, <1>0, NextLeadsToType, SubmitTypes, SubmitIsComplete,
         <1>2, <1>t, <1>r DEF NextClicked, TypeOK, loadingVars
    <2>3. CASE NextLeadsTo # "LOADING" /\ Leave("create", NextLeadsTo)
      <3>1. ViewTypes'
        BY <2>1, <2>3, <1>0, NextLeadsToType, CreateStates, LeaveTypes
      <3>2. AttemptType' /\ OnlyCompleteForms'
        BY <2>1, <2>3, <1>0, FadeIsOverType, SameForm DEF Leave
      <3> QED
        BY <3>1, <3>2, <2>1, <1>0, <1>2, <1>t, <1>r DEF NextClicked, TypeOK, loadingVars
    <2> QED
      BY <2>2, <2>3, <1>2 DEF NextClicked
  <1>3. CASE TabClicked
    <2>1. "create" \in Views
      BY DEF Views
    <2>2. PICK tab \in Steps : Leave("create", TabLeadsTo(tab))
      BY <1>3 DEF TabClicked
    <2>3. ViewTypes'
      BY <2>1, <2>2, <1>0, TabLeadsToType, CreateStates, LeaveTypes
    <2>4. AttemptType' /\ OnlyCompleteForms'
      BY <2>1, <2>2, <1>0, FadeIsOverType, SameForm DEF Leave
    <2> QED
      BY <2>1, <2>3, <2>4, <1>0, <1>3, <1>t, <1>r DEF TabClicked, TypeOK, loadingVars
  <1>4. CASE LinkClicked
    <2>1. EmptyForm \in Forms
      BY DEF EmptyForm, Forms, Entries
    <2>2. form' \in [Views -> Forms] /\ currentView' \in Views
      BY <1>0, <1>4, <2>1 DEF LinkClicked
    <2>3. AttemptType' /\ ViewTypes' /\ OnlyCompleteForms'
      BY <1>0, <1>4 DEF LinkClicked, AttemptType, ViewTypes, OnlyCompleteForms
    <2> QED
      BY <2>2, <2>3, <1>4, <1>t, <1>r DEF LinkClicked, TypeOK, loadingVars
  <1>5. ASSUME NEW v \in Views, Edit(v) PROVE Inv'
    <2>1. form' \in [Views -> Forms]
      BY <1>0, <1>5 DEF Edit, Forms
    <2>2. AttemptType' /\ ViewTypes' /\ OnlyCompleteForms'
      BY <1>0, <1>5 DEF Edit, controllerVars, AttemptType, ViewTypes, OnlyCompleteForms
    <2> QED
      BY <2>1, <2>2, <1>5, <1>t, <1>r DEF Edit, TypeOK, controllerVars, loadingVars
  <1>6. ASSUME NEW v \in Views, CancelClicked(v) PROVE Inv'
    <2>1. ViewTypes'
      BY <1>0, <1>6, CanceledStates, LeaveTypes DEF CancelClicked
    <2>2. AttemptType' /\ OnlyCompleteForms'
      BY <1>0, <1>6, FadeIsOverType, SameForm DEF CancelClicked, Leave
    <2> QED
      BY <2>1, <2>2, <1>0, <1>6, <1>t, <1>r DEF CancelClicked, TypeOK, Sprites
  <1> QED
    BY <1>1, <1>2, <1>3, <1>4, <1>5, <1>6 DEF User

LEMMA AnimateKeepsInv ==
    ASSUME Inv, NEW v \in Views, Animate(v)
    PROVE  Inv'
  <1> USE DEF Inv
  <1>0. AttemptType /\ ViewTypes
    BY DEF TypeOK, AttemptType, ViewTypes
  <1>1. CASE ShowLoading(v)
    <2>1. ViewTypes'
      BY <1>0, <1>1 DEF ShowLoading, ViewTypes, Phases
    <2> QED
      BY <2>1, <1>1 DEF ShowLoading, TypeOK, ViewTypes, controllerVars, OnlyCompleteForms, Sprites
  <1>2. CASE HideElements(v)
    <2>1. ViewTypes'
      BY <1>0, <1>2 DEF HideElements, ViewTypes, Phases
    <2>2. AttemptType' /\ OnlyCompleteForms'
      BY <1>0, <1>2, FadeIsOverType, SameForm DEF HideElements
    <2> QED
      BY <2>1, <2>2, <1>2
         DEF HideElements, TypeOK, AttemptType, ViewTypes, loadingVars
  <1>3. CASE LoadingLoops(v)
    BY <1>3 DEF LoadingLoops, TypeOK, Sprites, controllerVars, viewVars, OnlyCompleteForms
  <1>4. CASE StartFailing(v)
    BY <1>4 DEF StartFailing, TypeOK, Sprites, controllerVars, viewVars, OnlyCompleteForms
  <1>5. CASE LoadingFinished(v)
    BY <1>5
       DEF LoadingFinished, TypeOK, controllerVars, viewVars, loadingVars, OnlyCompleteForms
  <1> QED
    BY <1>1, <1>2, <1>3, <1>4, <1>5 DEF Animate

LEMMA AnswerKeepsInv == Inv /\ Answer => Inv'
  <1> SUFFICES ASSUME Inv, Answer PROVE Inv'
    OBVIOUS
  <1> USE DEF Inv
  <1>1. CASE ModelReturns
    <2>1. attempt # NoAttempt
      BY <1>1 DEF ModelReturns, NoAttempt
    <2>2. attempt \in Attempts
      BY <2>1 DEF TypeOK
    <2>3. attempt' \in Attempts /\ attempt'.form = attempt.form
      BY <2>2, <1>1, SameCall DEF ModelReturns
    <2> QED
      BY <2>1, <2>3, <1>1 DEF ModelReturns, TypeOK, OnlyCompleteForms, viewVars, loadingVars
  <1>2. CASE LoginResultAvailable
    BY <1>2 DEF LoginResultAvailable, LoginCompleted, ShowSuccess, TypeOK, OnlyCompleteForms,
                viewVars
  <1>3. CASE CreateAccountResultAvailable
    BY <1>3 DEF CreateAccountResultAvailable, ShowFailed, TypeOK, OnlyCompleteForms, viewVars
  <1> QED
    BY <1>1, <1>2, <1>3 DEF Answer

LEMMA InvHolds == Spec => []Inv
  <1>1. Init => Inv
    BY InitTypes DEF Inv, Init, OnlyCompleteForms
  <1>2. Inv /\ [Next]_vars => Inv'
    <2> SUFFICES ASSUME Inv, [Next]_vars PROVE Inv'
      OBVIOUS
    <2>1. CASE UNCHANGED vars
      BY <2>1 DEF Inv, TypeOK, OnlyCompleteForms, vars, controllerVars, viewVars, loadingVars
    <2>2. CASE Next
      BY <2>2, UserKeepsInv, AnimateKeepsInv, AnswerKeepsInv DEF Next
    <2> QED
      BY <2>1, <2>2
  <1> QED
    BY <1>1, <1>2, PTL DEF Spec

(* The variables keep their types, and a view is in its LOADING state exactly
   while its transition there has begun (the states of Login.qml and
   CreateAccount.qml). *)
THEOREM TypesAreKept == Spec => []TypeOK
  <1>1. Inv => TypeOK
    BY DEF Inv
  <1> QED
    BY <1>1, InvHolds, PTL

(* The buttons of Login.qml and CreateAccount.qml submit no form with an entry
   that validateValues refuses, whatever was edited after it was validated. *)
THEOREM FormsAreComplete == Spec => []OnlyCompleteForms
  <1>1. Inv => OnlyCompleteForms
    BY DEF Inv
  <1> QED
    BY <1>1, InvHolds, PTL

-----------------------------------------------------------------------------
(* HomeNeedsLogin is inductive on its types: the main view never goes back, and
   only LoginCompleted makes success come next. *)

LEMMA HomeIsKept == TypeOK /\ HomeNeedsLogin /\ [Next]_vars => HomeNeedsLogin'
  <1> SUFFICES ASSUME TypeOK, HomeNeedsLogin, [Next]_vars PROVE HomeNeedsLogin'
    OBVIOUS
  <1>1. CASE UNCHANGED vars
    BY <1>1 DEF HomeNeedsLogin, vars, controllerVars, loadingVars
  <1>2. CASE User
    <2>1. ASSUME UNCHANGED <<mainView, closed, next, sprite>> PROVE HomeNeedsLogin'
      BY <2>1 DEF HomeNeedsLogin
    <2>2. CASE LoginClicked \/ NextClicked \/ TabClicked \/ LinkClicked
      BY <2>1, <2>2 DEF LoginClicked, NextClicked, TabClicked, LinkClicked, loadingVars
    <2>3. ASSUME NEW v \in Views, Edit(v) PROVE HomeNeedsLogin'
      BY <2>1, <2>3 DEF Edit, controllerVars, loadingVars
    <2>4. ASSUME NEW v \in Views, CancelClicked(v) PROVE HomeNeedsLogin'
      BY <2>4 DEF CancelClicked, HomeNeedsLogin, TypeOK
    <2> QED
      BY <1>2, <2>2, <2>3, <2>4 DEF User
  <1>3. ASSUME NEW v \in Views, Animate(v) PROVE HomeNeedsLogin'
    <2>1. CASE ShowLoading(v) \/ HideElements(v)
      BY <2>1 DEF ShowLoading, HideElements, HomeNeedsLogin, TypeOK, controllerVars, loadingVars
    <2>2. CASE LoadingLoops(v) \/ StartFailing(v)
      BY <2>2 DEF LoadingLoops, StartFailing, HomeNeedsLogin, TypeOK, controllerVars
    <2>3. CASE LoadingFinished(v)
      BY <2>3 DEF LoadingFinished, HomeNeedsLogin, controllerVars, loadingVars
    <2> QED
      BY <1>3, <2>1, <2>2, <2>3 DEF Animate
  <1>4. CASE Answer
    BY <1>4 DEF Answer, ModelReturns, LoginResultAvailable, LoginCompleted, ShowSuccess,
                CreateAccountResultAvailable, ShowFailed, HomeNeedsLogin, TypeOK, loadingVars
  <1> QED
    BY <1>1, <1>2, <1>3, <1>4 DEF Next

(* Success is shown, and the account views are closed for the home page, only
   when a login has completed: no created account and no result meant for the
   other view leads there. *)
THEOREM HomeComesAfterLogin == Spec => []HomeNeedsLogin
  <1>1. Init => HomeNeedsLogin
    BY DEF Init, HomeNeedsLogin
  <1> QED
    BY <1>1, HomeIsKept, TypesAreKept, PTL DEF Spec

-----------------------------------------------------------------------------
(* PendingIsShown is not inductive: that the button of the LoadingView does not
   lead back while a call runs depends on loading, and that loading stays true
   on the animation having nothing to go over to. *)

Waits(v) == phase[v] = "paused" \/ (loading[v] /\ next[v] = "none" /\ sprite[v] = "loading")

Shown ==
    /\ currentView = attempt.view
    /\ state[attempt.view] = "LOADING"
    /\ form[attempt.view] = attempt.form
    /\ Waits(attempt.view)

PendingWaits == ~touched /\ attempt # NoAttempt => Shown

(* A call that goes on is the same call, maybe with its fade over. *)
SameAttempt ==
    attempt' # NoAttempt =>
        attempt # NoAttempt /\ attempt'.view = attempt.view /\ attempt'.form = attempt.form

LEMMA FadeIsOverSame ==
    ASSUME TypeOK, NEW v \in Views, FadeIsOver(v)
    PROVE  SameAttempt
  <1>1. ASSUME attempt # NoAttempt
        PROVE  LET faded == [attempt EXCEPT !.fading = FALSE]
               IN  faded.view = attempt.view /\ faded.form = attempt.form
    BY <1>1 DEF TypeOK, Attempts
  <1> QED
    BY <1>1 DEF FadeIsOver, SameAttempt

(* Nobody acts on a view with elements while a call runs: the view that is shown
   is then LOADING, so it fades, and acting on it counts as touching. *)
LEMMA NothingPendingIsTouched ==
    ASSUME TypeOK, PendingWaits, ElementsShown(currentView), Touch(currentView), ~touched'
    PROVE  attempt = NoAttempt /\ ~touched
  <1>1. ~touched /\ phase[currentView] = "form"
    BY DEF Touch, ElementsShown, Fading, TypeOK, Phases
  <1> QED
    BY <1>1 DEF PendingWaits, Shown, TypeOK

LEMMA SubmitWaits ==
    ASSUME TypeOK, PendingWaits, NEW v \in Views, ElementsShown(v), Submit(v), Touch(v),
           UNCHANGED <<currentView, form>>
    PROVE  PendingWaits'
  <1> SUFFICES ASSUME ~touched' PROVE Shown'
    BY DEF PendingWaits
  <1>1. currentView = v /\ attempt = NoAttempt
    BY NothingPendingIsTouched DEF ElementsShown
  <1>2. phase[v] = "form"
    BY DEF Touch, ElementsShown, Fading, TypeOK, Phases
  <1>3. attempt'.view = v /\ attempt'.form = form[v]
    BY <1>1 DEF Submit, Call
  <1>4. state'[v] = "LOADING" /\ phase'[v] = "paused"
    BY <1>2 DEF Submit, TypeOK
  <1> QED
    BY <1>1, <1>3, <1>4 DEF Shown, Waits

LEMMA PendingIsKept == TypeOK /\ PendingWaits /\ [Next]_vars => PendingWaits'
  <1> SUFFICES ASSUME TypeOK, PendingWaits, [Next]_vars PROVE PendingWaits'
    OBVIOUS
  <1>n. ASSUME ~touched' /\ attempt' # NoAttempt => FALSE PROVE PendingWaits'
    BY <1>n DEF PendingWaits
  <1>1. CASE UNCHANGED vars
    BY <1>1 DEF PendingWaits, Shown, Waits, vars, controllerVars, viewVars, loadingVars
  <1>2. CASE User
    <2>v. "login" \in Views /\ "create" \in Views
      BY DEF Views
    <2>1. CASE LoginClicked
      BY <2>1, <2>v, SubmitWaits DEF LoginClicked
    <2>2. ASSUME NEW s, ElementsShown("create"), Leave("create", s), Touch("create")
          PROVE  PendingWaits'
      <3> SUFFICES ASSUME ~touched' PROVE attempt' = NoAttempt
        BY DEF PendingWaits
      <3>1. attempt = NoAttempt
        BY <2>2, NothingPendingIsTouched DEF ElementsShown
      <3> QED
        BY <3>1, <2>2 DEF Leave, FadeIsOver
    <2>3. CASE NextClicked
      BY <2>2, <2>3, <2>v, SubmitWaits DEF NextClicked
    <2>4. CASE TabClicked
      BY <2>2, <2>4 DEF TabClicked
    <2>5. CASE LinkClicked
      BY <2>5, NothingPendingIsTouched DEF LinkClicked, PendingWaits
    <2>6. ASSUME NEW v \in Views, Edit(v) PROVE PendingWaits'
      <3> SUFFICES ASSUME ~touched' PROVE attempt' = NoAttempt
        BY DEF PendingWaits
      <3> QED
        BY <2>6, NothingPendingIsTouched DEF Edit, ElementsShown, controllerVars
    <2>7. ASSUME NEW v \in Views, CancelClicked(v) PROVE PendingWaits'
      <3> SUFFICES ASSUME ~touched' PROVE attempt' = NoAttempt
        BY DEF PendingWaits
      <3>1. ~touched /\ phase[v] # "paused" /\ currentView = v /\ ~loading[v]
        BY <2>7 DEF CancelClicked, CanGoBack, Touch, Fading, TypeOK
      <3>2. attempt = NoAttempt
        BY <3>1 DEF PendingWaits, Shown, Waits
      <3> QED
        BY <3>2, <2>7 DEF CancelClicked, Leave, FadeIsOver
    <2> QED
      BY <1>2, <2>1, <2>3, <2>4, <2>5, <2>6, <2>7 DEF User
  <1>3. ASSUME NEW v \in Views, Animate(v) PROVE PendingWaits'
    <2> SUFFICES ASSUME ~touched', attempt' # NoAttempt PROVE Shown'
      BY DEF PendingWaits
    <2>1. CASE ShowLoading(v)
      BY <2>1 DEF ShowLoading, PendingWaits, Shown, Waits, TypeOK, controllerVars
    <2>2. CASE HideElements(v)
      <3>1. SameAttempt /\ ~touched
        BY <2>2, FadeIsOverSame DEF HideElements
      <3>2. Shown
        BY <3>1 DEF PendingWaits, SameAttempt
      <3> QED
        BY <2>2, <3>1, <3>2 DEF HideElements, SameAttempt, Shown, Waits, TypeOK, loadingVars
    <2>3. CASE LoadingLoops(v)
      BY <2>3 DEF LoadingLoops, PendingWaits, Shown, Waits, TypeOK, controllerVars, viewVars
    <2>4. CASE StartFailing(v)
      BY <2>4 DEF StartFailing, PendingWaits, Shown, Waits, TypeOK, controllerVars, viewVars
    <2>5. CASE LoadingFinished(v)
      BY <2>5 DEF LoadingFinished, PendingWaits, Shown, Waits, controllerVars, viewVars, loadingVars
    <2> QED
      BY <1>3, <2>1, <2>2, <2>3, <2>4, <2>5 DEF Animate
  <1>4. CASE Answer
    <2>1. CASE ModelReturns
      <3>1. attempt # NoAttempt
        BY <2>1 DEF ModelReturns, NoAttempt
      <3>2. attempt'.view = attempt.view /\ attempt'.form = attempt.form
        BY <3>1, <2>1 DEF ModelReturns, TypeOK, Attempts
      <3> QED
        BY <3>1, <3>2, <2>1
           DEF ModelReturns, PendingWaits, Shown, Waits, viewVars, loadingVars
    <2>2. CASE LoginResultAvailable \/ CreateAccountResultAvailable
      BY <2>2 DEF LoginResultAvailable, CreateAccountResultAvailable, PendingWaits
    <2> QED
      BY <1>4, <2>1, <2>2 DEF Answer
  <1> QED
    BY <1>1, <1>2, <1>3, <1>4 DEF Next

(* For a user who leaves a view alone while it fades, the call that runs is the
   one of the form that is shown: cancelling is disabled in time
   (LoadingView.qml:117), and no result of an earlier call comes between. *)
THEOREM ResultIsForShownForm == Spec => []PendingIsShown
  <1>1. Init => PendingWaits
    BY DEF Init, PendingWaits
  <1>2. PendingWaits => PendingIsShown
    BY DEF PendingWaits, Shown, PendingIsShown
  <1> QED
    BY <1>1, <1>2, PendingIsKept, TypesAreKept, PTL DEF Spec

-----------------------------------------------------------------------------
(* LoadingIsFollowed depends on what has happened so far in the call that a view is
   loading for.  While nobody touches a view that fades: only the view that is shown
   is loading; it fades only during its call, whose result comes later; and the home
   page is reached once, after which no other call begins. *)

SuccessComes(v) ==
    /\ state[v] = "LOADING" /\ phase[v] = "hidden" /\ ~cancel[v]
    /\ sprite[v] = "success" \/ (sprite[v] = "loading" /\ next[v] = "success")

EndComes(v) ==
    \/ attempt # NoAttempt /\ attempt.view = v
    \/ sprite[v] \in {"failing", "success"}
    \/ sprite[v] = "loading" /\ next[v] # "none"
    \/ sprite[v] = "broken" /\ ~loading[v]
    \/ closed

CallIsOfFade ==
    /\ \A v \in Views : Fading(v) => attempt # NoAttempt /\ attempt.view = v /\ attempt.fading
    /\ attempt # NoAttempt /\ attempt.stage = "posted" => ~attempt.fading

HomeIsFinal ==
    /\ mainView = "HandleAccount" => \A v \in Views : cancel[v]
    /\ mainView = "HomePage" => attempt = NoAttempt /\ (closed \/ SuccessComes(currentView))

LoadingEndComes ==
    \A v \in Views : state[v] = "LOADING" => currentView = v /\ EndComes(v)

Untouched == PendingWaits /\ (~touched => CallIsOfFade /\ HomeIsFinal /\ LoadingEndComes)

UInv == TypeOK /\ HomeNeedsLogin /\ Untouched

(* A user who acts on a view's elements and does not touch a fading view has a form in
   front: no call runs, no view is loading and no login has completed. *)
LEMMA FormIsInFront ==
    ASSUME UInv, ElementsShown(currentView), Touch(currentView), ~touched'
    PROVE  /\ ~touched /\ attempt = NoAttempt /\ mainView = "HandleAccount"
           /\ \A v \in Views : state[v] # "LOADING" /\ phase[v] = "form" /\ cancel[v]
           /\ CallIsOfFade /\ HomeIsFinal /\ LoadingEndComes
  <1>1. /\ attempt = NoAttempt /\ ~touched
        /\ CallIsOfFade /\ HomeIsFinal /\ LoadingEndComes
    BY NothingPendingIsTouched DEF UInv, Untouched
  <1>2. phase[currentView] = "form" /\ currentView \in Views /\ ~closed
    BY <1>1 DEF UInv, TypeOK, Touch, ElementsShown, Fading, Phases
  <1>3. \A v \in Views : state[v] # "LOADING" /\ phase[v] = "form"
    BY <1>1, <1>2 DEF UInv, TypeOK, LoadingEndComes
  <1>4. mainView = "HandleAccount"
    BY <1>1, <1>2, <1>3 DEF UInv, TypeOK, HomeIsFinal, SuccessComes
  <1> QED
    BY <1>1, <1>3, <1>4 DEF HomeIsFinal

LEMMA SubmitIsFollowed ==
    ASSUME UInv, NEW v \in Views, ElementsShown(v), Submit(v), Touch(v), ~touched',
           UNCHANGED <<currentView, mainView, closed, form, loadingVars>>
    PROVE  CallIsOfFade' /\ HomeIsFinal' /\ LoadingEndComes'
  <1>1. /\ currentView = v /\ attempt = NoAttempt /\ mainView = "HandleAccount"
        /\ \A w \in Views : state[w] # "LOADING" /\ phase[w] = "form" /\ cancel[w]
    BY FormIsInFront DEF ElementsShown
  <1>2. /\ attempt' # NoAttempt /\ attempt'.view = v /\ attempt'.fading
        /\ attempt'.stage = "running"
    BY <1>1, NoAttemptIsNoCall DEF Submit, Call, NoAttempt
  <1>3. /\ \A w \in Views : w # v => state'[w] = state[w] /\ phase'[w] = phase[w]
        /\ UNCHANGED <<currentView, mainView, cancel>>
    BY DEF Submit, UInv, TypeOK, loadingVars
  <1>4. CallIsOfFade'
    BY <1>1, <1>2, <1>3 DEF CallIsOfFade, Fading
  <1>5. HomeIsFinal'
    BY <1>1, <1>3 DEF HomeIsFinal
  <1>6. LoadingEndComes'
    BY <1>1, <1>2, <1>3 DEF LoadingEndComes, EndComes
  <1> QED
    BY <1>4, <1>5, <1>6

(* What no view is loading after has nothing to be followed. *)
LEMMA FormIsFollowed ==
    ASSUME UInv, attempt' = NoAttempt, mainView' = "HandleAccount", UNCHANGED cancel,
           mainView = "HandleAccount", HomeIsFinal,
           \A v \in Views : state'[v] # "LOADING" /\ phase'[v] = "form"
    PROVE  CallIsOfFade' /\ HomeIsFinal' /\ LoadingEndComes'
  BY DEF CallIsOfFade, HomeIsFinal, LoadingEndComes, Fading

LEMMA UserIsFollowed ==
    ASSUME UInv, User, ~touched'
    PROVE  CallIsOfFade' /\ HomeIsFinal' /\ LoadingEndComes'
  <1>v. "login" \in Views /\ "create" \in Views
    BY DEF Views
  <1>1. CASE LoginClicked
    BY <1>1, <1>v, SubmitIsFollowed DEF LoginClicked
  <1>2. ASSUME NEW s \in Steps, ElementsShown("create"), Leave("create", s), Touch("create"),
               UNCHANGED <<mainView, loadingVars>>
        PROVE  CallIsOfFade' /\ HomeIsFinal' /\ LoadingEndComes'
    <2>1. /\ attempt = NoAttempt /\ mainView = "HandleAccount" /\ HomeIsFinal
          /\ \A v \in Views : state[v] # "LOADING" /\ phase[v] = "form"
      BY <1>2, FormIsInFront DEF ElementsShown
    <2>2. attempt' = NoAttempt /\ s # "LOADING"
      BY <1>2, <2>1 DEF Leave, FadeIsOver, Steps
    <2>3. \A v \in Views : state'[v] # "LOADING" /\ phase'[v] = "form"
      BY <1>2, <2>1, <2>2 DEF Leave, UInv, TypeOK
    <2> QED
      BY <1>2, <2>1, <2>2, <2>3, FormIsFollowed DEF loadingVars
  <1>3. CASE NextClicked
    BY <1>2, <1>3, <1>v, SubmitIsFollowed, NextLeadsToType DEF NextClicked
  <1>4. CASE TabClicked
    BY <1>2, <1>4, TabLeadsToType DEF TabClicked
  <1>5. ASSUME ElementsShown(currentView), Touch(currentView),
               UNCHANGED <<mainView, attempt, state, phase, loadingVars>>
        PROVE  CallIsOfFade' /\ HomeIsFinal' /\ LoadingEndComes'
    <2>1. /\ attempt = NoAttempt /\ mainView = "HandleAccount" /\ HomeIsFinal
          /\ \A v \in Views : state[v] # "LOADING" /\ phase[v] = "form"
      BY <1>5, FormIsInFront
    <2> QED
      BY <1>5, <2>1, FormIsFollowed DEF loadingVars
  <1>6. CASE LinkClicked
    BY <1>5, <1>6 DEF LinkClicked
  <1>7. ASSUME NEW v \in Views, Edit(v)
        PROVE  CallIsOfFade' /\ HomeIsFinal' /\ LoadingEndComes'
    BY <1>5, <1>7 DEF Edit, ElementsShown, controllerVars
  <1>8. ASSUME NEW v \in Views, CancelClicked(v)
        PROVE  CallIsOfFade' /\ HomeIsFinal' /\ LoadingEndComes'
    <2>1. /\ ~touched /\ phase[v] \notin {"paused", "collapsing"} /\ currentView = v
          /\ cancel[v] /\ ~loading[v] /\ ~closed
      BY <1>8 DEF CancelClicked, CanGoBack, Touch, Fading
    <2>2. /\ PendingWaits /\ CallIsOfFade /\ HomeIsFinal /\ LoadingEndComes
      BY <2>1 DEF UInv, Untouched
    <2>3. attempt = NoAttempt
      BY <2>1, <2>2 DEF PendingWaits, Shown, Waits
    <2>4. mainView = "HandleAccount"
      BY <2>1, <2>2 DEF HomeIsFinal, SuccessComes, UInv, TypeOK
    <2>5. \A w \in Views : w # v => state[w] # "LOADING"
      BY <2>1, <2>2 DEF LoadingEndComes
    <2>6. attempt' = NoAttempt /\ CanceledState[v] # "LOADING"
      BY <1>8, <2>3, CanceledStates DEF CancelClicked, Leave, FadeIsOver
    <2>7. \A w \in Views : state'[w] # "LOADING" /\ phase'[w] = "form"
      BY <1>8, <2>5, <2>6 DEF CancelClicked, Leave, UInv, TypeOK
    <2> QED
      BY <1>8, <2>2, <2>4, <2>6, <2>7, FormIsFollowed DEF CancelClicked
  <1> QED
    BY <1>1, <1>3, <1>4, <1>6, <1>7, <1>8 DEF User

LEMMA AnimationIsFollowed ==
    ASSUME UInv, NEW v \in Views, Animate(v), ~touched'
    PROVE  CallIsOfFade' /\ HomeIsFinal' /\ LoadingEndComes'
  <1> USE DEF UInv, TypeOK
  <1>1. /\ ~touched /\ PendingWaits /\ CallIsOfFade /\ HomeIsFinal /\ LoadingEndComes
        /\ currentView \in Views
    BY DEF Untouched, Animate, ShowLoading, HideElements, LoadingLoops, StartFailing,
           LoadingFinished
  <1>2. CASE ShowLoading(v)
    <2>1. attempt # NoAttempt /\ attempt.view = v /\ mainView = "HandleAccount"
      BY <1>1, <1>2 DEF ShowLoading, CallIsOfFade, Fading, HomeIsFinal
    <2>2. /\ phase[v] = "paused" /\ phase' = [phase EXCEPT ![v] = "collapsing"]
          /\ sprite' = [sprite EXCEPT ![v] = "loading"]
          /\ UNCHANGED <<controllerVars, closed, state, cancel>>
      BY <1>2 DEF ShowLoading
    <2>3. CallIsOfFade'
      BY <1>1, <2>1, <2>2 DEF CallIsOfFade, Fading, controllerVars
    <2>4. HomeIsFinal'
      BY <1>1, <2>1, <2>2 DEF HomeIsFinal, controllerVars
    <2>5. LoadingEndComes'
      <3>1. ASSUME NEW w \in Views, state'[w] = "LOADING" PROVE w = v
        <4>1. state[v] = "LOADING" /\ state[w] = "LOADING"
          BY <2>2, <3>1
        <4> QED
          BY <1>1, <4>1 DEF LoadingEndComes
      <3>2. EndComes(v)' /\ currentView' = v
        BY <1>1, <2>1, <2>2 DEF EndComes, LoadingEndComes, controllerVars
      <3> QED
        BY <3>1, <3>2 DEF LoadingEndComes
    <2> QED
      BY <2>3, <2>4, <2>5
  <1>3. CASE HideElements(v)
    <2>1. /\ attempt # NoAttempt /\ attempt.view = v /\ attempt \in Attempts
          /\ mainView = "HandleAccount"
      BY <1>1, <1>3 DEF HideElements, CallIsOfFade, Fading, HomeIsFinal
    <2>2. attempt' = [attempt EXCEPT !.fading = FALSE]
      BY <1>3, <2>1 DEF HideElements, FadeIsOver
    <2>3. /\ attempt' # NoAttempt /\ attempt'.view = v /\ ~attempt'.fading
      BY <2>1, <2>2, SameCall, NoAttemptIsNoCall DEF Attempts
    <2>4. \A w \in Views : ~Fading(w)'
      BY <1>1, <1>3, <2>1 DEF HideElements, CallIsOfFade, Fading
    <2>5. CallIsOfFade'
      BY <2>3, <2>4 DEF CallIsOfFade
    <2>6. HomeIsFinal' /\ LoadingEndComes'
      BY <1>1, <1>3, <2>1, <2>3
         DEF HideElements, HomeIsFinal, LoadingEndComes, EndComes, loadingVars
    <2> QED
      BY <2>5, <2>6
  <1>4. CASE LoadingLoops(v)
    <2>1. /\ sprite[v] = "loading" /\ next[v] \in {"failing", "success"}
          /\ state[v] = "LOADING" /\ currentView = v
          /\ sprite' = [sprite EXCEPT ![v] = next[v]]
          /\ UNCHANGED <<controllerVars, closed, viewVars, next, loading, cancel>>
      BY <1>4 DEF LoadingLoops, Playing
    <2>2. CallIsOfFade'
      BY <1>1, <2>1 DEF CallIsOfFade, Fading, controllerVars, viewVars
    <2>3. HomeIsFinal'
      BY <1>1, <2>1 DEF HomeIsFinal, SuccessComes, controllerVars, viewVars
    <2>4. LoadingEndComes'
      BY <1>1, <2>1 DEF LoadingEndComes, EndComes, controllerVars, viewVars
    <2> QED
      BY <2>2, <2>3, <2>4
  <1>5. CASE StartFailing(v)
    <2>1. /\ sprite[v] = "failing" /\ state[v] = "LOADING" /\ currentView = v /\ ~closed
          /\ sprite' = [sprite EXCEPT ![v] = "broken"]
          /\ loading' = [loading EXCEPT ![v] = FALSE]
          /\ UNCHANGED <<controllerVars, closed, viewVars, next, cancel>>
      BY <1>5 DEF StartFailing, Playing
    <2>2. CallIsOfFade'
      BY <1>1, <2>1 DEF CallIsOfFade, Fading, controllerVars, viewVars
    <2>3. mainView = "HandleAccount"
      BY <1>1, <2>1 DEF HomeIsFinal, SuccessComes
    <2>4. HomeIsFinal'
      BY <1>1, <2>1, <2>3 DEF HomeIsFinal, controllerVars
    <2>5. LoadingEndComes'
      BY <1>1, <2>1 DEF LoadingEndComes, EndComes, controllerVars, viewVars
    <2> QED
      BY <2>2, <2>4, <2>5
  <1>6. CASE LoadingFinished(v)
    BY <1>1, <1>6 DEF LoadingFinished, CallIsOfFade, Fading, HomeIsFinal, SuccessComes,
                      LoadingEndComes, EndComes, controllerVars, viewVars, loadingVars
  <1> QED
    BY <1>2, <1>3, <1>4, <1>5, <1>6 DEF Animate

LEMMA AnswerIsFollowed ==
    ASSUME UInv, Answer, ~touched'
    PROVE  CallIsOfFade' /\ HomeIsFinal' /\ LoadingEndComes'
  <1> USE DEF UInv, TypeOK
  <1>a. UNCHANGED <<currentView, closed, viewVars, sprite, loading, touched>>
    <2>1. CASE ModelReturns
      BY <2>1 DEF ModelReturns, loadingVars
    <2>2. CASE LoginResultAvailable
      BY <2>2 DEF LoginResultAvailable, LoginCompleted, ShowSuccess
    <2>3. CASE CreateAccountResultAvailable
      BY <2>3 DEF CreateAccountResultAvailable, ShowFailed
    <2> QED
      BY <2>1, <2>2, <2>3 DEF Answer
  <1>b. attempt # NoAttempt
    <2>1. attempt.stage # "none"
      BY DEF Answer, ModelReturns, LoginResultAvailable, CreateAccountResultAvailable
    <2> QED
      BY ONLY <2>1 DEF NoAttempt
  <1>1. /\ ~touched /\ PendingWaits /\ CallIsOfFade /\ HomeIsFinal /\ LoadingEndComes
        /\ currentView \in Views /\ attempt \in Attempts
        /\ UNCHANGED <<currentView, closed, viewVars, sprite, loading>>
    BY <1>a, <1>b DEF Untouched
  <1>2. /\ attempt # NoAttempt /\ mainView = "HandleAccount"
        /\ \A v \in Views : cancel[v]
    BY <1>1, <1>b DEF HomeIsFinal
  <1>3. CASE ModelReturns
    <2>1. /\ attempt' = [attempt EXCEPT !.stage = "posted"] /\ ~attempt.fading
          /\ UNCHANGED <<mainView, loadingVars>>
      BY <1>3 DEF ModelReturns
    <2>2. attempt' # NoAttempt /\ attempt'.view = attempt.view /\ ~attempt'.fading
      BY <1>1, <2>1, SameCall, NoAttemptIsNoCall DEF Attempts
    <2>3. CallIsOfFade'
      BY <1>1, <2>1, <2>2 DEF CallIsOfFade, Fading, viewVars
    <2>4. HomeIsFinal'
      BY <1>2, <2>1 DEF HomeIsFinal, loadingVars
    <2>5. LoadingEndComes'
      BY <1>1, <2>1, <2>2 DEF LoadingEndComes, EndComes, viewVars, loadingVars
    <2> QED
      BY <2>3, <2>4, <2>5
  <1>4. CASE LoginResultAvailable \/ CreateAccountResultAvailable
    <2>1. attempt.stage = "posted" /\ attempt' = NoAttempt
      BY <1>4 DEF LoginResultAvailable, CreateAccountResultAvailable
    <2>2. \A v \in Views : ~Fading(v)
      BY <1>1, <1>2, <2>1 DEF CallIsOfFade
    <2>3. CallIsOfFade'
      BY <1>1, <2>1, <2>2 DEF CallIsOfFade, Fading, viewVars
    <2>4. /\ currentView = attempt.view /\ state[currentView] = "LOADING"
          /\ phase[currentView] = "hidden" /\ sprite[currentView] = "loading"
      BY <1>1, <1>2, <2>2 DEF PendingWaits, Shown, Waits, Fading, Phases
    <2>5. CASE LoginResultAvailable
      <3>1. mainView' = "HomePage" /\ ShowSuccess
        BY <1>2, <2>5 DEF LoginResultAvailable, LoginCompleted
      <3> QED
        BY <1>1, <2>1, <2>3, <2>4, <3>1
           DEF ShowSuccess, HomeIsFinal, SuccessComes, LoadingEndComes, EndComes, viewVars
    <2>6. CASE CreateAccountResultAvailable
      <3>1. UNCHANGED mainView /\ UNCHANGED cancel /\ (~closed => ShowFailed)
        BY <2>6 DEF CreateAccountResultAvailable, ShowFailed
      <3> QED
        BY <1>1, <1>2, <2>1, <2>3, <2>4, <3>1
           DEF ShowFailed, HomeIsFinal, LoadingEndComes, EndComes, viewVars
    <2> QED
      BY <1>4, <2>5, <2>6
  <1> QED
    BY <1>3, <1>4 DEF Answer

LEMMA UntouchedIsKept == UInv /\ [Next]_vars /\ PendingWaits' => Untouched'
  <1> SUFFICES ASSUME UInv, [Next]_vars, PendingWaits', ~touched'
               PROVE  CallIsOfFade' /\ HomeIsFinal' /\ LoadingEndComes'
    BY DEF Untouched
  <1>1. CASE UNCHANGED vars
    BY <1>1 DEF UInv, Untouched, CallIsOfFade, Fading, HomeIsFinal, SuccessComes,
                LoadingEndComes, EndComes, vars, controllerVars, viewVars, loadingVars
  <1> QED
    BY <1>1, UserIsFollowed, AnimationIsFollowed, AnswerIsFollowed DEF Next

(* A view that the user leaves alone while it fades is not left loading with nobody
   to end it: each result of Login and CreateAccount reaches the view whose form was
   submitted, with its LoadingView's animation running (LoadingView.qml). *)
THEOREM LoadingHasAnEnd == Spec => []LoadingIsFollowed
  <1>1. Init => Untouched
    <2> SUFFICES ASSUME Init PROVE Untouched
      OBVIOUS
    <2>1. /\ state["login"] = "" /\ state["create"] = "PIN"
          /\ attempt = NoAttempt /\ mainView = "HandleAccount"
      BY DEF Init, FirstState
    <2>2. \A v \in Views : state[v] # "LOADING" /\ phase[v] = "form" /\ cancel[v]
      BY <2>1 DEF Init, Views
    <2> QED
      BY <2>1, <2>2 DEF Untouched, PendingWaits, CallIsOfFade, HomeIsFinal, LoadingEndComes,
                        Fading
  <1>2. TypeOK /\ HomeNeedsLogin /\ Untouched /\ [Next]_vars => Untouched'
    BY PendingIsKept, UntouchedIsKept DEF UInv, Untouched
  <1>3. TypeOK /\ Untouched => LoadingIsFollowed
    <2> SUFFICES ASSUME TypeOK, Untouched, NEW v \in Views, state[v] = "LOADING",
                        ~touched, ~closed, ~CanGoBack(v)
                 PROVE  \/ attempt # NoAttempt /\ attempt.view = v
                        \/ /\ currentView = v
                           /\ \/ sprite[v] \in {"failing", "success"}
                              \/ sprite[v] = "loading" /\ next[v] # "none"
      BY DEF LoadingIsFollowed
    <2>1. currentView = v /\ EndComes(v) /\ HomeIsFinal
      BY DEF Untouched, LoadingEndComes
    <2>2. ASSUME sprite[v] = "broken", ~loading[v] PROVE FALSE
      BY <2>1, <2>2 DEF HomeIsFinal, SuccessComes, CanGoBack, TypeOK
    <2> QED
      BY <2>1, <2>2 DEF EndComes
  <1> QED
    BY <1>1, <1>2, <1>3, TypesAreKept, HomeComesAfterLogin, PTL DEF Spec
=============================================================================
