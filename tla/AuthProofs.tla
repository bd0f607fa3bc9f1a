----------------------------- MODULE AuthProofs -----------------------------
(***************************************************************************)
(* What Auth.tla keeps to, for any requests, users and administrators.     *)
(***************************************************************************)
EXTENDS Auth, TLAPS

AuthPlaces == {"idle", "once", "verify"} \cup Initialising \cup Decided

\* Who is where in the making of the client says what has been made of it.
OnceInv ==
    /\ \A c \in Calls : auth[c] \in Initialising => once = "running"
    /\ \A c, d \in Calls : auth[c] \in Initialising /\ auth[d] \in Initialising => c = d
    /\ once # "done" => ~client /\ ~initErr
    /\ once = "done" => (client \/ initErr) /\ ~(client /\ initErr)
    /\ \A c \in Calls : auth[c] = "verify" => once = "done" /\ client
    /\ \A c \in Calls : auth[c] = "failed" => once = "done" /\ initErr
    /\ \A c \in Calls : auth[c] = "known" /\ requiresFirebaseToken => once = "done" /\ client

LateInv == \A c \in late : credential[c].token \in revoked

\* Whoever is let through, but on an admin route in dev, is a user.
UserInv ==
    \A c \in Calls : auth[c] = "known" /\ ~credential[c].admin => uid[c] \in Users

AuthInv == AuthTypeOK /\ OnceInv /\ UserInv /\ IdentityIsProven /\ LateInv /\ RevocationIsImmediate

\* What every step leaves alone: the requests but one, and the credentials.
Frame(c) ==
    /\ mode' = mode /\ credential' = credential
    /\ auth' = [auth EXCEPT ![c] = auth'[c]]
    /\ uid' = [uid EXCEPT ![c] = uid'[c]]

-----------------------------------------------------------------------------

\* A step of a request changes its own place and user, and nothing of the others.
LEMMA StepFrame ==
    ASSUME AuthTypeOK, NEW c \in Calls, Authenticate(c) \/ AuthStep(c)
    PROVE  Frame(c) /\ auth'[c] \in AuthPlaces /\ uid'[c] \in Users \cup {NoUser}
<1> USE DEF AuthTypeOK, Frame, AuthPlaces, Goto, Known, Initialising, Decided, Credentials
<1>1. ASSUME NEW user \in Users \cup {NoUser}, resolveBillingUserID(c, user)
      PROVE  /\ auth'[c] \in {"known", "denied"} /\ uid'[c] \in Users \cup {NoUser}
             /\ auth' = [auth EXCEPT ![c] = auth'[c]]
             /\ uid' = [uid EXCEPT ![c] = uid'[c]]
  BY <1>1 DEF resolveBillingUserID
<1>2. CASE Authenticate(c)
  BY <1>1, <1>2 DEF Authenticate
<1>3. CASE EnterOnce(c)
  BY <1>3 DEF EnterOnce
<1>4. CASE NewApp(c) \/ RetryApp(c) \/ NewClient(c)
  BY <1>4 DEF NewApp, RetryApp, NewClient, InitFails
<1>5. CASE Verify(c)
  BY <1>1, <1>5 DEF Verify
<1> QED BY <1>2, <1>3, <1>4, <1>5 DEF AuthStep

\* The types survive a step of a request.
LEMMA TypeStep ==
    ASSUME AuthTypeOK, NEW c \in Calls, Authenticate(c) \/ AuthStep(c)
    PROVE  AuthTypeOK'
<1>1. Frame(c) /\ auth'[c] \in AuthPlaces /\ uid'[c] \in Users \cup {NoUser}
  BY StepFrame
<1>2. /\ auth' \in [Calls -> AuthPlaces] /\ uid' \in [Calls -> Users \cup {NoUser}]
      /\ mode' \in Modes /\ credential' \in [Calls -> Credentials]
  BY <1>1 DEF AuthTypeOK, Frame, AuthPlaces
<1>3. /\ once' \in {"new", "running", "done"} /\ initErr' \in BOOLEAN /\ client' \in BOOLEAN
      /\ revoked' \subseteq Users /\ late' \subseteq Calls
  <2> USE DEF AuthTypeOK, verifier
  <2>1. CASE Authenticate(c)
    BY <2>1 DEF Authenticate
  <2>2. CASE EnterOnce(c) \/ Verify(c)
    BY <2>2 DEF EnterOnce, Verify
  <2>3. CASE NewApp(c) \/ RetryApp(c) \/ NewClient(c)
    BY <2>3 DEF NewApp, RetryApp, NewClient, InitFails
  <2> QED BY <2>1, <2>2, <2>3 DEF AuthStep
<1> QED BY <1>2, <1>3 DEF AuthTypeOK, AuthPlaces

\* The requests but c are where they were.
LEMMA Others ==
    ASSUME AuthTypeOK, NEW c \in Calls, Frame(c)
    PROVE  /\ auth'[c] = auth'[c]
           /\ \A d \in Calls : d # c => auth'[d] = auth[d] /\ uid'[d] = uid[d]
BY DEF Frame, AuthTypeOK

\* What the state of the sync.Once lets each request be survives a step of one.
LEMMA OnceStep ==
    ASSUME AuthTypeOK, OnceInv, NEW c \in Calls, Authenticate(c) \/ AuthStep(c)
    PROVE  OnceInv'
<1>1. Frame(c) /\ auth'[c] \in AuthPlaces
  BY StepFrame
<1>2. \A d \in Calls : d # c => auth'[d] = auth[d]
  BY <1>1, Others
<1>3. requiresFirebaseToken' = requiresFirebaseToken
  BY <1>1 DEF Frame, requiresFirebaseToken
<1>4. auth \in [Calls -> AuthPlaces]
  BY DEF AuthTypeOK, AuthPlaces
<1> USE DEF OnceInv, verifier, Goto, Known, Initialising
<1>5. CASE Authenticate(c)
  <2>1. UNCHANGED <<once, initErr, client>>
    BY <1>5 DEF Authenticate
  <2>2. /\ auth'[c] \in {"known", "denied", "once"}
        /\ auth'[c] = "known" => ~requiresFirebaseToken
    BY <1>4, <1>5 DEF Authenticate, resolveBillingUserID
  <2> QED BY <1>2, <1>3, <2>1, <2>2
<1>6. CASE EnterOnce(c)
  <2>1. CASE once = "new"
    <3>1. auth'[c] = "newApp" /\ once' = "running" /\ UNCHANGED <<initErr, client>>
      BY <1>4, <1>6, <2>1 DEF EnterOnce
    <3> QED BY <1>2, <1>3, <2>1, <3>1
  <2>2. CASE once = "done"
    <3>1. /\ auth'[c] = IF initErr \/ ~client THEN "failed" ELSE "verify"
          /\ UNCHANGED <<once, initErr, client>>
      BY <1>4, <1>6, <2>2 DEF EnterOnce
    <3> QED BY <1>2, <1>3, <2>2, <3>1
  <2> QED BY <1>6, <2>1, <2>2 DEF EnterOnce
<1>7. CASE NewApp(c) \/ RetryApp(c) \/ NewClient(c)
  <2>1. auth[c] \in Initialising /\ once = "running" /\ ~client /\ ~initErr
    BY <1>7 DEF NewApp, RetryApp, NewClient
  <2>2. \A d \in Calls : d # c => auth'[d] \notin Initialising
                        /\ auth'[d] \notin {"verify", "failed"}
                        /\ ~(auth'[d] = "known" /\ requiresFirebaseToken)
    BY <1>2, <2>1
  <2>3. \/ auth'[c] \in Initialising /\ UNCHANGED <<once, initErr, client>>
        \/ auth'[c] = "once" /\ once' = "done" /\ initErr' = TRUE /\ client' = client
        \/ auth'[c] = "once" /\ once' = "done" /\ client' = TRUE /\ initErr' = initErr
    BY <1>4, <1>7 DEF NewApp, RetryApp, NewClient, InitFails
  <2> QED BY <1>3, <2>1, <2>2, <2>3
<1>8. CASE Verify(c)
  <2>1. auth[c] = "verify" /\ UNCHANGED <<once, initErr, client>>
    BY <1>8 DEF Verify
  <2>2. auth'[c] \in {"known", "denied"}
    BY <1>4, <1>8 DEF Verify, resolveBillingUserID
  <2> QED BY <1>2, <1>3, <2>1, <2>2
<1> QED BY <1>5, <1>6, <1>7, <1>8 DEF AuthStep

\* Whoever becomes known is whom the token was issued to, if a token is required.
LEMMA KnownIsProven ==
    ASSUME AuthTypeOK, NEW c \in Calls, Authenticate(c) \/ AuthStep(c), auth'[c] = "known"
    PROVE  /\ requiresFirebaseToken => uid'[c] = credential[c].token
           /\ ~credential[c].admin =>
                credential[c].body \in {NoUser, uid'[c]} /\ uid'[c] \in Users
<1> USE UsersAssumption DEF AuthTypeOK, Goto, Known, Initialising, Credentials
<1>1. ASSUME NEW user \in Users \cup {NoUser}, resolveBillingUserID(c, user)
      PROVE  /\ user # NoUser => uid'[c] = user
             /\ credential[c].body \in {NoUser, uid'[c]} /\ uid'[c] \in Users
  <2> DEFINE named == {credential[c].body, user} \ {NoUser}
  <2>1. ~Goto(c, "denied")
    OBVIOUS
  <2>2. PICK one \in named : named = {one} /\ Known(c, one)
    BY <1>1, <2>1 DEF resolveBillingUserID
  <2>3. uid'[c] = one
    BY <2>2
  <2> QED BY <2>2, <2>3
<1>2. CASE Authenticate(c)
  BY <1>1, <1>2 DEF Authenticate
<1>3. CASE Verify(c)
  BY <1>1, <1>3 DEF Verify
<1>4. ASSUME EnterOnce(c) \/ NewApp(c) \/ RetryApp(c) \/ NewClient(c) PROVE FALSE
  BY <1>4 DEF EnterOnce, NewApp, RetryApp, NewClient, InitFails
<1> QED BY <1>2, <1>3, <1>4 DEF AuthStep

\* Who is billed stays proven by a step of a request.
LEMMA IdentityStep ==
    ASSUME AuthTypeOK, UserInv, IdentityIsProven, NEW c \in Calls,
           Authenticate(c) \/ AuthStep(c)
    PROVE  UserInv' /\ IdentityIsProven'
<1>1. Frame(c)
  BY StepFrame
<1>2. \A d \in Calls : d # c => auth'[d] = auth[d] /\ uid'[d] = uid[d]
  BY <1>1, Others
<1>3. credential' = credential /\ requiresFirebaseToken' = requiresFirebaseToken
  BY <1>1 DEF Frame, requiresFirebaseToken
<1> QED BY <1>2, <1>3, KnownIsProven DEF UserInv, IdentityIsProven

\* A step of a request lets no removed admin in.
LEMMA RevocationStep ==
    ASSUME AuthTypeOK, LateInv, RevocationIsImmediate, NEW c \in Calls,
           Authenticate(c) \/ AuthStep(c)
    PROVE  LateInv' /\ RevocationIsImmediate'
<1>1. Frame(c)
  BY StepFrame
<1>2. \A d \in Calls : d # c => auth'[d] = auth[d]
  BY <1>1, Others
<1>3. credential' = credential /\ requiresFirebaseToken' = requiresFirebaseToken
  BY <1>1 DEF Frame, requiresFirebaseToken
<1> USE DEF LateInv, RevocationIsImmediate
<1>4. CASE Authenticate(c)
  <2>1. revoked' = revoked /\ late' \subseteq late \cup {c}
        /\ (late' # late => credential[c].token \in revoked)
    BY <1>4 DEF Authenticate
  <2>2. ~(auth'[c] = "known" /\ requiresFirebaseToken)
    BY <1>4 DEF Authenticate, Goto, Known, AuthTypeOK
  <2> QED BY <1>2, <1>3, <2>1, <2>2
<1>5. CASE AuthStep(c)
  <2>1. UNCHANGED <<revoked, late>>
    BY <1>5 DEF AuthStep, EnterOnce, NewApp, RetryApp, NewClient, Verify
  <2>2. auth'[c] = "known" /\ credential[c].admin => credential[c].token \notin revoked
    BY <1>5 DEF AuthStep, EnterOnce, NewApp, RetryApp, NewClient, Verify, InitFails,
                Goto, Known, Checked, AuthTypeOK
  <2> QED BY <1>2, <1>3, <2>1, <2>2
<1> QED BY <1>4, <1>5

-----------------------------------------------------------------------------

\* The inductive invariant holds before anybody has asked.
LEMMA AuthInvInit ==
    ASSUME AuthInit PROVE AuthInv
BY DEF AuthInit, AuthInv, AuthTypeOK, OnceInv, UserInv, IdentityIsProven, LateInv,
       RevocationIsImmediate, Initialising

\* The inductive invariant survives every step of the verifier, and a revocation.
LEMMA AuthInvStep ==
    ASSUME AuthInv, [AuthNext]_authVars
    PROVE  AuthInv'
<1> USE DEF AuthInv
<1>1. ASSUME NEW c \in Calls, Authenticate(c) \/ AuthStep(c) PROVE AuthInv'
  BY <1>1, TypeStep, OnceStep, IdentityStep, RevocationStep
<1>2. ASSUME NEW user \in Admins, Revoke(user) PROVE AuthInv'
  BY <1>2, UsersAssumption
     DEF Revoke, AuthTypeOK, OnceInv, UserInv, IdentityIsProven, LateInv, RevocationIsImmediate,
         requiresFirebaseToken, verifier
<1>3. CASE UNCHANGED authVars
  BY <1>3 DEF authVars, AuthTypeOK, OnceInv, UserInv, IdentityIsProven, LateInv,
              RevocationIsImmediate, requiresFirebaseToken, verifier
<1> QED BY <1>1, <1>2, <1>3 DEF AuthNext

\* Authentication stays in the states that its inductive invariant describes.
THEOREM AuthSafe == AuthSpec => []AuthInv
<1>1. AuthInit => AuthInv
  BY AuthInvInit
<1>2. AuthInv /\ [AuthNext]_authVars => AuthInv'
  BY AuthInvStep
<1> QED BY <1>1, <1>2, PTL DEF AuthSpec

\* The two properties of the client are part of the inductive invariant.
LEMMA InvShares ==
    ASSUME AuthInv PROVE ClientIsShared /\ OneFateForAll
BY DEF AuthInv, OnceInv, ClientIsShared, OneFateForAll

=============================================================================
