-------------------------------- MODULE Auth --------------------------------
(***************************************************************************)
(* Who a request is billed to (src/pkg/auth): the calling service proves   *)
(* itself in production, the user's Firebase token is verified except in   *)
(* dev, and the token's user wins over the one that the body names.        *)
(*                                                                         *)
(* The Firebase client is made once, by the first request that needs it,   *)
(* under a sync.Once: the others wait, and what came of it stays for the   *)
(* life of the process.  Statuses are reduced to denied (4xx) and failed   *)
(* (500); tokens are reduced to whom they were issued to.                  *)
(***************************************************************************)

EXTENDS Requests

CONSTANTS
    Users,
    Admins,  \* users whose tokens carry the admin claim
    NoUser   \* a missing user id

ASSUME UsersAssumption == Admins \subseteq Users /\ NoUser \notin Users

Modes == {"dev", "dev_strict", "production"}

\* caller: whether the service's OIDC token passes; token: the user it belongs to;
\* body: the user id in the body or the path; admin: an /v1/admin route.
Credentials == [caller : BOOLEAN, token : Users \cup {"missing", "invalid"},
                body : Users \cup {NoUser}, admin : BOOLEAN]

VARIABLES
    mode,        \* AUTH_MODE
    credential,  \* what each request carries
    auth,        \* how far its authentication is
    uid,         \* whom it is billed to, once that is known
    once, initErr, client,  \* the Verifier
    revoked,     \* users whose tokens Firebase has revoked
    late         \* history: requests that came after the revocation of their token

verifier == <<once, initErr, client>>
authVars == <<mode, credential, auth, uid, verifier, revoked, late>>

Initialising == {"newApp", "retryApp", "newClient"}
Decided == {"known", "denied", "failed"}

AuthInit ==
    /\ mode \in Modes
    /\ credential \in [Calls -> Credentials]
    /\ auth = [c \in Calls |-> "idle"]
    /\ uid = [c \in Calls |-> NoUser]
    /\ once = "new" /\ initErr = FALSE /\ client = FALSE
    /\ revoked = {}
    /\ late = {}

Goto(c, place) == auth' = [auth EXCEPT ![c] = place] /\ UNCHANGED uid

Known(c, user) ==
    /\ auth' = [auth EXCEPT ![c] = "known"]
    /\ uid' = [uid EXCEPT ![c] = user]

requiresFirebaseToken == mode \in {"production", "dev_strict"}

\* Mutant of resolveBillingUserID: the body wins.
BodyWins(c, firebaseUID) ==
    LET body == credential[c].body
    IN  IF body = NoUser /\ firebaseUID = NoUser THEN Goto(c, "denied")
        ELSE Known(c, IF body = NoUser THEN firebaseUID ELSE body)

\* The token and the body must between them name one user.
resolveBillingUserID(c, firebaseUID) ==
    LET named == {credential[c].body, firebaseUID} \ {NoUser}
    IN  \/ \E user \in named : named = {user} /\ Known(c, user)
        \/ (\A user \in named : named # {user}) /\ Goto(c, "denied")

\* verifyCaller and the checks before the client is needed.  The caller's token is
\* checked against Google's certificates, which may be out of reach.
Authenticate(c) ==
    LET passed == mode = "production" => credential[c].caller
        token  == credential[c].token
    IN  /\ auth[c] = "idle"
        /\ \/ mode = "production" /\ Goto(c, "denied")
           \/ passed /\ ~requiresFirebaseToken /\ credential[c].admin /\ Known(c, NoUser)
           \/ passed /\ ~requiresFirebaseToken /\ ~credential[c].admin
              /\ resolveBillingUserID(c, NoUser)
           \/ passed /\ requiresFirebaseToken /\ token = "missing" /\ Goto(c, "denied")
           \/ passed /\ requiresFirebaseToken /\ token # "missing" /\ Goto(c, "once")
        /\ late' = IF token \in revoked THEN late \cup {c} ELSE late
        /\ UNCHANGED <<mode, credential, verifier, revoked>>

\* initOnce.Do: the first one runs the function, the others wait until it is done.
EnterOnce(c) ==
    /\ auth[c] = "once"
    /\ \/ once = "new" /\ once' = "running" /\ Goto(c, "newApp")
       \/ once = "done" /\ UNCHANGED once
          /\ Goto(c, IF initErr \/ ~client THEN "failed" ELSE "verify")
    /\ UNCHANGED <<mode, credential, initErr, client, revoked, late>>

\* Mutant of InitFails: the next request may try again.
InitFailsOpen(c) ==
    /\ once' = "new" /\ UNCHANGED <<initErr, client>>
    /\ Goto(c, "failed")

\* Each step of the function may fail.  It then returns with initErr set.
InitFails(c) ==
    /\ initErr' = TRUE /\ once' = "done" /\ UNCHANGED client
    /\ Goto(c, "once")

NewApp(c) ==
    /\ auth[c] = "newApp"
    /\ \/ Goto(c, "newClient") /\ UNCHANGED verifier
       \/ mode = "production" /\ InitFails(c)
       \/ mode # "production" /\ Goto(c, "retryApp") /\ UNCHANGED verifier
    /\ UNCHANGED <<mode, credential, revoked, late>>

\* Mutant of RetryApp: tries until it works.
RetryForever(c) ==
    /\ auth[c] = "retryApp"
    /\ Goto(c, "newClient") \/ Goto(c, "newApp")
    /\ UNCHANGED <<mode, credential, verifier, revoked, late>>

\* Without credentials, for tokens can be verified without them.
RetryApp(c) ==
    /\ auth[c] = "retryApp"
    /\ \/ Goto(c, "newClient") /\ UNCHANGED verifier
       \/ InitFails(c)
    /\ UNCHANGED <<mode, credential, revoked, late>>

NewClient(c) ==
    /\ auth[c] = "newClient"
    /\ \/ client' = TRUE /\ once' = "done" /\ UNCHANGED initErr /\ Goto(c, "once")
       \/ InitFails(c)
    /\ UNCHANGED <<mode, credential, revoked, late>>

\* Mutant of Checked: revocation is not asked for.
Unchecked(c) == TRUE

\* VerifyIDTokenAndCheckRevoked for admins, VerifyIDToken for everybody else.
Checked(c) == credential[c].admin => credential[c].token \notin revoked

\* Firebase may be out of reach, which looks like an invalid token.
Verify(c) ==
    LET user == credential[c].token
    IN  /\ auth[c] = "verify"
        /\ \/ Goto(c, "denied")
           \/ /\ user \in Users /\ Checked(c)
              /\ IF ~credential[c].admin THEN resolveBillingUserID(c, user)
                 ELSE IF user \in Admins THEN Known(c, user)
                 ELSE Goto(c, "denied")
        /\ UNCHANGED <<mode, credential, verifier, revoked, late>>

\* A user's tokens are withdrawn.  Only the admin routes ask for that.
Revoke(user) ==
    /\ user \notin revoked
    /\ \E c \in Calls : credential[c].admin /\ credential[c].token = user
    /\ revoked' = revoked \cup {user}
    /\ UNCHANGED <<mode, credential, auth, uid, verifier, late>>

AuthStep(c) == EnterOnce(c) \/ NewApp(c) \/ RetryApp(c) \/ NewClient(c) \/ Verify(c)

AuthNext ==
    \/ \E c \in Calls : Authenticate(c) \/ AuthStep(c)
    \/ \E user \in Admins : Revoke(user)

AuthSpec == AuthInit /\ [][AuthNext]_authVars

-----------------------------------------------------------------------------
(* Properties *)

AuthTypeOK ==
    /\ mode \in Modes
    /\ credential \in [Calls -> Credentials]
    /\ auth \in [Calls -> {"idle", "once", "verify"} \cup Initialising \cup Decided]
    /\ uid \in [Calls -> Users \cup {NoUser}]
    /\ once \in {"new", "running", "done"} /\ initErr \in BOOLEAN /\ client \in BOOLEAN
    /\ revoked \subseteq Users
    /\ late \subseteq Calls

\* Nobody sees a client that is still being made: at most one request makes it, no
\* token is verified without it, and no request fails unless making it failed.
ClientIsShared ==
    /\ \A c \in Calls : auth[c] = "verify" => client /\ ~initErr
    /\ \A c \in Calls : auth[c] = "failed" => initErr /\ once = "done"
    /\ \A c, d \in Calls : auth[c] \in Initialising /\ auth[d] \in Initialising => c = d

\* The first attempt decides for the whole process (auth.go:179): if it fails, no
\* request that needs a token is ever let through; if not, none ever fails.
OneFateForAll ==
    \A c, d \in Calls :
        ~(requiresFirebaseToken /\ auth[c] = "failed" /\ auth[d] = "known")

\* All requests of a process meet one Firebase client, or one error, however they
\* race for the first use of it.
OneClientForAll == ClientIsShared /\ OneFateForAll

\* A request is billed to the user of its token where tokens are required, and to
\* nobody whom the body names otherwise.
IdentityIsProven ==
    \A c \in Calls : auth[c] = "known" =>
        /\ requiresFirebaseToken => uid[c] = credential[c].token
        /\ ~credential[c].admin => credential[c].body \in {NoUser, uid[c]}

\* auth.go:131-132: removing an admin takes effect at once.  A request that
\* comes after the revocation of its token does not pass as an admin.
RevocationIsImmediate ==
    \A c \in Calls :
        auth[c] = "known" /\ credential[c].admin /\ requiresFirebaseToken => c \notin late

=============================================================================
