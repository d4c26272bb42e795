-------------------------------- MODULE Auth --------------------------------
(***************************************************************************)
(* User authentication of one server session: svr-auth.c, svr-authpasswd.c,*)
(* svr-authpubkey.c, svr-service.c, the gate that process_packet keeps     *)
(* before authdone, and the authentication timeout.                        *)
(*                                                                         *)
(* The client sends any sequence of requests.  A credential is abstracted  *)
(* to the outcome of checking it, and the command line to "opts".  Names   *)
(* are of at most MAX_USERNAME_LEN bytes (a longer one always fails and is *)
(* not remembered).  opts.orbis is the PS4 build: its fixed arguments and  *)
(* its synthetic account.                                                  *)
(***************************************************************************)
EXTENDS Integers

CONSTANTS
    Users,              \* user names clients try
    Valid,              \* those checkusername accepts
    Root,               \* those with uid 0 (or no uid at all)
    Blank,              \* those with an empty password
    MaxPubkeyQueries,   \* MAX_PUBKEY_QUERIES
    Tries,              \* the values of -T to consider
    Builds              \* which builds: TRUE is the PS4 (Orbis) one

NoUser == "none"                \* no name yet (a NULL pointer)
Methods == {"pubkey", "password"}

ASSUME AuthAssumption ==
    /\ NoUser \notin Users
    /\ Valid \subseteq Users /\ Root \subseteq Users /\ Blank \subseteq Valid
    /\ MaxPubkeyQueries \in Nat /\ Tries \subseteq Nat /\ Builds \subseteq BOOLEAN

VARIABLES
    opts,           \* svr_opts, and which build it is
    username,       \* ses.authstate.username
    authtypes, authdone, failcount, queries,
    ended,          \* the session is over (dropbear_exit, dropbear_close)
    \* history
    proven,         \* <<method, user>>: credentials that checked out
    wrong,          \* credentials that did not
    connected       \* a channel or global request was handled

stateVars == <<username, authtypes, authdone, failcount, queries, ended>>
authVars == <<opts, stateVars, proven, wrong, connected>>

\* svr_getopts: -t with -s is refused.  The PS4 arguments set none of them.
AllOptions ==
    [multiauthmethod : BOOLEAN, noauthpass : BOOLEAN, norootpass : BOOLEAN,
     allowblankpass : BOOLEAN, maxauthtries : Tries, orbis : Builds]
Options ==
    {o \in AllOptions :
        /\ ~(o.multiauthmethod /\ o.noauthpass)
        /\ o.orbis => ~(o.multiauthmethod \/ o.noauthpass \/ o.norootpass
                                          \/ o.allowblankpass)}

\* svr_authinitialise
InitialTypes(o) == IF o.noauthpass THEN {"pubkey"} ELSE Methods

AuthInit ==
    /\ opts \in Options
    /\ username = NoUser /\ authtypes = InitialTypes(opts) /\ authdone = FALSE
    /\ failcount = 0 /\ queries = 0 /\ ended = FALSE
    /\ proven = {} /\ wrong = 0 /\ connected = FALSE

-----------------------------------------------------------------------------
\* send_msg_userauth_failure(partial, incrfail)
Failure(incrfail) ==
    /\ failcount' = failcount + (IF incrfail THEN 1 ELSE 0)
    /\ ended' = (failcount' > opts.maxauthtries)

\* checkusername: the first request fixes the name.
SameUser_Unchecked(u) == TRUE
SameUser(u) == username = NoUser \/ u = username

\* recv_msg_userauth_request gets this far with a request for user u.
Requested(u) ==
    /\ ~ended /\ ~authdone /\ SameUser(u)
    /\ username' = u
    /\ UNCHANGED <<opts, connected>>

\* A credential of user u checks out: the last one required is a success,
\* any other a partial one that takes the method off the list.
MoreRequired(m) == opts.multiauthmethod /\ authtypes \ {m} # {}

Proves(m, u) ==
    /\ proven' = proven \cup {<<m, u>>}
    /\ IF MoreRequired(m)
         THEN authtypes' = authtypes \ {m} /\ UNCHANGED authdone
         ELSE authdone' = TRUE /\ UNCHANGED authtypes
    /\ UNCHANGED <<failcount, ended, queries, wrong>>

Fails(incrfail) == Failure(incrfail) /\ UNCHANGED <<authtypes, authdone, proven>>

PasswordAllowed(u) == ~opts.noauthpass /\ ~(opts.norootpass /\ u \in Root)

-----------------------------------------------------------------------------
\* "none": how clients ask for the methods, and a login without a password
\* where that is allowed.
MethodNone(u) ==
    /\ Requested(u)
    /\ IF u \in Blank /\ opts.allowblankpass /\ PasswordAllowed(u)
         THEN /\ authdone' = TRUE /\ proven' = proven \cup {<<"none", u>>}
              /\ UNCHANGED <<authtypes, failcount, ended>>
         ELSE Fails(FALSE)
    /\ UNCHANGED <<queries, wrong>>

\* svr_auth_password, the password being right
PasswordGood(u) ==
    /\ Requested(u)
    /\ PasswordAllowed(u) /\ u \in Valid \ Blank
    /\ ~(opts.orbis /\ u \in Root)           \* the synthetic account has no crypt
    /\ Proves("password", u)

\* svr_auth_password for the synthetic account
PasswordOrbis(u) ==
    /\ Requested(u)
    /\ opts.orbis /\ PasswordAllowed(u) /\ u \in Valid \cap Root
    /\ authdone' = TRUE /\ proven' = proven \cup {<<"password", u>>}
    /\ UNCHANGED <<authtypes, failcount, ended, queries, wrong>>

\* A wrong, blank, too long or changed password, an invalid user, a locked
\* account, an unknown method, or passwords when they are not allowed.
PasswordBad(u) ==
    /\ Requested(u)
    /\ Fails(TRUE)
    /\ wrong' = wrong + 1
    /\ UNCHANGED queries

\* svr_auth_pubkey; an invalid user or unknown algorithm is never counted.  A
\* query for a known key (PK_OK) changes no more than this.
PubkeyRefused(u) ==
    /\ Requested(u)
    /\ Fails(FALSE)
    /\ UNCHANGED <<queries, wrong>>

\* The key is not one of the user's: free up to a limit, then counted.
FreeQueries ==
    IF MaxPubkeyQueries > opts.maxauthtries
    THEN MaxPubkeyQueries - opts.maxauthtries ELSE 0

Counted_Never == FALSE
Counted == queries >= FreeQueries

PubkeyUnknown(u) ==
    /\ Requested(u) /\ u \in Valid
    /\ Fails(Counted)
    /\ queries' = queries + 1 /\ wrong' = wrong + 1

\* The key is known but the blob or the signature is bad.
PubkeyBadSignature(u) ==
    /\ Requested(u) /\ u \in Valid
    /\ Fails(TRUE)
    /\ wrong' = wrong + 1
    /\ UNCHANGED queries

PubkeyGood(u) ==
    /\ Requested(u) /\ u \in Valid
    /\ Proves("pubkey", u)

Exit ==
    /\ ended' = TRUE
    /\ UNCHANGED <<opts, username, authtypes, authdone, failcount, queries,
                   proven, wrong, connected>>

\* "Client trying multiple usernames", "unknown service in auth"
OtherUser(u) == ~ended /\ ~authdone /\ ~SameUser(u) /\ Exit

\* svr-service.c, and process_packet's gate for types above 60: before
\* authdone a connection request or a connection packet ends the session.
ConnectionAllowed == authdone

Connection ==
    /\ ~ended
    /\ IF ConnectionAllowed
         THEN connected' = TRUE /\ UNCHANGED <<opts, stateVars, proven, wrong>>
         ELSE Exit

\* checktimeouts: AUTH_TIMEOUT; and the client may leave at any time.
AuthTimeout == ~ended /\ ~authdone /\ Exit
Leave == ~ended /\ Exit

Request(u) ==
    \/ MethodNone(u) \/ PasswordGood(u) \/ PasswordOrbis(u) \/ PasswordBad(u)
    \/ PubkeyRefused(u) \/ PubkeyUnknown(u) \/ PubkeyBadSignature(u)
    \/ PubkeyGood(u) \/ OtherUser(u)

AuthNext == Connection \/ AuthTimeout \/ Leave \/ \E u \in Users : Request(u)

AuthSpec == AuthInit /\ [][AuthNext]_authVars

-----------------------------------------------------------------------------
\* A session is logged in only after every method the options require was
\* proven, over however many requests, and all of them for the one user the
\* session then runs as; the only other way is an allowed blank password.
\* Before that no channel or global request is handled.
LoginProven ==
    authdone \/ connected =>
        /\ username \in Valid
        /\ \/ <<"none", username>> \in proven /\ opts.allowblankpass
           \/ /\ ~opts.multiauthmethod
              /\ \E m \in Methods : <<m, username>> \in proven
           \/ \A m \in InitialTypes(opts) : <<m, username>> \in proven

\* Whatever methods a client mixes, no connection goes on, logged in or not,
\* after more than maxauthtries wrong credentials on top of the free key
\* queries.  (It is the one after them that ends it: where the manual speaks of
\* maxauthtries attempts allowed, one more is checked, and that one may succeed.)
GuessesBounded == ~ended => wrong <= opts.maxauthtries + FreeQueries

=============================================================================
