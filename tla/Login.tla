-------------------------------- MODULE Login --------------------------------
(***************************************************************************)
(* EduPageClient.connect: the requests from the login page to the userhome *)
(* payload, and the session that EduPage keeps for them.                   *)
(*                                                                         *)
(* `call` is the request that comes next.  Every request can fail, and     *)
(* EduPage can answer it in each way that the code tells apart.  In mode   *)
(* "session" the PHPSESSID belongs to a browser, in which a person can     *)
(* choose another student or log out.                                      *)
(***************************************************************************)
EXTENDS Naturals

CONSTANTS
  Child,       \* the students that the account's session can show
  Wanted,      \* config edupage.child_person_id
  NoOne,       \* no student: the session is not logged in
  Modes,       \* config edupage.auth.mode, one of them
  MaxLeft      \* the two-factor deadline, in intervals between two polls

ASSUME LoginAssumption ==
  /\ Wanted \in Child /\ NoOne \notin Child
  /\ Modes \subseteq {"password", "session"}
  /\ MaxLeft \in Nat

VARIABLES
  mode,
  session,     \* the session at EduPage: whose homework it shows, or NoOne if logged out
  call,        \* the next request; "out": not connected, "in": connected
  rounds,      \* token rounds of _rpc_login that the server has rejected
  sent,        \* how often this connect has sent the credentials
  refused,     \* was it shown a captcha, or told that the credentials are wrong?
  left         \* what is left of the two-factor deadline

login == <<mode, session, call, rounds, sent, refused, left>>

Calls == {"page", "token", "login", "redirect", "twofactor", "poll", "complete",
          "formpage", "form", "probe", "switch", "userhome"}

Session == Child \cup {NoOne}

LoginTypeOK ==
  /\ mode \in Modes /\ session \in Session
  /\ call \in Calls \cup {"out", "in"} /\ rounds \in 0 .. 2 /\ sent \in 0 .. 3
  /\ refused \in BOOLEAN /\ left \in 0 .. MaxLeft

LoginInit ==
  /\ mode \in Modes /\ session \in IF mode = "session" THEN Child ELSE {NoOne}
  /\ call = "out" /\ rounds = 0 /\ sent = 0 /\ refused = FALSE /\ left = 0

---------------------------------------------------------------------------
(* The session changes at EduPage's side.                                  *)

SessionChanges(s) == session' = s /\ UNCHANGED <<mode, call, rounds, sent, refused, left>>

\* EduPage drops the session, or the person logs out.
SessionEnds == session # NoOne /\ SessionChanges(NoOne)

BrowserSwitches ==
  /\ mode = "session" /\ session # NoOne
  /\ \E c \in Child \ {session} : SessionChanges(c)

\* The operator puts a fresh PHPSESSID into the configuration.
Reseed ==
  /\ mode = "session" /\ session = NoOne /\ call = "out"
  /\ \E c \in Child : SessionChanges(c)

---------------------------------------------------------------------------
(* How a request leads to the next one.                                    *)

Goto(c) == call' = c /\ UNCHANGED <<mode, session, rounds, sent, refused, left>>

\* The session may be logged in now; the code cannot tell yet.
Enter(c, s) == call' = c /\ session' = s /\ UNCHANGED <<mode, rounds, sent, refused, left>>

\* The credentials go out once more.
Sends(c, s) ==
  call' = c /\ sent' = sent + 1 /\ session' = s /\ UNCHANGED <<mode, rounds, refused, left>>

\* The connect is over.  A client that logged in with a password takes its session along.
Leave(c, no) ==
  /\ call' = c /\ refused' = no /\ rounds' = 0 /\ sent' = 0 /\ left' = 0
  /\ session' = IF c = "out" /\ mode = "password" THEN NoOne ELSE session
  /\ UNCHANGED mode

\* An EduPageError of any class ends the run; _run_once turns it into an exit code.
Fails == Leave("out", FALSE)

\* Captcha or bad credentials: a marker in the URL, or the "err" field of the answer.
Refuses == Leave("out", TRUE)

---------------------------------------------------------------------------
(* The requests.                                                           *)

\* A run has a client of its own.
Connect ==
  /\ call = "out" /\ refused' = FALSE
  /\ call' = IF mode = "password" THEN "page" ELSE "probe"
  /\ UNCHANGED <<mode, session, rounds, sent, left>>

\* Any error of a request, but for those of getToken and the transient ones of a poll.
RequestFails == call \in Calls \ {"token"} /\ Fails

LoginPage == call = "page" /\ Goto("token")

\* Without a token, for whatever reason, the login form is used.
GetToken == call = "token" /\ (Goto("login") \/ Goto("formpage"))

\* Mutated form: any error of a round is handed to the form, as those of getToken are.
SubmitLoginFallsBack ==
  /\ call = "login" /\ sent' = sent + 1 /\ call' = "formpage" /\ refused' \in BOOLEAN
  /\ UNCHANGED <<mode, session, rounds, left>>

\* Mutated form: a rejected token is always answered with a new one.
SubmitLoginNoLimit == call = "login" /\ Goto("token")

\* Mutated form: one round too many.
SubmitLoginThreeRounds ==
  /\ call = "login"
  /\ rounds' = rounds + 1 /\ sent' = sent + 1
  /\ call' = IF rounds + 1 <= 2 THEN "token" ELSE "formpage"
  /\ UNCHANGED <<mode, session, refused, left>>

\* _login, and the rest of its round in _rpc_login.
SubmitLogin ==
  /\ call = "login"
  /\ \/ Refuses
     \/ /\ rounds' = rounds + 1 /\ sent' = sent + 1                \* invalid_token
        /\ call' = IF rounds + 1 < 2 THEN "token" ELSE "formpage"
        /\ UNCHANGED <<mode, session, refused, left>>
     \/ Sends("redirect", NoOne)
     \/ \E c \in Child : Sends("switch", c)                        \* "userhome("

FollowRedirect ==
  /\ call = "redirect"
  /\ \/ Refuses \/ Goto("twofactor")
     \/ \E s \in Session : Enter("switch", s)

\* The hidden fields of the two-factor page; without them RequestFails.
TwoFactorPage ==
  /\ call = "twofactor" /\ call' = "poll" /\ left' = MaxLeft
  /\ UNCHANGED <<mode, session, rounds, sent, refused>>

\* checkIfConfirmed: confirmed, or not yet, or a transient error that is passed over.
\* A poll takes its interval, and a slow one the time of several.
Poll ==
  /\ call = "poll" /\ left > 0
  /\ \/ Goto("complete")
     \/ left' \in 0 .. left - 1 /\ UNCHANGED <<mode, session, call, rounds, sent, refused>>

NotConfirmed == call = "poll" /\ left = 0 /\ Fails

Complete == call = "complete" /\ \E s \in Session : Enter("switch", s)

FormPage == call = "formpage" /\ Goto("form")

\* Nothing but the markers of the answer is looked at.
SubmitForm ==
  /\ call = "form"
  /\ \/ Refuses
     \/ \E s \in Session : Sends("switch", s)

\* Mode "session": is the seeded session still good?
Probe == call = "probe" /\ session # NoOne /\ Goto("switch")

\* Mutated form: the answer of switchchild is not looked at.
SwitchChildUnchecked == call = "switch" /\ \E s \in {Wanted, session} : Enter("userhome", s)

\* The answer is "OK"; with any other RequestFails.
SwitchChild == call = "switch" /\ session # NoOne /\ Enter("userhome", Wanted)

\* _load_user; a payload that is missing or malformed is a RequestFails.
LoadUser == call = "userhome" /\ session # NoOne /\ Leave("in", FALSE)

LoginStep ==
  \/ RequestFails \/ LoginPage \/ GetToken \/ SubmitLogin \/ FollowRedirect
  \/ TwoFactorPage \/ Poll \/ NotConfirmed \/ Complete \/ FormPage \/ SubmitForm
  \/ Probe \/ SwitchChild \/ LoadUser

SessionStep == SessionEnds \/ BrowserSwitches \/ Reseed
===============================================================================
