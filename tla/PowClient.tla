----------------------------- MODULE PowClient -----------------------------
(***************************************************************************)
(* Runs of the Lab 1 program (main.py, client.py) on one machine, and the  *)
(* Lab 1 server they submit to: check the arguments, search a nonce, make  *)
(* the library available (LibsodiumBootstrap), submit once, wait.          *)
(*                                                                         *)
(* The server is not in the repository; it is modelled from the responses  *)
(* docs/Lab1.md lists.  `mail` and `replies` only grow: a packet arrives   *)
(* never, late, or again.  A reply is sent to an address, and a run that   *)
(* begins when another has ended listens at the same one.                  *)
(***************************************************************************)
EXTENDS LibsodiumBootstrap, ProofOfWork

CONSTANTS
    Email, Url, Key,   \* what users may type, and the key files
    Canonical,         \* canonicalize_email, as a function on Email
    WellFormed,        \* the addresses validate_email accepts
    AllowedUrl,        \* the URLs validate_github_url accepts
    ServedEmail,       \* the addresses and URLs the server takes
    ServedUrl,
    MaxNonce,          \* 2^63 - 1 in the program
    Digest,            \* SHA-256 of email, URL and nonce, as a function
    ServerDifficulty,  \* leading zero bits the server asks for
    Arguments,         \* the command lines of this instance
    MaxPort,           \* bound on the ports
    None               \* no nonce, no reply, no email

Nonce == 0..MaxNonce
Argument == [key: Key, email: Email, asTyped: BOOLEAN, url: Url, difficulty: Nat,
             mineOnly: BOOLEAN, submitOnly: BOOLEAN, nonce: Nat \cup {None}]

ASSUME ArgumentsAssumption == Arguments \subseteq Argument
ASSUME EmailAssumption ==
    Canonical \in [Email -> Email] /\ WellFormed \cup ServedEmail \subseteq Email
ASSUME UrlAssumption == AllowedUrl \cup ServedUrl \subseteq Url
ASSUME PowAssumption ==
    /\ MaxNonce \in Nat /\ MaxPort \in Nat /\ ServerDifficulty \in Nat
    /\ Digest \in [Email \X Url \X Nonce -> Seq(Byte)]
ASSUME NobodyAssumption == None \notin Nat \cup Email

VARIABLES
    args,        \* the command line of each run
    stage,       \* where each run is
    tried,       \* the nonce it tries, then submits
    port,        \* where its IPv8 listens, or 0
    response,    \* LabPowCommunity._response, or None
    outcome,     \* what the program shows at its end
    mail,        \* submissions sent
    replies,     \* replies sent
    registered,  \* the server: the email of each key, or None
    accepted     \* the server: the submissions it has accepted

clientVars == <<args, stage, tried, port, response, outcome, mail, replies, registered, accepted>>
vars == <<bootVars, clientVars>>

Port == 1..MaxPort
Submission == [run: Process, key: Key, email: Email, url: Url, nonce: Nonce]
Reply == [from: {"server", "peer"}, to: Port, success: BOOLEAN, about: Submission \cup {None}]

\* What a classmate's client may send to anybody.
PeerReplies == {[from |-> "peer", to |-> a, success |-> TRUE, about |-> None] : a \in Port}

EmailOf(p) == IF args[p].asTyped THEN args[p].email ELSE Canonical[args[p].email]
DigestOf(p, n) == Digest[<<EmailOf(p), args[p].url, n>>]
Solves(p, n) == IsValidPow(DigestOf(p, n), args[p].difficulty)

\* The preimage is canonicalized, the submission is not.
BrokenSubmissionOf(p) ==
    [run |-> p, key |-> args[p].key, email |-> args[p].email, url |-> args[p].url, nonce |-> tried[p]]

SubmissionOf(p) ==
    [run |-> p, key |-> args[p].key, email |-> EmailOf(p), url |-> args[p].url, nonce |-> tried[p]]

Stop(p, o) ==
    /\ stage' = [stage EXCEPT ![p] = "ended"]
    /\ outcome' = [outcome EXCEPT ![p] = o]
Offline == <<args, port, response, mail, replies, registered, accepted>>

-----------------------------------------------------------------------------
(* main(): arguments and search                                            *)

\* Only a nonce that is to be submitted is checked.
BrokenArgumentsValid(p) ==
    /\ EmailOf(p) \in WellFormed /\ args[p].url \in AllowedUrl
    /\ args[p].submitOnly =>
          args[p].nonce # None /\ args[p].nonce \in Nonce /\ Solves(p, args[p].nonce)

\* validate_email(), validate_github_url(), and the checks of mine_or_use_nonce()
ArgumentsValid(p) ==
    /\ EmailOf(p) \in WellFormed /\ args[p].url \in AllowedUrl
    /\ args[p].nonce \in Nonce \cup {None}
    /\ args[p].submitOnly => args[p].nonce # None /\ Solves(p, args[p].nonce)

Begin(p) ==
    /\ stage[p] = "start"
    /\ IF ArgumentsValid(p)
       THEN /\ stage' = [stage EXCEPT ![p] = IF args[p].submitOnly THEN "solved" ELSE "mining"]
            /\ tried' = [tried EXCEPT ![p] = IF args[p].nonce = None THEN 0 ELSE args[p].nonce]
            /\ UNCHANGED outcome
       ELSE Stop(p, "error") /\ UNCHANGED tried
    /\ UNCHANGED <<Offline, bootVars>>

\* The next nonce is tried before the last one is looked at.
BrokenMine(p) ==
    /\ stage[p] = "mining" /\ tried[p] < MaxNonce
    /\ tried' = [tried EXCEPT ![p] = @ + 1]
    /\ IF Solves(p, tried[p] + 1) THEN stage' = [stage EXCEPT ![p] = "solved"] ELSE UNCHANGED stage
    /\ UNCHANGED <<outcome, Offline, bootVars>>

\* One turn of the loop of mine_pow()
Mine(p) ==
    /\ stage[p] = "mining"
    /\ CASE Solves(p, tried[p]) ->
              stage' = [stage EXCEPT ![p] = "solved"] /\ UNCHANGED <<tried, outcome>>
         [] ~Solves(p, tried[p]) /\ tried[p] < MaxNonce ->
              tried' = [tried EXCEPT ![p] = @ + 1] /\ UNCHANGED <<stage, outcome>>
         [] OTHER -> Stop(p, "error") /\ UNCHANGED tried
    /\ UNCHANGED <<Offline, bootVars>>

MineOnly(p) ==
    /\ stage[p] = "solved" /\ args[p].mineOnly
    /\ Stop(p, "mined")
    /\ UNCHANGED <<tried, Offline, bootVars>>

-----------------------------------------------------------------------------
(* submit_pow(): the library, then IPv8                                    *)

\* build_lab_pow_community() asks once more and finds what the first call has found.
Ensure(p) ==
    /\ stage[p] = "solved" /\ ~args[p].mineOnly
    /\ EnsureLibsodium(p)
    /\ UNCHANGED clientVars

Bootstrap(p) == Work(p) /\ UNCHANGED clientVars
Downloaded(p) == Download(p) /\ UNCHANGED clientVars

\* The loader, external.  On Windows it looks into the folder found; elsewhere a running
\* process need not look at a search path that has changed, nor at an unlisted folder.
Loadable == IF env.fits THEN "preferred" ELSE "other"
MayLoad(p) == found[p] = "bin" => disk["bin"] = Loadable
MayNotLoad(p) == found[p] = "unlisted" \/ (found[p] = "bin" /\ ~env.windows) \/ ~MayLoad(p)

Free(a) == \A q \in Process : stage[q] = "online" => port[q] # a

\* IPv8 takes the first port that is free.
GoOnline(p) ==
    /\ stage[p] = "solved" /\ at[p] = "returned"
    /\ MayLoad(p)
    /\ stage' = [stage EXCEPT ![p] = "online"]
    /\ \E a \in Port :
          /\ Free(a) /\ \A b \in Port : Free(b) => a <= b
          /\ port' = [port EXCEPT ![p] = a]
    /\ UNCHANGED <<args, tried, response, outcome, mail, replies, registered, accepted, bootVars>>

CannotLoad(p) ==
    /\ stage[p] = "solved"
    /\ at[p] = "failed" \/ (at[p] = "returned" /\ MayNotLoad(p))
    /\ Stop(p, "error")
    /\ UNCHANGED <<tried, Offline, bootVars>>

\* submit_when_found(): once, when the server has been found and nothing heard.
Submit(p) ==
    /\ stage[p] = "online"
    /\ response[p] = None
    /\ mail' = mail \cup {SubmissionOf(p)}
    /\ UNCHANGED <<args, stage, tried, port, response, outcome, replies, registered, accepted, bootVars>>

\* Whoever answers is believed.
BrokenOnResponse(p, r) ==
    /\ stage[p] = "online" /\ r.to = port[p]
    /\ response' = [response EXCEPT ![p] = r]
    /\ UNCHANGED <<args, stage, tried, port, outcome, mail, replies, registered, accepted, bootVars>>

\* on_response(): the server's, to whomever it was sent.
OnResponse(p, r) ==
    /\ stage[p] = "online" /\ r.to = port[p]
    /\ r.from = "server"
    /\ response' = [response EXCEPT ![p] = r]
    /\ UNCHANGED <<args, stage, tried, port, outcome, mail, replies, registered, accepted, bootVars>>

\* wait_for_response() returns, and main() shows the verdict.
Verdict(p) ==
    /\ stage[p] = "online" /\ response[p] # None
    /\ Stop(p, IF response[p].success THEN "accepted" ELSE "rejected")
    /\ UNCHANGED <<tried, Offline, bootVars>>

\* The deadline is not passed on to wait_for().
BrokenTimesOut(p) == FALSE /\ stage[p] = "online" /\ UNCHANGED vars

\* The deadline of wait_for_response(), which a response may just have missed.
TimesOut(p) ==
    /\ stage[p] = "online"
    /\ Stop(p, "error")
    /\ UNCHANGED <<tried, Offline, bootVars>>

\* The program is interrupted, in ensure_libsodium or elsewhere.
Killed(p) ==
    /\ stage[p] \in {"mining", "solved", "online"}
    /\ Crash(p) \/ (~Active(p) /\ UNCHANGED bootVars)
    /\ Stop(p, "killed")
    /\ UNCHANGED <<tried, Offline>>

-----------------------------------------------------------------------------
\* The server, external: address and URL, the proof of work, then one email per key.
Takes(m) == m.email \in ServedEmail /\ m.url \in ServedUrl
Valid(m) ==
    /\ Takes(m)
    /\ BeginsWithZeros(Digest[<<m.email, m.url, m.nonce>>], ServerDifficulty)
Registrable(m) == registered[m.key] \in {None, Canonical[m.email]}
Serve(m) ==
    LET ok == Valid(m) /\ Registrable(m) IN
    /\ replies' = replies \cup
          {[from |-> "server", to |-> port[m.run], success |-> ok, about |-> m]}
    /\ IF ok
       THEN /\ registered' = [registered EXCEPT ![m.key] = Canonical[m.email]]
            /\ accepted' = accepted \cup {m}
       ELSE UNCHANGED <<registered, accepted>>
    /\ UNCHANGED <<args, stage, tried, port, response, outcome, mail, bootVars>>

-----------------------------------------------------------------------------
Init ==
    /\ BootInit
    /\ args \in [Process -> Arguments]
    /\ stage = [p \in Process |-> "start"]
    /\ tried = [p \in Process |-> 0]
    /\ port = [p \in Process |-> 0]
    /\ response = [p \in Process |-> None]
    /\ outcome = [p \in Process |-> "none"]
    /\ mail = {}
    /\ replies = PeerReplies
    /\ registered = [k \in Key |-> None]
    /\ accepted = {}

Run(p) ==
    \/ Mine(p) \/ MineOnly(p) \/ Ensure(p) \/ Bootstrap(p) \/ GoOnline(p) \/ CannotLoad(p)
    \/ Verdict(p) \/ TimesOut(p)
Next ==
    \/ \E p \in Process :
          \/ Begin(p) \/ Run(p) \/ Downloaded(p) \/ Submit(p) \/ Killed(p)
          \/ \E r \in replies : OnResponse(p, r)
    \/ \E m \in mail : Serve(m)

\* A run that has begun goes on, and its deadline passes; a download may never end.
Spec == Init /\ [][Next]_vars
FairSpec == Spec /\ \A p \in Process : WF_vars(Run(p))
-----------------------------------------------------------------------------
(* What a run of the program may be relied upon for.                       *)

\* Every variable holds values of its kind.
TypeOK ==
    /\ BootTypeOK
    /\ args \in [Process -> Argument]
    /\ stage \in [Process -> {"start", "mining", "solved", "online", "ended"}]
    /\ tried \in [Process -> Nonce]
    /\ port \in [Process -> Nat]
    /\ response \in [Process -> Reply \cup {None}]
    /\ outcome \in [Process -> {"none", "mined", "accepted", "rejected", "error", "killed"}]
    /\ mail \subseteq Submission
    /\ replies \subseteq Reply
    /\ registered \in [Key -> Email \cup {None}]
    /\ accepted \subseteq mail

\* Who has searched has the first solution from where it began, by the bits the
\* server counts; who brings a nonce goes on only with a solution.
SolvedIsFirst ==
    \A p \in Process : stage[p] \in {"solved", "online"} =>
        LET zeros(n) == BeginsWithZeros(DigestOf(p, n), args[p].difficulty) IN
        /\ zeros(tried[p])
        /\ ~args[p].submitOnly =>
              \A n \in Nonce : zeros(n) =>
                  n >= tried[p] \/ (args[p].nonce # None /\ n < args[p].nonce)

\* A run that asks for no less than the server is told no only for its address or
\* URL, or if its key is registered with another address: never for its nonce.
RejectedHasCause ==
    \A r \in replies :
        r.from = "server" /\ ~r.success /\ args[r.about.run].difficulty >= ServerDifficulty =>
            ~Takes(r.about) \/ registered[r.about.key] \notin {None, Canonical[r.about.email]}

\* A verdict is the server's, on the submission of this run or of one that listened
\* at the same address and has ended; "accepted" means that the server has accepted it.
VerdictIsServers ==
    \A p \in Process : response[p] # None =>
        LET m == response[p].about IN
        /\ response[p].from = "server" /\ m \in mail
        /\ m.run = p \/ (port[m.run] = port[p] /\ stage[m.run] = "ended")
        /\ response[p].success => m \in accepted

\* A run that has begun comes to its end, whatever is lost and whoever is killed,
\* unless it is blocked in the download, which no deadline covers.
EveryRunEnds ==
    \A p \in Process :
        stage[p] # "start" ~> (stage[p] = "ended" \/ [](at[p] = "download"))
=============================================================================
