-------------------------- MODULE FinancialService --------------------------
(***************************************************************************)
(* The HTTP service (server.rs, service.rs) while the files it serves from *)
(* are replaced: the native endpoint computes one scale after the other    *)
(* from the supplied corpus, the Telegraph endpoint asks a market data     *)
(* provider and falls back to the corpus, both read a calibration profile  *)
(* per timeframe, and /health/ready audits the same files.                 *)
(*                                                                         *)
(* Handlers run in parallel and share nothing but the file system and the  *)
(* log: an action is what a handler does from one read of a file, or one   *)
(* answer of the provider, to the next.  One instrument is modelled.  A    *)
(* file's content stands for its SHA-256 and for what is computed from it. *)
(***************************************************************************)
EXTENDS Common

CONSTANTS
  Requests,
  Asks,             \* the requests clients send, see AskType
  Pinned,           \* the corpus content the audit expects
  Versions,         \* readable corpus contents, long enough for D1 and W1
  Probed,           \* somebody asks /health/ready
  MaxReplacements,  \* bound: files replaced
  MaxCrashes        \* bound: restarts of the process

Timeframes == {"D1", "W1"}

AskType ==
  [endpoint   : {"NATIVE", "TELEGRAPH"},
   timeframes : Seq(Timeframes) \ {<< >>},   \* distinct for NATIVE
   source     : {"AUTO", "SUPPLIED_CORPUS"}, \* NATIVE is always from the corpus
   accepted   : BOOLEAN,   \* the asset resolves and the options are supported
   mapped     : BOOLEAN]   \* the instrument has a corpus file

(* THIN holds enough bars for D1 indicators but not for W1.                *)
Unfit           == {"ABSENT", "MALFORMED", "THIN"}
CorpusContents  == Versions \cup Unfit
Feeds           == {"FEED", "THIN_FEED"}   \* what a provider answers
ProfileContents == {"ABSENT", "INVALID", "VALID"}

ASSUME VersionAssumption ==
  /\ Pinned \in Versions
  /\ Versions \cap (Unfit \cup Feeds) = {}

ASSUME AskAssumption ==
  /\ Asks \subseteq AskType
  /\ \A a \in Asks : a.endpoint = "TELEGRAPH" => Len(a.timeframes) = 1
  /\ Probed \in BOOLEAN /\ MaxReplacements \in Nat /\ MaxCrashes \in Nat

VARIABLES
  corpus,      \* content of the corpus file
  profiles,    \* content of the profile file of each timeframe
  replaced,    \* how many files have been replaced so far
  crashes,
  logging,     \* init_logging succeeded
  log,         \* the events of each request
  ask,         \* what each request asks for
  job,         \* the handler of each request
  check,       \* one evaluation of readiness
  readySince   \* Option of replaced at the start of the latest READY verdict

files == <<corpus, profiles, replaced>>
vars  == <<files, crashes, logging, log, ask, job, check, readySince>>

Busy   == {"RECEIVED", "PROVIDER", "DIGEST", "LOAD", "PROFILE", "READ", "EVALUATE"}
Stages == Busy \cup {"NEW", "ANSWERED", "CUT"}
Codes  == {0, 200, 400, 500, 503}
Events == {"RECEIVED", "SERVED", "FAILED"}

Scales ==
  [timeframe : Timeframes,
   bars      : CorpusContents \cup Feeds,
   digest    : CorpusContents \cup Feeds,
   profile   : Option({"VALID"})]

Jobs ==
  [stage   : Stages,
   since   : 0..MaxReplacements,                   \* replaced when it was received
   live    : BOOLEAN,
   digest  : Option(CorpusContents \cup Feeds),
   bars    : Option(CorpusContents \cup Feeds),
   profile : Option({"VALID"}),
   left    : Seq(Timeframes),
   scales  : Seq(Scales),
   code    : Codes]

Idle == [stage |-> "NEW", since |-> 0, live |-> FALSE, digest |-> {}, bars |-> {},
         profile |-> {}, left |-> << >>, scales |-> << >>, code |-> 0]

NoCheck == [stage |-> "IDLE", since |-> 0, sound |-> TRUE, pending |-> {}]

ServiceTypeOK ==
  /\ corpus \in CorpusContents
  /\ profiles \in [Timeframes -> ProfileContents]
  /\ replaced \in 0..MaxReplacements /\ crashes \in 0..MaxCrashes
  /\ logging \in BOOLEAN
  /\ log \in [Requests -> Seq(Events)]
  /\ ask \in [Requests -> Asks]
  /\ job \in [Requests -> Jobs]
  /\ check \in [stage : {"IDLE", "LOAD", "LIST", "PROFILES"}, since : 0..MaxReplacements,
                sound : BOOLEAN, pending : SUBSET Timeframes]
  /\ readySince \in Option(0..MaxReplacements)

-----------------------------------------------------------------------------
(* Computation on the contents.                                            *)

(* load_daily_csv.                                                         *)
Readable(content) == content \in Versions \cup Feeds \cup {"THIN"}

(* adapt_closed_bars, replay_frames and the technical channel, which needs *)
(* a minimum of bars of the timeframe.                                     *)
Computable(content, timeframe) ==
  content \in {"THIN", "THIN_FEED"} => timeframe = "D1"

-----------------------------------------------------------------------------
(* What every handler does.                                                *)

Record(r, event) ==
  log' = IF logging THEN [log EXCEPT ![r] = Append(@, event)] ELSE log

Continue(r, next) ==
  /\ job' = [job EXCEPT ![r] = next]
  /\ UNCHANGED log

Fail(r, code) ==
  /\ job' = [job EXCEPT ![r] = [Idle EXCEPT !.stage = "ANSWERED", !.since = job[r].since,
                                            !.code = code]]
  /\ Record(r, "FAILED")

Serve(r, scales) ==
  /\ job' = [job EXCEPT ![r] = [Idle EXCEPT !.stage = "ANSWERED", !.since = job[r].since,
                                            !.live = job[r].live, !.scales = scales,
                                            !.code = 200]]
  /\ Record(r, "SERVED")

Native(r)       == ask[r].endpoint = "NATIVE"
CorpusBacked(r) == Native(r) \/ ask[r].source = "SUPPLIED_CORPUS"

At(r, stage) ==
  /\ job[r].stage = stage
  /\ UNCHANGED <<files, crashes, logging, ask, check, readySince>>

Init ==
  /\ corpus = Pinned
  /\ profiles = [t \in Timeframes |-> "VALID"]
  /\ replaced = 0
  /\ crashes = 0
  /\ logging \in BOOLEAN
  /\ log = [r \in Requests |-> << >>]
  /\ ask \in [Requests -> Asks]
  /\ job = [r \in Requests |-> Idle]
  /\ check = NoCheck
  /\ readySince = {}

(* A request arrives and is logged.                                        *)
Receive(r) ==
  /\ At(r, "NEW")
  /\ job' = [job EXCEPT ![r] = [Idle EXCEPT !.stage = "RECEIVED", !.since = replaced,
                                            !.left = ask[r].timeframes]]
  /\ Record(r, "RECEIVED")

(* Checks that need no data: resolution, options, the corpus mapping.      *)
Validate(r) ==
  /\ At(r, "RECEIVED")
  /\ IF ~ask[r].accepted \/ (CorpusBacked(r) /\ ~ask[r].mapped)
     THEN Fail(r, 400)
     ELSE Continue(r, [job[r] EXCEPT !.stage = CASE Native(r)        -> "LOAD"
                                                 [] ~CorpusBacked(r) -> "PROVIDER"
                                                 [] OTHER            -> "DIGEST"])

(* The provider answers in time: its bars are hashed and evaluated; they   *)
(* are not replaced by the corpus when they turn out to be too few.        *)
ProviderAnswers(r, feed) ==
  /\ At(r, "PROVIDER")
  /\ IF Computable(feed, Head(job[r].left))
     THEN Continue(r, [job[r] EXCEPT !.stage = "PROFILE", !.live = TRUE,
                                     !.digest = {feed}, !.bars = {feed}])
     ELSE Fail(r, 503)

(* No credential, an error, or no answer within PROVIDER_TIMEOUT_SECONDS.  *)
FaultyProviderFails(r) ==
  /\ At(r, "PROVIDER")
  /\ IF ask[r].mapped
     THEN Continue(r, [job[r] EXCEPT !.stage = "DIGEST", !.live = TRUE])
     ELSE Fail(r, 400)
ProviderFails(r) ==
  /\ At(r, "PROVIDER")
  /\ IF ask[r].mapped
     THEN Continue(r, [job[r] EXCEPT !.stage = "DIGEST"])
     ELSE Fail(r, 400)

(* The client goes away: its handler is dropped where it awaits, and the   *)
(* provider is the only thing a handler awaits.                            *)
FaultyDisconnect(r) ==
  /\ At(r, "PROVIDER")
  /\ job' = [job EXCEPT ![r] = [Idle EXCEPT !.stage = "CUT"]]
  /\ Record(r, "FAILED")
Disconnect(r) ==
  /\ At(r, "PROVIDER")
  /\ Continue(r, [Idle EXCEPT !.stage = "CUT"])

(* Telegraph reads the corpus file a first time, for its SHA-256.          *)
FaultyReadDigest(r) ==
  /\ At(r, "DIGEST")
  /\ IF corpus = "ABSENT"
     THEN Fail(r, 503)
     ELSE Continue(r, [job[r] EXCEPT !.stage = "LOAD", !.digest = {Pinned}])
ReadDigest(r) ==
  /\ At(r, "DIGEST")
  /\ IF corpus = "ABSENT"
     THEN Fail(r, 503)
     ELSE Continue(r, [job[r] EXCEPT !.stage = "LOAD", !.digest = {corpus}])

(* The corpus file is loaded.  Native hashes the bars it has loaded;       *)
(* Telegraph runs the technical channel before it looks for a profile.     *)
Loads(r) == Readable(corpus) /\ (Native(r) \/ Computable(corpus, Head(job[r].left)))

FaultyLoad(r) ==
  /\ At(r, "LOAD")
  /\ IF ~Loads(r) THEN Fail(r, 503)
     ELSE Continue(r, [job[r] EXCEPT !.stage = "PROFILE", !.bars = {corpus},
                         !.digest = IF @ = {} THEN {corpus} ELSE @])
Load(r) ==
  /\ At(r, "LOAD")
  /\ IF ~Loads(r) THEN Fail(r, 503)
     ELSE Continue(r, [job[r] EXCEPT !.stage = "PROFILE", !.bars = {corpus},
                         !.digest = IF Native(r) THEN {corpus} ELSE @])

(* A profile is optional: path.is_file()                                   *)
FindProfile(r) ==
  /\ At(r, "PROFILE")
  /\ Continue(r, [job[r] EXCEPT !.profile = {}, !.stage =
                    IF profiles[Head(job[r].left)] = "ABSENT" THEN "EVALUATE" ELSE "READ"])

(* but one that was there must be readable and valid.                      *)
FaultyReadProfile(r) ==
  LET content == profiles[Head(job[r].left)] IN
  /\ At(r, "READ")
  /\ IF content # "ABSENT"
     THEN Continue(r, [job[r] EXCEPT !.stage = "EVALUATE", !.profile = {content}])
     ELSE Fail(r, 503)
ReadProfile(r) ==
  LET content == profiles[Head(job[r].left)] IN
  /\ At(r, "READ")
  /\ IF content = "VALID"
     THEN Continue(r, [job[r] EXCEPT !.stage = "EVALUATE", !.profile = {content}])
     ELSE Fail(r, 503)

(* The scale is complete; the answer is, when it was the last one.         *)
Evaluate(r) ==
  LET j         == job[r]
      timeframe == Head(j.left)
      bars      == CHOOSE b \in j.bars : TRUE
      scales    == Append(j.scales, [timeframe |-> timeframe, bars |-> bars,
                                     digest |-> CHOOSE d \in j.digest : TRUE,
                                     profile |-> j.profile])
  IN
  /\ At(r, "EVALUATE")
  /\ IF ~Computable(bars, timeframe) THEN Fail(r, 500)
     ELSE IF Len(j.left) = 1 THEN Serve(r, scales)
     ELSE Continue(r, [j EXCEPT !.stage = "LOAD", !.left = Tail(@), !.scales = scales,
                                !.bars = {}])

Step(r) ==
  \/ Validate(r)
  \/ \E feed \in Feeds : ProviderAnswers(r, feed)
  \/ ProviderFails(r)
  \/ ReadDigest(r)
  \/ Load(r)
  \/ FindProfile(r)
  \/ ReadProfile(r)
  \/ Evaluate(r)

-----------------------------------------------------------------------------
(* /health/ready.                                                          *)

Checking(stage) ==
  /\ check.stage = stage
  /\ UNCHANGED <<files, crashes, logging, log, ask, job>>

(* audit_file hashes the file                                              *)
HashCorpus ==
  /\ Probed
  /\ Checking("IDLE")
  /\ check' = [NoCheck EXCEPT !.stage = "LOAD", !.since = replaced,
                              !.sound = corpus = Pinned]
  /\ UNCHANGED readySince

(* and loads it again: rows that are not the pinned ones may still cover   *)
(* the pinned dates.                                                       *)
LoadCorpus(covers) ==
  /\ Checking("LOAD")
  /\ check' = [check EXCEPT !.stage = "LIST",
                 !.sound = @ /\ (corpus = Pinned \/ (Readable(corpus) /\ covers))]
  /\ UNCHANGED readySince

(* inspect_profiles lists the profiles; the D1 profile has to be there     *)
ListProfiles ==
  LET present == {t \in Timeframes : profiles[t] # "ABSENT"} IN
  /\ Checking("LIST")
  /\ check' = [check EXCEPT !.stage = "PROFILES", !.pending = present,
                            !.sound = @ /\ "D1" \in present]
  /\ UNCHANGED readySince

(* and each of them is read.                                               *)
FaultyInspectProfile(t) ==
  /\ Checking("PROFILES")
  /\ t \in check.pending
  /\ check' = [check EXCEPT !.pending = @ \ {t},
                            !.sound = @ /\ (t = "D1" => profiles[t] = "VALID")]
  /\ UNCHANGED readySince
InspectProfile(t) ==
  /\ Checking("PROFILES")
  /\ t \in check.pending
  /\ check' = [check EXCEPT !.pending = @ \ {t}, !.sound = @ /\ profiles[t] = "VALID"]
  /\ UNCHANGED readySince

Verdict ==
  /\ Checking("PROFILES")
  /\ check.pending = {}
  /\ readySince' = IF check.sound THEN {check.since} ELSE {}
  /\ check' = NoCheck

HealthReady ==
  \/ HashCorpus
  \/ \E covers \in BOOLEAN : LoadCorpus(covers)
  \/ ListProfiles
  \/ \E t \in Timeframes : InspectProfile(t)
  \/ Verdict

-----------------------------------------------------------------------------
(* The environment: files are replaced or half-written, the process stops  *)
(* and is started again.                                                   *)

ReplaceCorpus ==
  /\ replaced < MaxReplacements
  /\ corpus' \in CorpusContents \ {corpus}
  /\ replaced' = replaced + 1
  /\ UNCHANGED <<profiles, crashes, logging, log, ask, job, check, readySince>>

ReplaceProfile ==
  /\ replaced < MaxReplacements
  /\ \E t \in Timeframes, content \in ProfileContents :
       content # profiles[t] /\ profiles' = [profiles EXCEPT ![t] = content]
  /\ replaced' = replaced + 1
  /\ UNCHANGED <<corpus, crashes, logging, log, ask, job, check, readySince>>

Restart ==
  /\ crashes < MaxCrashes
  /\ crashes' = crashes + 1
  /\ job' = [r \in Requests |->
               IF job[r].stage \in Busy THEN [Idle EXCEPT !.stage = "CUT"] ELSE job[r]]
  /\ check' = NoCheck
  /\ logging' \in BOOLEAN
  /\ UNCHANGED <<files, log, ask, readySince>>

Next ==
  \/ \E r \in Requests : Receive(r) \/ Step(r) \/ Disconnect(r)
  \/ HealthReady
  \/ ReplaceCorpus \/ ReplaceProfile
  \/ Restart

(* A handler is a task of the runtime and runs on; a provider that stays   *)
(* silent is given up after the timeout of its client.                     *)
Fairness == \A r \in Requests : WF_vars(Step(r))

Spec == Init /\ [][Next]_vars

FairSpec == Spec /\ Fairness

-----------------------------------------------------------------------------
(* Properties.                                                             *)

Served(r) == job[r].stage = "ANSWERED" /\ job[r].code = 200

(* The status of an answer tells where its bars came from, after any       *)
(* failure of the provider: OK for the provider's, STALE_DATA for the      *)
(* corpus.                                                                 *)
FreshnessStated ==
  \A r \in Requests : Served(r) =>
    \A k \in DOMAIN job[r].scales : job[r].live <=> job[r].scales[k].bars \in Feeds

(* Every scale of a native answer carries the hash of the bars it was      *)
(* computed from, also when the corpus is replaced between two scales.     *)
NativeDigestIdentifiesBars ==
  \A r \in Requests : Native(r) =>
    \A k \in DOMAIN job[r].scales : job[r].scales[k].digest = job[r].scales[k].bars

(* READY means that the service can serve: as long as no file has been     *)
(* replaced since the check began, no acceptable request that is answered  *)
(* from the corpus fails.                                                  *)
ReadyServes ==
  readySince = {replaced} =>
    \A r \in Requests :
      /\ job[r].stage = "ANSWERED" /\ job[r].since = replaced
      /\ ask[r].accepted /\ ask[r].mapped /\ CorpusBacked(r)
      => job[r].code = 200

(* Nothing is remembered from before a request, nor from one scale to the  *)
(* next: an answer from the corpus that was computed since the last        *)
(* replacement names, hashes and reads the files that are there now.       *)
QuietAnswersCurrent ==
  \A r \in Requests : Served(r) /\ ~job[r].live /\ job[r].since = replaced =>
    \A k \in DOMAIN job[r].scales :
      LET scale == job[r].scales[k] IN
      /\ scale.bars = corpus /\ scale.digest = corpus
      /\ scale.profile = {p \in {"VALID"} : p = profiles[scale.timeframe]}

(* The log keeps the promise of RequestLedger, restarts and disconnected   *)
(* clients included.                                                       *)
Phase(r) ==
  CASE job[r].stage = "NEW"      -> "NEW"
    [] job[r].stage = "CUT"      -> "CUT"
    [] job[r].stage = "ANSWERED" -> IF job[r].code = 200 THEN "SERVED" ELSE "FAILED"
    [] OTHER                     -> "OPEN"

Ledger == INSTANCE RequestLedger WITH
  phase   <- [r \in Requests |-> Phase(r)],
  trail   <- log,
  keeping <- logging

KeepsLedger == Ledger!Spec

(* What the functional declaration guarantees of Telegraph answers: the    *)
(* same bars and the same configuration give the same response, byte for   *)
(* byte.                                                                   *)
ReproducibleResponse ==
  \A r, s \in Requests :
    Served(r) /\ Served(s) /\ ask[r] = ask[s] /\ ~Native(r) /\ ~job[r].live /\ ~job[s].live =>
      \A k \in DOMAIN job[r].scales :
        /\ job[r].scales[k].bars = job[s].scales[k].bars
        /\ job[r].scales[k].profile = job[s].scales[k].profile
        => job[r].scales = job[s].scales

(* What the Telegraph documentation says of a provider failure: it falls   *)
(* back to the pinned corpus.  A request that asked for live data is       *)
(* answered from the corpus only after such a failure.                     *)
FallbackIsPinned ==
  \A r \in Requests : Served(r) /\ ~CorpusBacked(r) /\ ~job[r].live =>
    \A k \in DOMAIN job[r].scales : job[r].scales[k].bars = Pinned

=============================================================================
