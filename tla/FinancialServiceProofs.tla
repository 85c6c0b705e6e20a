----------------------- MODULE FinancialServiceProofs -----------------------
(***************************************************************************)
(* What holds of the service for any number of requests, asks, corpus      *)
(* contents, replacements and restarts: its types, that an answer states   *)
(* where its bars came from and hashes what it was computed from, that     *)
(* READY means that it can serve, and that the log keeps RequestLedger.    *)
(*                                                                         *)
(* Handlers share only files, so the invariant speaks of one handler and   *)
(* the files; a step of another handler does not disturb it, and the       *)
(* replacement of a file only makes handlers that began before it outdated.*)
(***************************************************************************)
EXTENDS FinancialService, SequenceTheorems, TLAPS

AfterLoad == {"PROFILE", "READ", "EVALUATE"}

(* Which handlers pass through a stage, and what they have by then.  Only  *)
(* native requests come back to LOAD.                                      *)
ShapeInv(r, j) ==
  /\ j.since <= replaced
  /\ j.stage \in Busy => j.left # << >>
  /\ j.stage \in Busy /\ ~Native(r) => Len(j.left) = 1 /\ j.scales = << >>
  /\ j.stage \in {"PROVIDER", "DIGEST"} => ~Native(r)
  /\ j.stage = "PROVIDER" => ~CorpusBacked(r)
  /\ j.live => ~CorpusBacked(r)
  /\ j.stage \in {"RECEIVED", "PROVIDER", "DIGEST", "LOAD"} => ~j.live
  /\ j.stage \in AfterLoad => j.bars # {} /\ j.digest # {}
  /\ j.stage = "LOAD" /\ ~Native(r) => j.digest # {}

(* Where the bars of complete scales, and of the one in progress, are from.*)
SourceInv(r, j) ==
  /\ \A k \in DOMAIN j.scales :
       /\ j.live <=> j.scales[k].bars \in Feeds
       /\ Native(r) => j.scales[k].digest = j.scales[k].bars
  /\ j.stage \in AfterLoad =>
       /\ \A b \in j.bars : j.live <=> b \in Feeds
       /\ Native(r) => j.digest = j.bars

(* The files are those that a READY verdict describes.                     *)
Fit == corpus = Pinned /\ \A t \in Timeframes : profiles[t] # "INVALID"

Acceptable(r) == ask[r].accepted /\ ask[r].mapped /\ CorpusBacked(r)

CurrentProfile(t) == {p \in {"VALID"} : p = profiles[t]}

CurrentScale(scale) ==
  /\ scale.bars = corpus /\ scale.digest = corpus
  /\ scale.profile = CurrentProfile(scale.timeframe)

(* What a handler remembers of the files, as long as none was replaced     *)
(* since it began; an acceptable one has not failed on fit files.          *)
QuietInv(r, j) ==
  j.since = replaced =>
    /\ ~j.live => \A k \in DOMAIN j.scales : CurrentScale(j.scales[k])
    /\ ~j.live /\ j.stage \in AfterLoad => j.bars = {corpus} /\ j.digest = {corpus}
    /\ j.stage = "LOAD" /\ ~Native(r) => j.digest = {corpus}
    /\ j.stage = "READ" => profiles[Head(j.left)] # "ABSENT"
    /\ j.stage = "EVALUATE" => j.profile = CurrentProfile(Head(j.left))
    /\ j.stage = "ANSWERED" /\ Fit /\ Acceptable(r) => j.code = 200

JobInv(r, j) == ShapeInv(r, j) /\ SourceInv(r, j) /\ QuietInv(r, j)

(* What a readiness check has found out by now.                            *)
CheckInv ==
  /\ check.since <= replaced
  /\ check.stage # "IDLE" /\ check.since = replaced /\ check.sound =>
       /\ corpus = Pinned
       /\ check.stage = "PROFILES" =>
            \A t \in Timeframes \ check.pending : profiles[t] # "INVALID"
  /\ \A v \in readySince : v <= replaced
  /\ readySince = {replaced} => Fit

ServiceInv ==
  /\ ServiceTypeOK
  /\ \A r \in Requests : JobInv(r, job[r])
  /\ CheckInv

-----------------------------------------------------------------------------
(* One step of one handler.                                                *)

(* The log of a step that takes the handler from j to next.                *)
Logged(r, j, next) ==
  \/ j.stage = "NEW" /\ next.stage \in Busy /\ Record(r, "RECEIVED")
  \/ j.stage \in Busy /\ next.stage \in Busy \cup {"CUT"} /\ UNCHANGED log
  \/ /\ j.stage \in Busy /\ next.stage = "ANSWERED"
     /\ Record(r, IF next.code = 200 THEN "SERVED" ELSE "FAILED")

(* A step of r: where it takes the handler, and that the invariant and the *)
(* log agree.  The files do not move, so the invariant is the old one's.   *)
Outcome(r) ==
  \E next \in Jobs :
    /\ job' = [job EXCEPT ![r] = next]
    /\ JobInv(r, next)
    /\ Logged(r, job[r], next)

(* A corpus is not a feed, and the pinned one is fit for everything.       *)
LEMMA ContentsApart ==
  /\ CorpusContents \cap Feeds = {}
  /\ Pinned \in CorpusContents /\ Pinned \notin Unfit /\ Readable(Pinned)
  /\ \A t : Computable(Pinned, t)
BY VersionAssumption DEF CorpusContents, Feeds, Unfit, Readable, Computable

(* The handler of a request that is not there.                             *)
LEMMA IdleType == Idle \in Jobs
<1>1. {} \in Option(CorpusContents \cup Feeds) /\ {} \in Option({"VALID"})
  BY DEF Option
<1>2. << >> \in Seq(Timeframes) /\ << >> \in Seq(Scales)
  OBVIOUS
<1>3. "NEW" \in Stages /\ 0 \in Codes /\ 0 \in 0..MaxReplacements
  BY AskAssumption DEF Stages, Codes
<1>4. QED
  BY <1>1, <1>2, <1>3 DEF Idle, Jobs

(* A failing handler keeps the invariant when it had a reason.             *)
LEMMA FailOutcome ==
  ASSUME ServiceTypeOK, NEW r \in Requests, JobInv(r, job[r]), job[r].stage \in Busy,
         NEW code \in {400, 500, 503}, Fail(r, code),
         ~(job[r].since = replaced /\ Fit /\ Acceptable(r))
  PROVE  Outcome(r)
<1> DEFINE next == [Idle EXCEPT !.stage = "ANSWERED", !.since = job[r].since, !.code = code]
<1>1. /\ next.stage = "ANSWERED" /\ next.since = job[r].since /\ next.code = code
      /\ next.live = FALSE /\ next.scales = << >>
  BY DEF Idle
<1>2. job[r] \in Jobs
  BY DEF ServiceTypeOK
<1>3. next \in Jobs
  <2>1. job[r].since \in 0..MaxReplacements
    BY <1>2 DEF Jobs
  <2>2. "ANSWERED" \in Stages /\ code \in Codes
    BY DEF Stages, Codes
  <2>3. QED
    BY <2>1, <2>2, IdleType DEF Jobs
<1>4. job' = [job EXCEPT ![r] = next] /\ Record(r, "FAILED")
  BY DEF Fail
<1> HIDE DEF next
<1>5. JobInv(r, next)
  <2>1. ShapeInv(r, next)
    BY <1>1 DEF JobInv, ShapeInv, Busy, AfterLoad
  <2>2. SourceInv(r, next)
    BY <1>1 DEF SourceInv, AfterLoad
  <2>3. QuietInv(r, next)
    BY <1>1 DEF QuietInv, AfterLoad
  <2>4. QED
    BY <2>1, <2>2, <2>3 DEF JobInv
<1>6. Logged(r, job[r], next)
  BY <1>1, <1>4 DEF Logged
<1>7. QED
  BY <1>3, <1>4, <1>5, <1>6 DEF Outcome

(* A handler that goes on, or is dropped.                                  *)
LEMMA ContinueOutcome ==
  ASSUME NEW r \in Requests, job[r].stage \in Busy,
         NEW next \in Jobs, next.stage \in Busy \cup {"CUT"},
         JobInv(r, next), Continue(r, next)
  PROVE  Outcome(r)
BY DEF Outcome, Logged, Continue

(* A request is taken in.                                                  *)
LEMMA ReceiveOutcome ==
  ASSUME ServiceTypeOK, NEW r \in Requests, Receive(r)
  PROVE  Outcome(r)
<1> DEFINE next == [Idle EXCEPT !.stage = "RECEIVED", !.since = replaced,
                                !.left = ask[r].timeframes]
<1>1. /\ next.stage = "RECEIVED" /\ next.since = replaced /\ next.left = ask[r].timeframes
      /\ next.live = FALSE /\ next.scales = << >>
  BY DEF Idle
<1>2. /\ ask[r].timeframes \in Seq(Timeframes) /\ ask[r].timeframes # << >>
      /\ ~Native(r) => Len(ask[r].timeframes) = 1
  <2>1. ask[r] \in Asks /\ ask[r] \in AskType
    BY AskAssumption DEF ServiceTypeOK
  <2>2. ~Native(r) => ask[r].endpoint = "TELEGRAPH"
    BY <2>1 DEF AskType, Native
  <2>3. QED
    BY <2>1, <2>2, AskAssumption DEF AskType
<1>3. next \in Jobs
  <2>1. replaced \in 0..MaxReplacements /\ "RECEIVED" \in Stages
    BY DEF ServiceTypeOK, Stages, Busy
  <2>2. QED
    BY <1>2, <2>1, IdleType DEF Jobs
<1>4. job' = [job EXCEPT ![r] = next] /\ Record(r, "RECEIVED") /\ job[r].stage = "NEW"
  BY DEF Receive, At
<1> HIDE DEF next
<1>5. replaced \in Nat
  BY AskAssumption DEF ServiceTypeOK
<1>6. ShapeInv(r, next)
  BY <1>1, <1>2, <1>5 DEF ShapeInv, AfterLoad, Busy
<1>7. SourceInv(r, next) /\ QuietInv(r, next)
  BY <1>1 DEF SourceInv, QuietInv, AfterLoad
<1>8. Logged(r, job[r], next)
  BY <1>1, <1>4 DEF Logged, Busy
<1>9. QED
  BY <1>3, <1>4, <1>6, <1>7, <1>8 DEF Outcome, JobInv

(* The stage after the checks tells what kind of request it is.            *)
LEMMA ValidateOutcome ==
  ASSUME ServiceTypeOK, NEW r \in Requests, JobInv(r, job[r]), Validate(r)
  PROVE  Outcome(r)
<1> DEFINE j     == job[r]
           stage == CASE Native(r)        -> "LOAD"
                      [] ~CorpusBacked(r) -> "PROVIDER"
                      [] OTHER            -> "DIGEST"
           next  == [j EXCEPT !.stage = stage]
<1>1. j \in Jobs /\ j.stage = "RECEIVED" /\ j.stage \in Busy
  BY DEF ServiceTypeOK, Validate, At, Busy
<1>2. CASE ~ask[r].accepted \/ (CorpusBacked(r) /\ ~ask[r].mapped)
  <2>1. Fail(r, 400) /\ ~Acceptable(r)
    BY <1>2 DEF Validate, Acceptable
  <2>2. QED
    BY <1>1, <2>1, FailOutcome
<1>3. CASE ~(~ask[r].accepted \/ (CorpusBacked(r) /\ ~ask[r].mapped))
  <2>1. /\ stage \in {"LOAD", "PROVIDER", "DIGEST"}
        /\ stage = "LOAD" <=> Native(r)
        /\ stage = "PROVIDER" => ~CorpusBacked(r)
    BY DEF CorpusBacked
  <2>2. Continue(r, next)
    BY <1>3 DEF Validate
  <2> HIDE DEF stage
  <2>3. /\ next \in Jobs /\ next.stage = stage /\ next.since = j.since /\ next.left = j.left
        /\ next.live = j.live /\ next.scales = j.scales
    BY <1>1, <2>1 DEF Jobs, Stages, Busy
  <2> HIDE DEF next
  <2>4. ShapeInv(r, next)
    BY <1>1, <2>1, <2>3 DEF JobInv, ShapeInv, AfterLoad, Busy
  <2>5. SourceInv(r, next)
    BY <2>1, <2>3 DEF JobInv, SourceInv, AfterLoad
  <2>6. QuietInv(r, next)
    BY <2>1, <2>3 DEF JobInv, QuietInv, AfterLoad
  <2>7. next.stage \in Busy \cup {"CUT"}
    BY <2>1, <2>3 DEF Busy
  <2>8. QED
    BY <1>1, <2>2, <2>3, <2>4, <2>5, <2>6, <2>7, ContinueOutcome DEF JobInv
<1>4. QED
  BY <1>2, <1>3

(* Only requests that are not backed by the corpus wait for the provider,  *)
(* so nothing that goes wrong there contradicts a READY verdict.           *)
LEMMA ProviderOutcome ==
  ASSUME ServiceTypeOK, NEW r \in Requests, JobInv(r, job[r]),
         \/ \E feed \in Feeds : ProviderAnswers(r, feed)
         \/ ProviderFails(r)
         \/ Disconnect(r)
  PROVE  Outcome(r)
<1> DEFINE j == job[r]
<1>1. /\ j \in Jobs /\ j.stage = "PROVIDER" /\ j.stage \in Busy
      /\ ~CorpusBacked(r) /\ ~Native(r) /\ ~j.live
      /\ Len(j.left) = 1 /\ j.left # << >> /\ j.scales = << >> /\ j.since <= replaced
  BY DEF ServiceTypeOK, ProviderAnswers, ProviderFails, Disconnect, At, Busy, JobInv, ShapeInv
<1>2. ~Acceptable(r)
  BY <1>1 DEF Acceptable
<1>3. ASSUME NEW feed \in Feeds, ProviderAnswers(r, feed) PROVE Outcome(r)
  <2> DEFINE next == [j EXCEPT !.stage = "PROFILE", !.live = TRUE,
                               !.digest = {feed}, !.bars = {feed}]
  <2>1. CASE ~Computable(feed, Head(j.left))
    BY <1>1, <1>2, <1>3, <2>1, FailOutcome DEF ProviderAnswers
  <2>2. CASE Computable(feed, Head(j.left))
    <3>1. Continue(r, next)
      BY <1>3, <2>2 DEF ProviderAnswers
    <3>2. {feed} \in Option(CorpusContents \cup Feeds)
      BY DEF Option
    <3>3. /\ next \in Jobs /\ next.stage = "PROFILE" /\ next.since = j.since
          /\ next.live = TRUE /\ next.digest = {feed} /\ next.bars = {feed}
          /\ next.left = j.left /\ next.scales = j.scales
      BY <1>1, <3>2 DEF Jobs, Stages, Busy
    <3> HIDE DEF next
    <3>4. ShapeInv(r, next) /\ SourceInv(r, next) /\ QuietInv(r, next)
      BY <1>1, <3>3 DEF ShapeInv, SourceInv, QuietInv, AfterLoad, Busy
    <3>5. next.stage \in Busy \cup {"CUT"}
      BY <3>3 DEF Busy
    <3>6. QED
      BY <1>1, <3>1, <3>3, <3>4, <3>5, ContinueOutcome DEF JobInv
  <2>3. QED
    BY <2>1, <2>2
<1>4. ASSUME ProviderFails(r) PROVE Outcome(r)
  <2> DEFINE next == [j EXCEPT !.stage = "DIGEST"]
  <2>1. CASE ~ask[r].mapped
    BY <1>1, <1>2, <1>4, <2>1, FailOutcome DEF ProviderFails
  <2>2. CASE ask[r].mapped
    <3>1. Continue(r, next)
      BY <1>4, <2>2 DEF ProviderFails
    <3>2. /\ next \in Jobs /\ next.stage = "DIGEST" /\ next.since = j.since
          /\ next.live = j.live /\ next.left = j.left /\ next.scales = j.scales
      BY <1>1 DEF Jobs, Stages, Busy
    <3> HIDE DEF next
    <3>3. ShapeInv(r, next) /\ SourceInv(r, next) /\ QuietInv(r, next)
      BY <1>1, <3>2 DEF ShapeInv, SourceInv, QuietInv, AfterLoad, Busy
    <3>4. next.stage \in Busy \cup {"CUT"}
      BY <3>2 DEF Busy
    <3>5. QED
      BY <1>1, <3>1, <3>2, <3>3, <3>4, ContinueOutcome DEF JobInv
  <2>3. QED
    BY <2>1, <2>2
<1>5. ASSUME Disconnect(r) PROVE Outcome(r)
  <2> DEFINE next == [Idle EXCEPT !.stage = "CUT"]
  <2>1. Continue(r, next)
    BY <1>5 DEF Disconnect
  <2>2. /\ next.stage = "CUT" /\ next.since = 0 /\ next.live = FALSE /\ next.scales = << >>
    BY DEF Idle
  <2>3. next \in Jobs
    BY IdleType DEF Jobs, Stages
  <2> HIDE DEF next
  <2>4. replaced \in Nat
    BY AskAssumption DEF ServiceTypeOK
  <2>5. ShapeInv(r, next) /\ SourceInv(r, next) /\ QuietInv(r, next)
    BY <2>2, <2>4 DEF ShapeInv, SourceInv, QuietInv, AfterLoad, Busy
  <2>6. QED
    BY <1>1, <2>1, <2>2, <2>3, <2>5, ContinueOutcome DEF JobInv
<1>6. QED
  BY <1>3, <1>4, <1>5

(* Telegraph hashes the file that is there; a fit one is.                  *)
LEMMA ReadDigestOutcome ==
  ASSUME ServiceTypeOK, NEW r \in Requests, JobInv(r, job[r]), ReadDigest(r)
  PROVE  Outcome(r)
<1> DEFINE j    == job[r]
           next == [j EXCEPT !.stage = "LOAD", !.digest = {corpus}]
<1>1. /\ j \in Jobs /\ j.stage = "DIGEST" /\ j.stage \in Busy /\ ~Native(r) /\ ~j.live
      /\ Len(j.left) = 1 /\ j.left # << >> /\ j.scales = << >> /\ j.since <= replaced
  BY DEF ServiceTypeOK, ReadDigest, At, Busy, JobInv, ShapeInv
<1>2. CASE corpus = "ABSENT"
  <2>1. ~Fit
    BY <1>2, ContentsApart DEF Fit, Unfit
  <2>2. QED
    BY <1>1, <1>2, <2>1, FailOutcome DEF ReadDigest
<1>3. CASE corpus # "ABSENT"
  <2>1. Continue(r, next)
    BY <1>3 DEF ReadDigest
  <2>2. {corpus} \in Option(CorpusContents \cup Feeds)
    BY DEF Option, ServiceTypeOK
  <2>3. /\ next \in Jobs /\ next.stage = "LOAD" /\ next.since = j.since
        /\ next.live = j.live /\ next.digest = {corpus}
        /\ next.left = j.left /\ next.scales = j.scales
    BY <1>1, <2>2 DEF Jobs, Stages, Busy
  <2> HIDE DEF next
  <2>4. ShapeInv(r, next) /\ SourceInv(r, next) /\ QuietInv(r, next)
    BY <1>1, <2>3 DEF ShapeInv, SourceInv, QuietInv, AfterLoad, Busy
  <2>5. next.stage \in Busy \cup {"CUT"}
    BY <2>3 DEF Busy
  <2>6. QED
    BY <1>1, <2>1, <2>3, <2>4, <2>5, ContinueOutcome DEF JobInv
<1>4. QED
  BY <1>2, <1>3

(* Bars that were loaded are those of the file; Telegraph hashed it before.*)
LEMMA LoadOutcome ==
  ASSUME ServiceTypeOK, NEW r \in Requests, JobInv(r, job[r]), Load(r)
  PROVE  Outcome(r)
<1> DEFINE j      == job[r]
           digest == IF Native(r) THEN {corpus} ELSE j.digest
           next   == [j EXCEPT !.stage = "PROFILE", !.bars = {corpus}, !.digest = digest]
<1>1. /\ j \in Jobs /\ j.stage = "LOAD" /\ j.stage \in Busy /\ ~j.live
      /\ j.left # << >> /\ j.since <= replaced
      /\ ~Native(r) => Len(j.left) = 1 /\ j.scales = << >> /\ j.digest # {}
  BY DEF ServiceTypeOK, Load, At, Busy, JobInv, ShapeInv
<1>2. CASE ~Loads(r)
  <2>1. ~Fit
    BY <1>2, ContentsApart DEF Fit, Loads
  <2>2. QED
    BY <1>1, <1>2, <2>1, FailOutcome DEF Load
<1>3. CASE Loads(r)
  <2>1. Continue(r, next)
    BY <1>3 DEF Load
  <2>2. /\ {corpus} \in Option(CorpusContents \cup Feeds)
        /\ digest \in Option(CorpusContents \cup Feeds) /\ digest # {}
        /\ Native(r) => digest = {corpus}
        /\ j.since = replaced => digest = {corpus}
    <3>1. corpus \in CorpusContents /\ {corpus} \in Option(CorpusContents \cup Feeds)
      BY DEF Option, ServiceTypeOK
    <3>2. CASE Native(r)
      BY <3>1, <3>2
    <3>3. CASE ~Native(r)
      <4>1. j.digest \in Option(CorpusContents \cup Feeds)
        BY <1>1 DEF Jobs
      <4>2. j.since = replaced => j.digest = {corpus}
        BY <1>1, <3>3 DEF JobInv, QuietInv
      <4>3. QED
        BY <1>1, <3>1, <3>3, <4>1, <4>2
    <3>4. QED
      BY <3>2, <3>3
  <2>3. corpus \notin Feeds
    BY ContentsApart DEF ServiceTypeOK
  <2> HIDE DEF digest
  <2>4. /\ next \in Jobs /\ next.stage = "PROFILE" /\ next.since = j.since
        /\ next.live = j.live /\ next.digest = digest /\ next.bars = {corpus}
        /\ next.left = j.left /\ next.scales = j.scales
    BY <1>1, <2>2 DEF Jobs, Stages, Busy
  <2> HIDE DEF next
  <2>5. ShapeInv(r, next)
    BY <1>1, <2>2, <2>4 DEF ShapeInv, AfterLoad, Busy
  <2>6. SourceInv(r, next)
    BY <1>1, <2>2, <2>3, <2>4 DEF JobInv, SourceInv, AfterLoad
  <2>7. QuietInv(r, next)
    BY <1>1, <2>2, <2>4 DEF JobInv, QuietInv, AfterLoad
  <2>8. next.stage \in Busy \cup {"CUT"}
    BY <2>4 DEF Busy
  <2>9. QED
    BY <1>1, <2>1, <2>4, <2>5, <2>6, <2>7, <2>8, ContinueOutcome DEF JobInv
<1>4. QED
  BY <1>2, <1>3

(* The profile of the timeframe that is being computed.                    *)
LEMMA ProfileOutcome ==
  ASSUME ServiceTypeOK, NEW r \in Requests, JobInv(r, job[r]),
         FindProfile(r) \/ ReadProfile(r)
  PROVE  Outcome(r)
<1> DEFINE j       == job[r]
           content == profiles[Head(j.left)]
<1>1. /\ j \in Jobs /\ j.stage \in AfterLoad /\ j.stage \in Busy /\ j.left # << >>
      /\ j.left \in Seq(Timeframes) /\ Head(j.left) \in Timeframes
  <2>1. j \in Jobs /\ j.stage \in AfterLoad /\ j.stage \in Busy
    BY DEF ServiceTypeOK, FindProfile, ReadProfile, At, Busy, AfterLoad
  <2>2. j.left # << >> /\ j.left \in Seq(Timeframes)
    BY <2>1 DEF JobInv, ShapeInv, Jobs
  <2>3. QED
    BY <2>1, <2>2
<1>2. ASSUME FindProfile(r) PROVE Outcome(r)
  <2> DEFINE stage == IF content = "ABSENT" THEN "EVALUATE" ELSE "READ"
             next  == [j EXCEPT !.profile = {}, !.stage = stage]
  <2>1. Continue(r, next) /\ j.stage = "PROFILE"
    BY <1>2 DEF FindProfile, At
  <2>2. {} \in Option({"VALID"}) /\ stage \in {"EVALUATE", "READ"}
    BY DEF Option
  <2>3. stage = "EVALUATE" => CurrentProfile(Head(j.left)) = {}
    BY DEF CurrentProfile
  <2>4. stage = "READ" => content # "ABSENT"
    OBVIOUS
  <2> HIDE DEF stage
  <2>5. /\ next \in Jobs /\ next.stage = stage /\ next.since = j.since /\ next.profile = {}
        /\ next.live = j.live /\ next.digest = j.digest /\ next.bars = j.bars
        /\ next.left = j.left /\ next.scales = j.scales
    BY <1>1, <2>2 DEF Jobs, Stages, Busy
  <2> HIDE DEF next
  <2>6. ShapeInv(r, next)
    BY <1>1, <2>2, <2>5 DEF JobInv, ShapeInv, AfterLoad, Busy
  <2>7. SourceInv(r, next)
    BY <1>1, <2>2, <2>5 DEF JobInv, SourceInv, AfterLoad
  <2>8. QuietInv(r, next)
    BY <1>1, <2>2, <2>3, <2>4, <2>5 DEF JobInv, QuietInv, AfterLoad
  <2>9. next.stage \in Busy \cup {"CUT"}
    BY <2>2, <2>5 DEF Busy
  <2>10. QED
    BY <1>1, <2>1, <2>5, <2>6, <2>7, <2>8, <2>9, ContinueOutcome DEF JobInv
<1>3. ASSUME ReadProfile(r) PROVE Outcome(r)
  <2> DEFINE next == [j EXCEPT !.stage = "EVALUATE", !.profile = {content}]
  <2>1. j.stage = "READ"
    BY <1>3 DEF ReadProfile, At
  <2>2. CASE content # "VALID"
    <3>1. ~(j.since = replaced /\ Fit)
      <4>1. content \in ProfileContents
        BY <1>1 DEF ServiceTypeOK
      <4>2. CASE content = "INVALID"
        BY <1>1, <4>2 DEF Fit
      <4>3. CASE content = "ABSENT"
        BY <2>1, <4>3 DEF JobInv, QuietInv
      <4>4. QED
        BY <2>2, <4>1, <4>2, <4>3 DEF ProfileContents
    <3>2. Fail(r, 503)
      BY <1>3, <2>2 DEF ReadProfile
    <3>3. QED
      BY <1>1, <3>1, <3>2, FailOutcome
  <2>3. CASE content = "VALID"
    <3>1. Continue(r, next)
      BY <1>3, <2>3 DEF ReadProfile
    <3>2. {content} \in Option({"VALID"}) /\ CurrentProfile(Head(j.left)) = {content}
      BY <2>3 DEF Option, CurrentProfile
    <3> HIDE DEF content
    <3>3. /\ next \in Jobs /\ next.stage = "EVALUATE" /\ next.since = j.since
          /\ next.profile = {content} /\ next.live = j.live /\ next.digest = j.digest
          /\ next.bars = j.bars /\ next.left = j.left /\ next.scales = j.scales
      BY <1>1, <3>2 DEF Jobs, Stages, Busy
    <3> HIDE DEF next
    <3>4. ShapeInv(r, next)
      BY <1>1, <3>3 DEF JobInv, ShapeInv, AfterLoad, Busy
    <3>5. SourceInv(r, next)
      BY <1>1, <3>3 DEF JobInv, SourceInv, AfterLoad
    <3>6. QuietInv(r, next)
      BY <1>1, <3>2, <3>3 DEF JobInv, QuietInv, AfterLoad
    <3>7. next.stage \in Busy \cup {"CUT"}
      BY <3>3 DEF Busy
    <3>8. QED
      BY <1>1, <3>1, <3>3, <3>4, <3>5, <3>6, <3>7, ContinueOutcome DEF JobInv
  <2>4. QED
    BY <2>2, <2>3
<1>4. QED
  BY <1>2, <1>3

(* A scale is published with what its handler remembers, and a native      *)
(* handler starts the next one with a load of its own.                     *)
LEMMA EvaluateOutcome ==
  ASSUME ServiceTypeOK, NEW r \in Requests, JobInv(r, job[r]), Evaluate(r)
  PROVE  Outcome(r)
<1> DEFINE j         == job[r]
           timeframe == Head(j.left)
           bars      == CHOOSE b \in j.bars : TRUE
           digest    == CHOOSE d \in j.digest : TRUE
           scale     == [timeframe |-> timeframe, bars |-> bars, digest |-> digest,
                         profile |-> j.profile]
           scales    == Append(j.scales, scale)
<1>1. /\ j \in Jobs /\ j.stage = "EVALUATE" /\ j.stage \in Busy
      /\ j.left # << >> /\ j.bars # {} /\ j.digest # {} /\ j.since <= replaced
      /\ ~Native(r) => Len(j.left) = 1 /\ j.scales = << >>
      /\ j.live => ~CorpusBacked(r)
  BY DEF ServiceTypeOK, Evaluate, At, Busy, JobInv, ShapeInv, AfterLoad
<1>2. /\ j.left \in Seq(Timeframes) /\ timeframe \in Timeframes
      /\ j.scales \in Seq(Scales) /\ j.profile \in Option({"VALID"}) /\ j.live \in BOOLEAN
  BY <1>1 DEF Jobs
<1>3. /\ j.bars = {bars} /\ bars \in CorpusContents \cup Feeds
      /\ j.digest = {digest} /\ digest \in CorpusContents \cup Feeds
  <2>1. /\ j.bars \in Option(CorpusContents \cup Feeds)
        /\ j.digest \in Option(CorpusContents \cup Feeds)
    BY <1>1 DEF Jobs
  <2>2. (\E b \in CorpusContents \cup Feeds : j.bars = {b})
        /\ (\E d \in CorpusContents \cup Feeds : j.digest = {d})
    BY <1>1, <2>1 DEF Option
  <2>3. QED
    BY <2>2
<1>4. /\ j.live <=> bars \in Feeds
      /\ Native(r) => digest = bars
      /\ j.since = replaced /\ ~j.live => bars = corpus /\ digest = corpus
      /\ j.since = replaced => j.profile = CurrentProfile(timeframe)
  BY <1>1, <1>3 DEF JobInv, SourceInv, QuietInv, AfterLoad
<1> HIDE DEF bars, digest, timeframe
<1>5. /\ scale \in Scales /\ scale.bars = bars /\ scale.digest = digest
      /\ scale.profile = j.profile /\ scale.timeframe = timeframe
  BY <1>2, <1>3 DEF Scales
<1> HIDE DEF scale
<1>6. /\ scales \in Seq(Scales)
      /\ \A k \in DOMAIN scales :
           scales[k] = scale \/ (k \in DOMAIN j.scales /\ scales[k] = j.scales[k])
  BY <1>2, <1>5
<1> HIDE DEF scales
<1>7. \A k \in DOMAIN scales :
        /\ j.live <=> scales[k].bars \in Feeds
        /\ Native(r) => scales[k].digest = scales[k].bars
        /\ j.since = replaced /\ ~j.live => CurrentScale(scales[k])
  <2> SUFFICES ASSUME NEW k \in DOMAIN scales
               PROVE  /\ j.live <=> scales[k].bars \in Feeds
                      /\ Native(r) => scales[k].digest = scales[k].bars
                      /\ j.since = replaced /\ ~j.live => CurrentScale(scales[k])
    OBVIOUS
  <2>1. CASE scales[k] = scale
    BY <1>4, <1>5, <2>1 DEF CurrentScale
  <2>2. CASE k \in DOMAIN j.scales /\ scales[k] = j.scales[k]
    BY <2>2 DEF JobInv, SourceInv, QuietInv
  <2>3. QED
    BY <1>6, <2>1, <2>2
<1>8. CASE ~Computable(bars, timeframe)
  <2>1. Fail(r, 500)
    BY <1>8 DEF Evaluate, bars, timeframe
  <2>2. ~(j.since = replaced /\ Fit /\ Acceptable(r))
    BY <1>1, <1>2, <1>4, <1>8, ContentsApart DEF Fit, Acceptable
  <2>3. QED
    BY <1>1, <2>1, <2>2, FailOutcome
<1>9. CASE Computable(bars, timeframe) /\ Len(j.left) = 1
  <2> DEFINE next == [Idle EXCEPT !.stage = "ANSWERED", !.since = j.since, !.live = j.live,
                                  !.scales = scales, !.code = 200]
  <2>1. Serve(r, scales)
    BY <1>9 DEF Evaluate, bars, timeframe, digest, scale, scales
  <2>2. job' = [job EXCEPT ![r] = next] /\ Record(r, "SERVED")
    BY <2>1 DEF Serve
  <2>3. /\ next.stage = "ANSWERED" /\ next.since = j.since /\ next.live = j.live
        /\ next.scales = scales /\ next.code = 200
    BY DEF Idle
  <2>4. next \in Jobs
    <3>1. j.since \in 0..MaxReplacements /\ "ANSWERED" \in Stages /\ 200 \in Codes
      BY <1>1 DEF Jobs, Stages, Codes
    <3>2. QED
      BY <1>2, <1>6, <3>1, IdleType DEF Jobs
  <2> HIDE DEF next
  <2>5. ShapeInv(r, next)
    BY <1>1, <2>3 DEF ShapeInv, AfterLoad, Busy
  <2>6. SourceInv(r, next)
    BY <1>7, <2>3 DEF SourceInv, AfterLoad
  <2>7. QuietInv(r, next)
    BY <1>7, <2>3 DEF QuietInv, AfterLoad
  <2>8. Logged(r, j, next)
    BY <1>1, <2>2, <2>3 DEF Logged
  <2>9. QED
    BY <2>2, <2>4, <2>5, <2>6, <2>7, <2>8 DEF Outcome, JobInv
<1>10. CASE Computable(bars, timeframe) /\ Len(j.left) # 1
  <2> DEFINE next == [j EXCEPT !.stage = "LOAD", !.left = Tail(@), !.scales = scales,
                               !.bars = {}]
  <2>1. Continue(r, next)
    BY <1>10 DEF Evaluate, bars, timeframe, digest, scale, scales
  <2>2. Native(r) /\ ~j.live
    BY <1>1, <1>2, <1>10 DEF CorpusBacked
  <2>3. Tail(j.left) \in Seq(Timeframes) /\ Tail(j.left) # << >>
    <3>1. j.left \in Seq(Timeframes) /\ Len(j.left) > 1
      <4>1. Len(j.left) \in Nat /\ Len(j.left) # 0
        BY <1>1, <1>2, EmptySeq
      <4>2. Len(j.left) # 1
        BY <1>10
      <4>3. \A n \in Nat : n # 0 /\ n # 1 => n > 1
        OBVIOUS
      <4>4. QED
        BY <1>2, <4>1, <4>2, <4>3
    <3>2. QED
      BY <3>1
  <2>4. {} \in Option(CorpusContents \cup Feeds)
    BY DEF Option
  <2>5. /\ next \in Jobs /\ next.stage = "LOAD" /\ next.since = j.since
        /\ next.live = j.live /\ next.left = Tail(j.left) /\ next.scales = scales
    BY <1>1, <1>6, <2>3, <2>4 DEF Jobs, Stages, Busy
  <2> HIDE DEF next
  <2>6. ShapeInv(r, next)
    BY <1>1, <2>2, <2>3, <2>5 DEF ShapeInv, AfterLoad, Busy
  <2>7. SourceInv(r, next)
    BY <1>7, <2>5 DEF SourceInv, AfterLoad
  <2>8. QuietInv(r, next)
    BY <1>7, <2>2, <2>5 DEF QuietInv, AfterLoad
  <2>9. next.stage \in Busy \cup {"CUT"}
    BY <2>5 DEF Busy
  <2>10. QED
    BY <1>1, <2>1, <2>5, <2>6, <2>7, <2>8, <2>9, ContinueOutcome DEF JobInv
<1>11. QED
  BY <1>8, <1>9, <1>10

-----------------------------------------------------------------------------
(* Everybody else.                                                         *)

(* What a handler may do in one step.                                      *)
LEMMA HandlerOutcome ==
  ASSUME ServiceInv, NEW r \in Requests, Receive(r) \/ Step(r) \/ Disconnect(r)
  PROVE  Outcome(r) /\ UNCHANGED <<files, crashes, logging, ask, check, readySince>>
<1>1. ServiceTypeOK /\ JobInv(r, job[r])
  BY DEF ServiceInv
<1>2. Outcome(r)
  BY <1>1, ReceiveOutcome, ValidateOutcome, ProviderOutcome, ReadDigestOutcome, LoadOutcome,
    ProfileOutcome, EvaluateOutcome DEF Step
<1>3. UNCHANGED <<files, crashes, logging, ask, check, readySince>>
  BY DEF Receive, Step, Disconnect, Validate, ProviderAnswers, ProviderFails, ReadDigest, Load,
    FindProfile, ReadProfile, Evaluate, At
<1>4. QED
  BY <1>2, <1>3

(* The invariant of a handler reads the files and its own ask only.        *)
LEMMA JobFrame ==
  ASSUME NEW r \in Requests, UNCHANGED <<files, ask>>, JobInv(r, job'[r])
  PROVE  JobInv(r, job[r])'
BY DEF JobInv, ShapeInv, SourceInv, QuietInv, Native, CorpusBacked, CurrentScale,
  CurrentProfile, Fit, Acceptable, files

(* It survives any replacement of a file: the handler is outdated then.    *)
LEMMA JobOutdated ==
  ASSUME ServiceTypeOK, NEW r \in Requests, JobInv(r, job[r]),
         replaced' = replaced + 1, UNCHANGED <<ask, job>>
  PROVE  JobInv(r, job[r])'
<1>1. job[r].since \in Nat /\ replaced \in Nat /\ job[r].since <= replaced
  BY AskAssumption DEF ServiceTypeOK, Jobs, JobInv, ShapeInv
<1>2. ShapeInv(r, job[r])'
  BY <1>1 DEF JobInv, ShapeInv, Native, CorpusBacked
<1>3. SourceInv(r, job[r])'
  BY DEF JobInv, SourceInv, Native
<1>4. job'[r].since # replaced'
  BY <1>1
<1>5. QuietInv(r, job[r])'
  BY <1>4 DEF QuietInv
<1>6. QED
  BY <1>2, <1>3, <1>5 DEF JobInv

(* A handler's step concerns its own job only.                             *)
LEMMA HandlerStep ==
  ASSUME ServiceInv, NEW r \in Requests, Receive(r) \/ Step(r) \/ Disconnect(r)
  PROVE  ServiceInv'
<1>1. Outcome(r) /\ UNCHANGED <<files, crashes, logging, ask, check, readySince>>
  BY HandlerOutcome
<1>2. PICK next \in Jobs :
        job' = [job EXCEPT ![r] = next] /\ JobInv(r, next) /\ Logged(r, job[r], next)
  BY <1>1 DEF Outcome
<1>3. ServiceTypeOK /\ CheckInv /\ \A q \in Requests : JobInv(q, job[q])
  BY DEF ServiceInv
<1>4. job' \in [Requests -> Jobs]
  BY <1>2, <1>3 DEF ServiceTypeOK
<1>5. log' \in [Requests -> Seq(Events)]
  <2>1. log \in [Requests -> Seq(Events)]
    BY <1>3 DEF ServiceTypeOK
  <2>2. \A event \in Events : [log EXCEPT ![r] = Append(@, event)] \in [Requests -> Seq(Events)]
    BY <2>1
  <2>3. \/ log' = log
        \/ \E event \in Events : log' = [log EXCEPT ![r] = Append(@, event)]
    BY <1>2 DEF Logged, Record, Events
  <2>4. QED
    BY <2>1, <2>2, <2>3
<1>6. ServiceTypeOK'
  BY <1>1, <1>3, <1>4, <1>5 DEF ServiceTypeOK, files
<1>7. ASSUME NEW q \in Requests PROVE JobInv(q, job[q])'
  <2>1. job'[q] = IF q = r THEN next ELSE job[q]
    BY <1>2, <1>3 DEF ServiceTypeOK
  <2>2. JobInv(q, job'[q])
    BY <1>2, <1>3, <2>1
  <2>3. QED
    BY <1>1, <2>2, JobFrame
<1>8. CheckInv'
  BY <1>1, <1>3 DEF CheckInv, Fit, files
<1>9. QED
  BY <1>6, <1>7, <1>8 DEF ServiceInv

(* A readiness check looks at the files and at nothing else; its verdict   *)
(* is about the files that were there from its start to its end.           *)
LEMMA HealthStep ==
  ASSUME ServiceInv, HealthReady
  PROVE  ServiceInv'
<1>1. /\ ServiceTypeOK /\ CheckInv /\ \A q \in Requests : JobInv(q, job[q])
      /\ replaced \in Nat /\ replaced \in 0..MaxReplacements
      /\ check.since \in 0..MaxReplacements /\ check.sound \in BOOLEAN
      /\ check.pending \in SUBSET Timeframes
  BY AskAssumption DEF ServiceInv, ServiceTypeOK
<1>2. UNCHANGED <<files, crashes, logging, log, ask, job>>
  BY DEF HealthReady, HashCorpus, LoadCorpus, ListProfiles, InspectProfile, Verdict, Checking
<1>3. ASSUME NEW q \in Requests PROVE JobInv(q, job[q])'
  BY <1>1, <1>2, JobFrame
<1> DEFINE Checks == [stage : {"IDLE", "LOAD", "LIST", "PROFILES"}, since : 0..MaxReplacements,
                      sound : BOOLEAN, pending : SUBSET Timeframes]
<1>4. NoCheck \in Checks /\ NoCheck.stage = "IDLE" /\ NoCheck.since = 0
  BY AskAssumption DEF NoCheck
<1>5. check \in Checks
  BY <1>1 DEF ServiceTypeOK
<1>6. check' \in Checks /\ readySince' \in Option(0..MaxReplacements) /\ CheckInv'
  <2>1. CASE HashCorpus
    <3>1. check' = [NoCheck EXCEPT !.stage = "LOAD", !.since = replaced, !.sound = corpus = Pinned]
          /\ readySince' = readySince
      BY <2>1 DEF HashCorpus
    <3>2. /\ check' \in Checks /\ check'.stage = "LOAD" /\ check'.since = replaced
          /\ check'.sound => corpus = Pinned
      BY <1>1, <1>4, <3>1
    <3>3. QED
      BY <1>1, <1>2, <3>1, <3>2 DEF CheckInv, Fit, files, ServiceTypeOK
  <2>2. ASSUME NEW covers \in BOOLEAN, LoadCorpus(covers)
        PROVE  check' \in Checks /\ readySince' \in Option(0..MaxReplacements) /\ CheckInv'
    <3>1. /\ check' \in Checks /\ check'.stage = "LIST" /\ check'.since = check.since
          /\ check'.sound => check.sound
          /\ readySince' = readySince /\ check.stage = "LOAD"
      BY <1>1, <1>5, <2>2 DEF LoadCorpus, Checking
    <3>2. QED
      BY <1>1, <1>2, <3>1 DEF CheckInv, Fit, files, ServiceTypeOK
  <2>3. CASE ListProfiles
    <3> DEFINE present == {t \in Timeframes : profiles[t] # "ABSENT"}
    <3>1. /\ check' \in Checks /\ check'.stage = "PROFILES" /\ check'.since = check.since
          /\ check'.sound => check.sound
          /\ check'.pending = present
          /\ readySince' = readySince /\ check.stage = "LIST"
      BY <1>1, <1>5, <2>3 DEF ListProfiles, Checking
    <3>2. \A t \in Timeframes \ present : profiles[t] # "INVALID"
      OBVIOUS
    <3>3. QED
      BY <1>1, <1>2, <3>1, <3>2 DEF CheckInv, Fit, files, ServiceTypeOK
  <2>4. ASSUME NEW t \in Timeframes, InspectProfile(t)
        PROVE  check' \in Checks /\ readySince' \in Option(0..MaxReplacements) /\ CheckInv'
    <3>1. /\ check' \in Checks /\ check'.stage = "PROFILES" /\ check'.since = check.since
          /\ check'.sound => check.sound /\ profiles[t] = "VALID"
          /\ check'.pending = check.pending \ {t}
          /\ readySince' = readySince /\ check.stage = "PROFILES"
      BY <1>1, <1>5, <2>4 DEF InspectProfile, Checking
    <3>2. QED
      BY <1>1, <1>2, <3>1 DEF CheckInv, Fit, files, ServiceTypeOK
  <2>5. CASE Verdict
    <3>1. /\ check' = NoCheck /\ check.stage = "PROFILES" /\ check.pending = {}
          /\ readySince' = IF check.sound THEN {check.since} ELSE {}
      BY <2>5 DEF Verdict, Checking
    <3>2. readySince' \in Option(0..MaxReplacements)
      BY <1>1, <3>1 DEF Option
    <3>3. readySince' = {replaced} => check.sound /\ check.since = replaced
      BY <3>1
    <3>4. readySince' = {replaced} => Fit
      BY <1>1, <3>1, <3>3 DEF CheckInv, Fit
    <3>5. \A v \in readySince' : v <= replaced
      BY <1>1, <3>1 DEF CheckInv
    <3>6. QED
      BY <1>1, <1>2, <1>4, <3>1, <3>2, <3>4, <3>5 DEF CheckInv, Fit, files
  <2>6. QED
    BY <2>1, <2>2, <2>3, <2>4, <2>5 DEF HealthReady
<1>7. ServiceTypeOK'
  BY <1>1, <1>2, <1>6 DEF ServiceTypeOK, files
<1>8. QED
  BY <1>3, <1>6, <1>7 DEF ServiceInv

(* A replaced file leaves every handler, check and verdict outdated.       *)
LEMMA ReplaceStep ==
  ASSUME ServiceInv, ReplaceCorpus \/ ReplaceProfile
  PROVE  ServiceInv'
<1>1. /\ ServiceTypeOK /\ CheckInv /\ \A q \in Requests : JobInv(q, job[q])
      /\ replaced \in Nat /\ check.since \in Nat /\ \A v \in readySince : v \in Nat
  BY AskAssumption DEF ServiceInv, ServiceTypeOK, Option
<1>2. /\ replaced' = replaced + 1 /\ replaced' \in 0..MaxReplacements
      /\ UNCHANGED <<crashes, logging, log, ask, job, check, readySince>>
  BY <1>1, AskAssumption DEF ReplaceCorpus, ReplaceProfile, ServiceTypeOK
<1>3. corpus' \in CorpusContents /\ profiles' \in [Timeframes -> ProfileContents]
  BY <1>1 DEF ReplaceCorpus, ReplaceProfile, ServiceTypeOK
<1>4. ServiceTypeOK'
  BY <1>1, <1>2, <1>3 DEF ServiceTypeOK
<1>5. ASSUME NEW q \in Requests PROVE JobInv(q, job[q])'
  BY <1>1, <1>2, JobOutdated
<1>6. CheckInv'
  <2>1. check'.since # replaced' /\ check'.since <= replaced'
    BY <1>1, <1>2 DEF CheckInv
  <2>2. replaced' \notin readySince' /\ \A v \in readySince' : v <= replaced'
    BY <1>1, <1>2 DEF CheckInv
  <2>3. QED
    BY <2>1, <2>2 DEF CheckInv
<1>7. QED
  BY <1>4, <1>5, <1>6 DEF ServiceInv

(* A restart drops the open handlers and the check.                        *)
LEMMA RestartStep ==
  ASSUME ServiceInv, Restart
  PROVE  ServiceInv'
<1> DEFINE Cut == [Idle EXCEPT !.stage = "CUT"]
<1>1. /\ ServiceTypeOK /\ CheckInv /\ \A q \in Requests : JobInv(q, job[q])
      /\ replaced \in Nat
  BY AskAssumption DEF ServiceInv, ServiceTypeOK
<1>2. /\ crashes' \in 0..MaxCrashes /\ logging' \in BOOLEAN /\ check' = NoCheck
      /\ job' = [r \in Requests |-> IF job[r].stage \in Busy THEN Cut ELSE job[r]]
      /\ UNCHANGED <<files, log, ask, readySince>>
  BY <1>1, AskAssumption DEF Restart, ServiceTypeOK
<1>3. /\ Cut \in Jobs /\ Cut.stage = "CUT" /\ Cut.since = 0
      /\ Cut.live = FALSE /\ Cut.scales = << >>
  <2>1. Cut.stage = "CUT" /\ Cut.since = 0 /\ Cut.live = FALSE /\ Cut.scales = << >>
    BY DEF Idle
  <2>2. Cut \in Jobs
    BY IdleType DEF Jobs, Stages
  <2>3. QED
    BY <2>1, <2>2
<1> HIDE DEF Cut
<1>4. \A q : JobInv(q, Cut)
  BY <1>1, <1>3 DEF JobInv, ShapeInv, SourceInv, QuietInv, AfterLoad, Busy
<1>5. ASSUME NEW q \in Requests PROVE JobInv(q, job[q])'
  <2>1. job'[q] = Cut \/ job'[q] = job[q]
    BY <1>2
  <2>2. JobInv(q, job'[q])
    BY <1>1, <1>4, <2>1
  <2>3. QED
    BY <1>2, <2>2, JobFrame
<1>6. job' \in [Requests -> Jobs]
  BY <1>1, <1>2, <1>3 DEF ServiceTypeOK
<1>7. /\ NoCheck \in [stage : {"IDLE", "LOAD", "LIST", "PROFILES"}, since : 0..MaxReplacements,
                     sound : BOOLEAN, pending : SUBSET Timeframes]
      /\ NoCheck.stage = "IDLE" /\ NoCheck.since = 0
  BY AskAssumption DEF NoCheck
<1>8. ServiceTypeOK'
  BY <1>1, <1>2, <1>6, <1>7 DEF ServiceTypeOK, files
<1>9. CheckInv'
  BY <1>1, <1>2, <1>7 DEF CheckInv, Fit, files
<1>10. QED
  BY <1>5, <1>8, <1>9 DEF ServiceInv

(* The files start fit and nobody has asked yet.                           *)
LEMMA ServiceInitially == Init => ServiceInv
<1> SUFFICES ASSUME Init PROVE ServiceInv
  OBVIOUS
<1>1. Idle \in Jobs
  BY IdleType
<1>2. corpus \in CorpusContents /\ profiles \in [Timeframes -> ProfileContents]
  BY ContentsApart DEF Init, ProfileContents
<1>3. log \in [Requests -> Seq(Events)] /\ job \in [Requests -> Jobs]
  BY <1>1 DEF Init
<1>4. check \in [stage : {"IDLE", "LOAD", "LIST", "PROFILES"}, since : 0..MaxReplacements,
                sound : BOOLEAN, pending : SUBSET Timeframes]
      /\ check.since = 0 /\ check.stage = "IDLE"
  BY AskAssumption DEF Init, NoCheck
<1>5. ServiceTypeOK
  BY <1>2, <1>3, <1>4, AskAssumption DEF Init, ServiceTypeOK, Option
<1>6. ASSUME NEW r \in Requests PROVE JobInv(r, job[r])
  <2>1. job[r] = Idle /\ replaced = 0
    BY DEF Init
  <2>2. Idle.stage = "NEW" /\ Idle.since = 0 /\ Idle.live = FALSE /\ Idle.scales = << >>
    BY DEF Idle
  <2>3. QED
    BY <2>1, <2>2 DEF JobInv, ShapeInv, SourceInv, QuietInv, AfterLoad, Busy
<1>7. CheckInv
  BY <1>4 DEF Init, CheckInv
<1>8. QED
  BY <1>5, <1>6, <1>7 DEF ServiceInv

(* The invariant is inductive.                                             *)
LEMMA ServiceInvariant == Spec => []ServiceInv
<1>1. ServiceInv /\ [Next]_vars => ServiceInv'
  <2> SUFFICES ASSUME ServiceInv, [Next]_vars PROVE ServiceInv'
    OBVIOUS
  <2>1. CASE \E r \in Requests : Receive(r) \/ Step(r) \/ Disconnect(r)
    BY <2>1, HandlerStep
  <2>2. CASE HealthReady
    BY <2>2, HealthStep
  <2>3. CASE ReplaceCorpus \/ ReplaceProfile
    BY <2>3, ReplaceStep
  <2>4. CASE Restart
    BY <2>4, RestartStep
  <2>5. CASE UNCHANGED vars
    <3>1. UNCHANGED <<files, crashes, logging, log, ask, job, check, readySince>>
      BY <2>5 DEF vars
    <3>2. \A q \in Requests : JobInv(q, job[q])'
      BY <3>1, JobFrame DEF ServiceInv
    <3>3. ServiceTypeOK' /\ CheckInv'
      BY <3>1 DEF ServiceInv, ServiceTypeOK, CheckInv, Fit, files
    <3>4. QED
      BY <3>2, <3>3 DEF ServiceInv
  <2>6. QED
    BY <2>1, <2>2, <2>3, <2>4, <2>5 DEF Next
<1>2. QED
  BY <1>1, ServiceInitially, PTL DEF Spec

-----------------------------------------------------------------------------
(* What the invariant gives.                                               *)

(* Handlers, logs and verdicts stay within their types: no handler reads a *)
(* timeframe it does not have or evaluates bars it has not loaded.         *)
THEOREM ServiceTypeCorrect == Spec => []ServiceTypeOK
<1>1. ServiceInv => ServiceTypeOK
  BY DEF ServiceInv
<1>2. QED
  BY <1>1, ServiceInvariant, PTL

(* OK and STALE_DATA tell provider bars from corpus bars, for any number   *)
(* of concurrent requests.                                                 *)
THEOREM FreshnessIsStated == Spec => []FreshnessStated
<1>1. ServiceInv => FreshnessStated
  BY DEF ServiceInv, JobInv, SourceInv, FreshnessStated
<1>2. QED
  BY <1>1, ServiceInvariant, PTL

(* A native scale hashes the bars it was computed from, whatever happens   *)
(* to the corpus between scales.                                           *)
THEOREM NativeDigestIdentifies == Spec => []NativeDigestIdentifiesBars
<1>1. ServiceInv => NativeDigestIdentifiesBars
  BY DEF ServiceInv, JobInv, SourceInv, NativeDigestIdentifiesBars
<1>2. QED
  BY <1>1, ServiceInvariant, PTL

(* An answer that no replacement has overtaken is about the present files. *)
THEOREM QuietAnswersAreCurrent == Spec => []QuietAnswersCurrent
<1>1. ServiceInv => QuietAnswersCurrent
  BY DEF ServiceInv, JobInv, QuietInv, CurrentScale, CurrentProfile, QuietAnswersCurrent
<1>2. QED
  BY <1>1, ServiceInvariant, PTL

(* READY is a promise about every corpus-backed request received since the *)
(* last replacement.                                                       *)
THEOREM ReadyMeansServing == Spec => []ReadyServes
<1>1. ServiceInv => ReadyServes
  BY DEF ServiceInv, JobInv, QuietInv, CheckInv, Acceptable, ReadyServes
<1>2. QED
  BY <1>1, ServiceInvariant, PTL

-----------------------------------------------------------------------------
(* The log implements RequestLedger.                                       *)

(* The phase of a handler, as the ledger sees it.                          *)
LEMMA PhaseOfJob ==
  ASSUME NEW r
  PROVE  /\ job[r].stage = "NEW" => Phase(r) = "NEW"
         /\ job[r].stage = "CUT" => Phase(r) = "CUT"
         /\ job[r].stage \in Busy => Phase(r) = "OPEN"
         /\ job[r].stage = "ANSWERED" =>
              Phase(r) = IF job[r].code = 200 THEN "SERVED" ELSE "FAILED"
BY DEF Phase, Busy

(* Only a busy handler is an open request.                                 *)
LEMMA OpenIsBusy ==
  ASSUME ServiceTypeOK, NEW r \in Requests
  PROVE  Phase(r) = "OPEN" <=> job[r].stage \in Busy
<1>1. job[r].stage \in Stages
  BY DEF ServiceTypeOK, Jobs
<1>2. QED
  BY <1>1, PhaseOfJob DEF Stages, Busy

(* A handler's step opens a request, answers it, cuts it, or is invisible  *)
(* in the log.                                                             *)
LEMMA HandlerLedger ==
  ASSUME ServiceInv, NEW r \in Requests, Receive(r) \/ Step(r) \/ Disconnect(r)
  PROVE  [Ledger!Next]_(Ledger!vars)
<1> DEFINE phase == [q \in Requests |-> Phase(q)]
<1>1. /\ job \in [Requests -> Jobs] /\ log \in [Requests -> Seq(Events)]
      /\ UNCHANGED logging
  BY HandlerOutcome DEF ServiceInv, ServiceTypeOK
<1>2. PICK next \in Jobs :
        job' = [job EXCEPT ![r] = next] /\ Logged(r, job[r], next)
  BY HandlerOutcome DEF Outcome
<1>3. job'[r] = next /\ \A q \in Requests \ {r} : job'[q] = job[q]
  BY <1>1, <1>2
<1>4. \A q \in Requests \ {r} : Phase(q)' = Phase(q)
  BY <1>3 DEF Phase
<1>5. phase' = [phase EXCEPT ![r] = Phase(r)']
  BY <1>4
<1>6. /\ next.stage = "CUT" => Phase(r)' = "CUT"
      /\ next.stage \in Busy => Phase(r)' = "OPEN"
      /\ next.stage = "ANSWERED" =>
           Phase(r)' = IF next.code = 200 THEN "SERVED" ELSE "FAILED"
  BY <1>3 DEF Phase, Busy
<1>7. \A event : Record(r, event) <=> Ledger!Record(r, event)
  BY DEF Record, Ledger!Record
<1>8. CASE job[r].stage = "NEW" /\ next.stage \in Busy /\ Record(r, "RECEIVED")
  <2>1. phase[r] = "NEW" /\ phase' = [phase EXCEPT ![r] = "OPEN"]
    BY <1>5, <1>6, <1>8, PhaseOfJob
  <2>2. Ledger!Open(r)
    BY <1>1, <1>7, <1>8, <2>1 DEF Ledger!Open
  <2>3. QED
    BY <2>2 DEF Ledger!Next
<1>9. CASE job[r].stage \in Busy /\ next.stage \in Busy \cup {"CUT"} /\ UNCHANGED log
  <2>1. phase[r] = "OPEN"
    BY <1>9, PhaseOfJob
  <2>2. CASE next.stage = "CUT"
    <3>1. phase' = [phase EXCEPT ![r] = "CUT"]
      BY <1>5, <1>6, <2>2
    <3>2. Ledger!Cut(r)
      BY <1>1, <1>9, <2>1, <3>1 DEF Ledger!Cut
    <3>3. QED
      BY <3>2 DEF Ledger!Next
  <2>3. CASE next.stage \in Busy
    <3>1. phase' = phase
      BY <1>5, <1>6, <2>1, <2>3
    <3>2. QED
      BY <1>1, <1>9, <3>1 DEF Ledger!vars
  <2>4. QED
    BY <1>9, <2>2, <2>3
<1>10. CASE /\ job[r].stage \in Busy /\ next.stage = "ANSWERED"
            /\ Record(r, IF next.code = 200 THEN "SERVED" ELSE "FAILED")
  <2>1. phase[r] = "OPEN"
    BY <1>10, PhaseOfJob
  <2> DEFINE outcome == IF next.code = 200 THEN "SERVED" ELSE "FAILED"
  <2>2. outcome \in {"SERVED", "FAILED"} /\ Record(r, outcome) /\ Phase(r)' = outcome
    BY <1>6, <1>10
  <2> HIDE DEF outcome
  <2>3. phase' = [phase EXCEPT ![r] = outcome]
    BY <1>5, <2>2
  <2>4. Ledger!Answer(r)
    BY <1>1, <1>7, <2>1, <2>2, <2>3 DEF Ledger!Answer
  <2>5. QED
    BY <2>4 DEF Ledger!Next
<1>11. QED
  BY <1>2, <1>8, <1>9, <1>10 DEF Logged

(* Every request leaves one RECEIVED record and at most the one outcome    *)
(* its client was answered with, restarts and disconnections included.     *)
THEOREM LedgerKept == Spec => Ledger!Safety
<1>1. Init => Ledger!Init
  <2> SUFFICES ASSUME Init PROVE Ledger!Init
    OBVIOUS
  <2>1. \A r \in Requests : Phase(r) = "NEW"
    BY DEF Init, Idle, Phase
  <2>2. QED
    BY <2>1 DEF Init, Ledger!Init
<1>2. ServiceInv /\ [Next]_vars => [Ledger!Next]_(Ledger!vars)
  <2> SUFFICES ASSUME ServiceInv, [Next]_vars PROVE [Ledger!Next]_(Ledger!vars)
    OBVIOUS
  <2>1. CASE \E r \in Requests : Receive(r) \/ Step(r) \/ Disconnect(r)
    BY <2>1, HandlerLedger
  <2>2. CASE HealthReady \/ ReplaceCorpus \/ ReplaceProfile \/ UNCHANGED vars
    <3>1. UNCHANGED <<job, log, logging>>
      BY <2>2 DEF HealthReady, HashCorpus, LoadCorpus, ListProfiles, InspectProfile, Verdict,
        Checking, ReplaceCorpus, ReplaceProfile, vars
    <3>2. QED
      BY <3>1 DEF Ledger!vars, Phase
  <2>3. CASE Restart
    <3>1. \A r \in Requests :
            Phase(r)' = IF Phase(r) = "OPEN" THEN "CUT" ELSE Phase(r)
      <4> SUFFICES ASSUME NEW r \in Requests
                   PROVE  Phase(r)' = IF Phase(r) = "OPEN" THEN "CUT" ELSE Phase(r)
        OBVIOUS
      <4>1. job'[r] = IF job[r].stage \in Busy THEN [Idle EXCEPT !.stage = "CUT"] ELSE job[r]
        BY <2>3 DEF Restart
      <4>2. CASE job[r].stage \in Busy
        <5>1. job'[r].stage = "CUT"
          BY <4>1, <4>2 DEF Idle
        <5>2. Phase(r)' = "CUT"
          BY <5>1 DEF Phase
        <5>3. QED
          BY <4>2, <5>2, PhaseOfJob
      <4>3. CASE job[r].stage \notin Busy
        <5>1. Phase(r)' = Phase(r)
          BY <4>1, <4>3 DEF Phase
        <5>2. Phase(r) # "OPEN"
          BY <4>3, OpenIsBusy DEF ServiceInv
        <5>3. QED
          BY <5>1, <5>2
      <4>4. QED
        BY <4>2, <4>3
    <3>2. Ledger!Restart
      BY <2>3, <3>1 DEF Restart, Ledger!Restart
    <3>3. QED
      BY <3>2 DEF Ledger!Next
  <2>4. QED
    BY <2>1, <2>2, <2>3 DEF Next
<1>3. QED
  BY <1>1, <1>2, ServiceInvariant, PTL DEF Spec, Ledger!Safety

=============================================================================
