---------------------------- MODULE Registration ----------------------------
(***************************************************************************)
(* Registration of influencers: the page of one browser, at which people   *)
(* register one after the other, the versions of the terms they accept,    *)
(* and the rows the API makes of what is sent.                             *)
(*                                                                         *)
(* The page keeps the versions it fetched and awaits the answer to what it *)
(* sends, which may be lost after the API has done its part.  The API may  *)
(* restart: it keeps nothing but what it is seeded with.                   *)
(***************************************************************************)
EXTENDS Integers, FiniteSets

CONSTANTS
  People,           \* how many register: the data somebody gives
  VersionCount, RegistrationCount, FaultCount   \* bounds of the model

ASSUME RegistrationConstants ==
  /\ {People, VersionCount, RegistrationCount, FaultCount} \subseteq Nat
  /\ VersionCount # 0            \* one version is seeded

VARIABLES
  versions,         \* policyVersions, the terms: who is active, by version
  boots,            \* starts of the API
  registered,       \* influencers of the API
  page,             \* the terms the page has, and the start of the API they come from
  sent              \* the request that is out

registrationVars == <<versions, boots, registered, page, sent>>

\* A version is known by the start it was published in and its number; the seeded
\* one has the same id after every start.
Version == (0..FaultCount) \X (1..VersionCount)
Seeded == <<0, 1>>
NoVersion == <<0, 0>>

\* What the form sends, and what the API makes of it.
Form == [person : 1..People, terms : Version, fetched : 0..FaultCount]
NoForm == [person |-> 0, terms |-> NoVersion, fetched |-> 0]
NoRequest == [stage |-> "none", form |-> NoForm]

RegistrationTypeOK ==
  /\ DOMAIN versions \subseteq Version
  /\ versions \in [DOMAIN versions -> BOOLEAN]
  /\ boots \in 0..FaultCount
  /\ registered \subseteq [form : Form, number : 1..RegistrationCount]
  /\ page \in [terms : Version \cup {NoVersion}, fetched : 0..FaultCount]
  /\ sent \in [stage : {"none", "out", "made"}, form : Form \cup {NoForm}]

RegistrationInit ==
  /\ versions = [v \in {Seeded} |-> TRUE]
  /\ boots = 0
  /\ registered = {}
  /\ page = [terms |-> NoVersion, fetched |-> 0]
  /\ sent = NoRequest

----------------------------------------------------------------------------
(* Policies. *)

\* Mutant of PublishedVersions: the versions before stay active.
PublishedVersions_AllActive(version) ==
  [v \in DOMAIN versions \cup {version} |-> TRUE]

PublishedVersions(version) ==
  [v \in DOMAIN versions \cup {version} |-> v = version]

\* publishPolicyVersion.
PublishPolicyVersion ==
  LET version == <<boots, Cardinality(DOMAIN versions) + 1>> IN
  /\ version \in Version
  /\ versions' = PublishedVersions(version)
  /\ UNCHANGED <<boots, registered, page, sent>>

ActiveVersions == {v \in DOMAIN versions : versions[v]}

\* getPolicyVersionById, generateConsentCertificate: of a consent that the influencer
\* has given, if its version is still known.
IsKnownVersion(version) == version \in DOMAIN versions
CanBeCertified(row, version) == row.form.terms = version /\ IsKnownVersion(version)

\* useActivePolicies: fetched when the page opens, and again at any time.
FetchPolicies ==
  /\ \E v \in ActiveVersions : page' = [terms |-> v, fetched |-> boots]
  /\ UNCHANGED <<versions, boots, registered, sent>>

\* The API starts again.  A request that is out has failed.
RestartApi ==
  /\ boots < FaultCount
  /\ boots' = boots + 1
  /\ versions' = [v \in {Seeded} |-> TRUE]
  /\ registered' = {}
  /\ sent' = NoRequest
  /\ UNCHANGED page

----------------------------------------------------------------------------
(* The page. *)

\* handleSubmit, up to the request, of whoever fills in the form.  The button is
\* loading while a request is out, and without terms nothing is sent.
Submit(person) ==
  /\ page.terms # NoVersion
  /\ sent.stage = "none"
  /\ sent' = [stage |-> "out",
              form |-> [person |-> person, terms |-> page.terms, fetched |-> page.fetched]]
  /\ UNCHANGED <<versions, boots, registered, page>>

\* registerPublicInfluencer, createInfluencer: a new influencer, whatever the e-mail
\* and the document.
RegisterPublicInfluencer ==
  /\ sent.stage = "out"
  /\ Cardinality(registered) < RegistrationCount
  /\ registered' = registered \cup
       {[form |-> sent.form, number |-> Cardinality(registered) + 1]}
  /\ sent' = [sent EXCEPT !.stage = "made"]
  /\ UNCHANGED <<versions, boots, page>>

\* The answer empties the form.  When the request or its answer is lost the form
\* stays as it is.  Either may be filled in and sent by anybody.
RegistrationEnds ==
  /\ sent.stage \in {"out", "made"}
  /\ sent' = NoRequest
  /\ UNCHANGED <<versions, boots, registered, page>>

RegistrationNext ==
  \/ PublishPolicyVersion
  \/ FetchPolicies
  \/ RestartApi
  \/ \E person \in 1..People : Submit(person)
  \/ RegisterPublicInfluencer
  \/ RegistrationEnds

----------------------------------------------------------------------------

\* Of the terms one version is active, whatever was published and restarted, and
\* a consent to terms that were fetched from the API as it runs can be certified,
\* be they the active ones still or not (generateConsentCertificate).
ConsentsCanBeCertified ==
  /\ Cardinality(ActiveVersions) = 1
  /\ \A row \in registered : row.form.fetched = boots => CanBeCertified(row, row.form.terms)

\* docs/qa_manual_checklist.md:8, of the registration: who registers with the data of
\* an influencer there is gets an error, so that nobody is two influencers.  Neither
\* the page nor createInfluencer looks for one.
DuplicatesAreRefused ==
  \A row, other \in registered : row.form.person = other.form.person => row = other

=============================================================================
