-------------------------- MODULE ComplexityScorer --------------------------
(***************************************************************************)
(* Phase one of the complexity score: services/complexity_scorer.py.  A    *)
(* request is the set of the phrases in it that a pattern of the scorer    *)
(* matches; the tables below say which.  Beside the text count the paths   *)
(* typed in it and, if it points at them, the files that the editor sent   *)
(* along.  Points are in hundredths, weights in tenths.                    *)
(***************************************************************************)
EXTENDS Integers, Sequences, FiniteSets, FiniteSetsExt, SequencesExt

CONSTANTS
    Vocabulary,     \* the phrases that requests are made of
    MaxPhrases,     \* bound: how many of them are in a request
    FileCounts,     \* the numbers of files that are tried
    Origins         \* the payloads that are tried, apart from the words and files

VARIABLES
    text,           \* the phrases of the request
    files,          \* the paths typed, the files attached, the files with diagnostics
    origin,         \* where the text is in the payload: see Origin
    edited,         \* whether the request was changed since it was scored
    verdict         \* the last verdict

scorerVars == <<text, files, origin, edited, verdict>>

-----------------------------------------------------------------------------
\* Extraction.

\* A user message, once its scaffolding is stripped: nothing, a short reply that
\* only makes sense after an earlier message, or a request.
Turn == {"blank", "followup", "request"}
Origin == [field : {"none", "blank", "request"}, turns : UNION {[1..n -> Turn] : n \in 0..3},
           tag : BOOLEAN, question : BOOLEAN, length : {"one", "few", "many"}]
\* question: the text ends with a question mark; length: its words.

ASSUME ScorerAssumption == Origins \subseteq Origin

\* extract_user_prompt: a prompt field, else the latest message; when that is a
\* follow-up, together with the last request before it.
Prompt ==
    LET n == Len(origin.turns)
        followup == n > 0 /\ origin.turns[n] = "followup"
        found(source, empty, isFollowup) == [source |-> source, empty |-> empty, followup |-> isFollowup]
    IN IF origin.field = "request" THEN found("field", FALSE, FALSE)
       ELSE IF n = 0 THEN found("none", TRUE, FALSE)
       ELSE IF followup /\ Contains(origin.turns, "request") THEN found("history_fallback", FALSE, TRUE)
       ELSE found(IF origin.tag THEN "messages:userRequest" ELSE "messages:last_user",
                  origin.turns[n] = "blank", followup)

-----------------------------------------------------------------------------
\* What the patterns match, by representatives.

\* _TASK_PATTERNS: the task a phrase speaks for.
TaskOf == [explain |-> "explanation", rename |-> "edit", fix |-> "bugfix", crash |-> "bugfix",
           investigate |-> "debugging", deadlock |-> "debugging", refactor |-> "refactor",
           implement |-> "feature", create |-> "feature", latency |-> "optimization", audit |-> "security",
           decompose |-> "architecture", microservices |-> "architecture",
           systemdesign |-> "system_design", millionusers |-> "system_design"]

\* Their weights, in tenths.
Weight == [explanation |-> 10, edit |-> 12, bugfix |-> 14, debugging |-> 18, refactor |-> 16,
           feature |-> 15, optimization |-> 17, security |-> 20, architecture |-> 22, system_design |-> 30]

\* _SCOPE_PATTERNS
ScopeOf == [thisfunction |-> "function", class |-> "class", typeerrors |-> "class", module |-> "module",
            thesefiles |-> "multi_module", systemdesign |-> "service", everywhere |-> "repository",
            allrepos |-> "cross_repository"]

\* _ARCH_CONCEPTS and _SECURITY_FAMILIES: the family a phrase belongs to.
ArchitectureOf == [deadlock |-> "concurrency", microservices |-> "microservices",
                   millionusers |-> "scalability", redis |-> "caching", kafka |-> "messaging"]
SecurityOf == [oauth |-> "authentication", jwt |-> "tokens", payments |-> "payments"]

\* _COMPONENTS: the families of components a phrase names.
ComponentsOf == [oauth |-> {"auth", "external_service"}, jwt |-> {"auth"}, payments |-> {"external_service"},
                 redis |-> {"cache"}, kafka |-> {"queue"}, postgres |-> {"database"}]

HardDebug    == {"deadlock"}                                                    \* _HARD_DEBUG
Complicators == {"rollback", "edgecases"}                                       \* _COMPLICATORS
ActionVerbs  == {"rename", "fix", "refactor", "implement", "create", "systemdesign"}
BreadthWords == {"robust"}
CodeReference == {"thisfunction", "thesefiles"}
ScaleWords   == {"millionusers"}
PointsAtFiles == {"thesefiles"}                                 \* _REFERS_TO_ATTACHMENTS
PointsAtDiagnostics == {"typeerrors"}                           \* _REFERS_TO_DIAGNOSTICS

Found(table) == {table[p] : p \in text \cap DOMAIN table}

-----------------------------------------------------------------------------
\* Task type.

Tasks == <<"system_design", "architecture", "security", "debugging", "optimization",
           "refactor", "feature", "bugfix", "edit", "explanation">>     \* _TASK_PRECEDENCE

PhrasesFor(task) == {p \in text \cap DOMAIN TaskOf : TaskOf[p] = task}
Tally(task) == Weight[task] * Cardinality(PhrasesFor(task))

\* The tasks in the running: an explanation only if there is nothing else, and a
\* bare "fix" not against what says more closely what is to be fixed.
Contenders ==
    LET found  == IF Cardinality(Found(TaskOf)) > 1 THEN Found(TaskOf) \ {"explanation"} ELSE Found(TaskOf)
        closer == {"edit", "debugging", "security", "optimization"}
    IN IF PhrasesFor("bugfix") = {"fix"} /\ found \cap closer # {} THEN found \ {"bugfix"} ELSE found

\* detect_task_type; a request without text is UNKNOWN, one without a known
\* phrase an explanation if it is a question, else an edit.
TaskType(contenders) ==
    LET best == Max({Tally(t) : t \in contenders})
    IN IF Prompt.empty THEN "unknown"
       ELSE IF contenders = {} THEN (IF origin.question THEN "explanation" ELSE "edit")
       ELSE Tasks[SelectInSeq(Tasks, LAMBDA t : t \in contenders /\ Tally(t) = best)]

\* How far the task stands above the runner-up, in ten thousandths.
Strength(task, contenders) ==
    LET rest == {Tally(t) : t \in contenders \ {task}}
    IN IF contenders = {} THEN 2500
       ELSE 5500 + (4500 * (Tally(task) - (IF rest = {} THEN 0 ELSE Max(rest)))) \div Tally(task)

-----------------------------------------------------------------------------
\* Scope.

Scopes == <<"function", "class", "module", "multi_module", "service", "repository", "cross_repository">>
Width(scope) == SelectInSeq(Scopes, LAMBDA s : s = scope)

\* _files_to_scope, as a set of widths.
FilesToScope(n) ==
    IF n = 0 THEN {} ELSE {Width(IF n >= 10 THEN "repository" ELSE IF n >= 2 THEN "multi_module" ELSE "module")}

\* Every scope that the request states: in words, by paths, by pointing at files.
Stated ==
    {Width(s) : s \in Found(ScopeOf)}
        \cup FilesToScope(files.typed)
        \cup (IF text \cap PointsAtFiles # {} THEN FilesToScope(files.attached) ELSE {})
        \cup (IF text \cap PointsAtDiagnostics # {} THEN FilesToScope(files.diagnosed) ELSE {})

DefaultScope(task) ==
    CASE task \in {"explanation", "edit", "unknown"}    -> "function"
      [] task \in {"architecture", "system_design"}     -> "service"
      [] OTHER                                          -> "module"
MinScope(task) ==
    CASE task = "architecture"  -> "multi_module"
      [] task = "system_design" -> "service"
      [] OTHER                  -> "function"

\* detect_scope, as a width: the widest that is stated, else the default, and
\* never narrower than the task can be.
Scope(task, stated) ==
    Max({IF stated = {} THEN Width(DefaultScope(task)) ELSE Max(stated), Width(MinScope(task))})

-----------------------------------------------------------------------------
\* The other dimensions.

Architecture == Found(ArchitectureOf)
Security     == Found(SecurityOf)

\* estimate_dependency_complexity
Dependencies(task) ==
    Max({1, Cardinality(UNION Found(ComponentsOf)),
         IF task \in {"architecture", "system_design"} THEN 3 ELSE 1})

\* The hard concepts that detect_reasoning_depth counts: security is one.
HardConcepts ==
    Cardinality(Architecture) + (IF Security # {} THEN 1 ELSE 0) + (IF text \cap HardDebug # {} THEN 1 ELSE 0)

Depth(task) ==
    IF task \in {"architecture", "system_design", "security"} \/ HardConcepts > 0 THEN "high"
    ELSE IF task \in {"bugfix", "feature", "refactor", "debugging", "optimization"} THEN "medium"
    ELSE "low"

-----------------------------------------------------------------------------
\* Points.

TASK_POINTS ==
    [explanation |-> <<0, 2>>, edit |-> <<1, 3>>, bugfix |-> <<2, 5>>, debugging |-> <<3, 7>>,
     optimization |-> <<3, 7>>, refactor |-> <<3, 6>>, feature |-> <<4, 8>>, security |-> <<3, 6>>,
     architecture |-> <<5, 8>>, system_design |-> <<7, 10>>, unknown |-> <<0, 0>>]

ScopePosition == <<0, 5, 10, 35, 60, 80, 100>>

\* Where in the range of its task a request is.
Position(task, scope) ==
    Min({100, ScopePosition[scope]
        + 15 * Min({3, Max({0, Cardinality(text \cap ActionVerbs) - 1})})
        + (IF text \cap ScaleWords # {} THEN 30 ELSE 0)
        + (IF text \cap BreadthWords # {} THEN 15 ELSE 0)
        + (IF task = "explanation" /\ text \cap CodeReference # {} THEN 50 ELSE 0)})

TaskPoints(task, scope) ==
    LET range == TASK_POINTS[task] IN 100 * range[1] + (range[2] - range[1]) * Position(task, scope)

SecurityPoints(task) ==
    IF Security = {} \/ task = "security" THEN 0 ELSE 100 * Min({6, 2 + Cardinality(Security)})

DependencyPoints(task) == 100 * Min({5, Dependencies(task) - 1})

\* Mutation: the points of high depth start at none.
DepthPointsFromZero(depth) ==
    CASE depth = "high"   -> 100 * Min({5, Max({0, HardConcepts - 1})})
      [] depth = "medium" -> 100 * Min({2, Cardinality(text \cap Complicators)})
      [] depth = "low"    -> 0

DepthPoints(depth) ==
    CASE depth = "high"   -> 100 * (2 + Min({3, Max({0, HardConcepts - 1})}))
      [] depth = "medium" -> 100 * Min({2, Cardinality(text \cap Complicators)})
      [] depth = "low"    -> 0

\* compute_score: the sum, rounded half up and kept within 1 and 20.
Score(task, scope) ==
    LET parts == TaskPoints(task, scope) + SecurityPoints(task) + DependencyPoints(task) + DepthPoints(Depth(task))
    IN IF task = "unknown" THEN 1 ELSE Max({1, Min({20, (100 + parts + 50) \div 100})})

\* _confidence, in hundredths; the sum is in millionths.
Confidence(strength, stated) ==
    LET sum == 350000 + 35 * strength + (IF stated THEN 150000 ELSE 60000)
                + (CASE origin.length = "many" -> 100000 [] origin.length = "few" -> 0 [] OTHER -> -150000)
                + (IF Prompt.source \in {"field", "messages:userRequest"} THEN 50000 ELSE 0)
                - (IF Prompt.followup THEN 200000 ELSE 0)
    IN IF Prompt.empty THEN 5 ELSE Max({5, Min({99, (sum + 5000) \div 10000})})

NoVerdict == [given |-> FALSE, task |-> "unknown", scope |-> 0, position |-> 0, score |-> 1, confidence |-> 5]

\* score_request
Verdict ==
    LET contenders == Contenders
        task   == TaskType(contenders)
        stated == Stated
        scope  == Scope(task, stated)
    IN [given |-> TRUE, task |-> task, scope |-> scope, position |-> Position(task, scope), score |-> Score(task, scope),
        confidence |-> Confidence(Strength(task, contenders), stated # {})]

-----------------------------------------------------------------------------
\* Requests.

ScorerInit ==
    /\ origin \in Origins
    /\ text = {}
    /\ files = [typed |-> 0, attached |-> 0, diagnosed |-> 0]
    /\ edited = TRUE
    /\ verdict = NoVerdict

ScoreRequest ==
    /\ edited
    /\ verdict' = Verdict
    /\ edited' = FALSE
    /\ UNCHANGED <<text, files, origin>>

\* The client sends the request again with one more phrase in it,
Say(phrase) ==
    /\ ~edited /\ ~Prompt.empty /\ phrase \notin text
    /\ Cardinality(text) < (IF origin.length = "one" THEN 1 ELSE MaxPhrases)
    /\ text' = text \cup {phrase}
    /\ edited' = TRUE
    /\ UNCHANGED <<files, origin, verdict>>

\* or with more paths in it, or with the same text and more files sent along.
AddFiles(kind, n) ==
    /\ ~edited /\ ~Prompt.empty /\ n > files[kind]
    /\ files' = [files EXCEPT ![kind] = n]
    /\ edited' = TRUE
    /\ UNCHANGED <<text, origin, verdict>>

ScorerNext ==
    \/ ScoreRequest
    \/ \E phrase \in Vocabulary : Say(phrase)
    \/ \E kind \in {"typed", "attached", "diagnosed"}, n \in FileCounts : AddFiles(kind, n)

ScorerSpec == ScorerInit /\ [][ScorerNext]_scorerVars

(***************************************************************************)
(* Properties.                                                             *)
(***************************************************************************)

\* Types of the state and of what is computed from it: points within the range
\* of their task, a score from 1 to 20, a confidence from 0.05 to 0.99.
ScorerTypeOK ==
    /\ text \subseteq Vocabulary
    /\ origin \in Origin
    /\ edited \in BOOLEAN
    /\ verdict.position \in 0..100 /\ verdict.score \in 1..20 /\ verdict.confidence \in 5..99

\* A phrase or a path more never lowers the score of a request that remains the
\* same task and is stated no narrower ("a wider scope never places a task lower").
MoreIsNeverLess ==
    [][verdict.given /\ verdict'.task = verdict.task /\ verdict'.scope >= verdict.scope
          => verdict'.score >= verdict.score]_scorerVars
=============================================================================
