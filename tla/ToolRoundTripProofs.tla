------------------------- MODULE ToolRoundTripProofs -------------------------
(***************************************************************************)
(* Theorems about ToolRoundTrip for any tools of the client, any tools of  *)
(* Cursor and any number of requests: every request to execute is answered *)
(* once, is one call or none in the response, by a tool the client         *)
(* declared if it is for one of Cursor's, and neither its call nor its     *)
(* result goes where it may not.                                           *)
(***************************************************************************)
EXTENDS ToolRoundTrip, SequenceTheorems, FiniteSetTheorems, WellFoundedInduction, TLAPS

\* The order of the numbers is well-founded: the least and the greatest exist.
LEMMA LessWellFounded == IsWellFoundedOn({p \in Nat \X Nat : p[1] < p[2]}, Nat)
BY NatLessThanWellFounded, Zenon DEF OpToRel

\* The minimum of a set of numbers is in it, below the others.
LEMMA MinIsLeast ==
  ASSUME NEW S \in SUBSET Nat, S # {}
  PROVE  Min(S) \in S /\ \A n \in S : Min(S) <= n
<1>1. PICK n \in S : \A m \in S : ~(<<m, n>> \in {p \in Nat \X Nat : p[1] < p[2]})
  BY LessWellFounded, WFMin, Zenon
<1>2. ASSUME NEW m \in S PROVE n <= m
  <2>1. m \in Nat /\ n \in Nat
    OBVIOUS
  <2>2. m < n => <<m, n>> \in {p \in Nat \X Nat : p[1] < p[2]}
    BY <2>1
  <2>3. ~(m < n)
    BY <1>1, <2>2
  <2> QED
    BY <2>1, <2>3
<1> QED
  BY <1>2 DEF Min

\* The maximum of a bounded set of numbers is in it.
LEMMA MaxIsGreatest ==
  ASSUME NEW b \in Nat, NEW S \in SUBSET 1..b, S # {}
  PROVE  Max(S) \in S
<1> DEFINE Gaps == {b - n : n \in S}
<1>1. Gaps \in SUBSET Nat /\ Gaps # {}
  <2>1. \A n \in S : n \in Nat /\ n <= b
    OBVIOUS
  <2>2. \A n \in S : b - n \in Nat
    BY <2>1
  <2> QED
    BY <2>2
<1>2. PICK n \in S : Min(Gaps) = b - n
  BY <1>1, MinIsLeast
<1>3. \A m \in S : b - n <= b - m
  BY <1>1, <1>2, MinIsLeast
<1>4. \A m \in S : n >= m
  BY <1>3
<1> QED
  BY <1>4 DEF Max

\* Every entry of the table is a sequence.
LEMMA AliasesAreSequences ==
  ASSUME NEW base \in MappedBases
  PROVE  nativeToolAliases[base] \in Seq(ToSet(nativeToolAliases[base]))
BY DEF MappedBases, nativeToolAliases, ToSet

LEMMA AliasesOfAnyTool ==
  ASSUME NEW base
  PROVE  \E S : Aliases(base) \in Seq(S)
<1>1. CASE base \in MappedBases
  BY <1>1, AliasesAreSequences DEF Aliases
<1>2. CASE base \notin MappedBases
  BY <1>2 DEF Aliases
<1> QED
  BY <1>1, <1>2

\* So is what is tried for a tool, mapped or not.
LEMMA TriedIsASequence ==
  ASSUME NEW base
  PROVE  Tried(base) \in Seq(Equivalents(base))
<1>1. PICK S : Aliases(base) \in Seq(S)
  BY AliasesOfAnyTool
<1>2. <<Normal(base)>> \in Seq({Normal(base)})
  OBVIOUS
<1>3. Tried(base) \in Seq({Normal(base)} \cup S)
  BY <1>1, <1>2, SeqMonotonic DEF Tried
<1> QED
  BY <1>3 DEF Equivalents, ToSet

\* The first hit is declared, and nothing tried before it is.
LEMMA FirstHitIsFirst ==
  ASSUME NEW index, NEW base
  PROVE  /\ FirstHit(index, base) \in 0..Len(Tried(base))
         /\ FirstHit(index, base) = 0 => \A i \in DOMAIN Tried(base) : Tried(base)[i] \notin DOMAIN index
         /\ FirstHit(index, base) # 0 =>
              /\ Tried(base)[FirstHit(index, base)] \in DOMAIN index
              /\ \A i \in 1..(FirstHit(index, base) - 1) : Tried(base)[i] \notin DOMAIN index
<1> DEFINE I == {i \in 1..Len(Tried(base)) : Tried(base)[i] \in DOMAIN index}
<1>1. Len(Tried(base)) \in Nat /\ DOMAIN Tried(base) = 1..Len(Tried(base))
  BY TriedIsASequence
<1>2. I \in SUBSET Nat
  BY <1>1
<1>3. I # {} => Min(I) \in I /\ \A n \in I : Min(I) <= n
  BY <1>2, MinIsLeast
<1>4. FirstHit(index, base) = IF I # {} THEN Min(I) ELSE 0
  BY DEF FirstHit, SelectInSeq
<1>5. CASE I = {}
  BY <1>1, <1>4, <1>5
<1>6. CASE I # {}
  <2>1. FirstHit(index, base) \in I /\ \A n \in I : FirstHit(index, base) <= n
    BY <1>3, <1>4, <1>6
  <2> HIDE DEF I
  <2>2. \A n : n \in I <=> n \in 1..Len(Tried(base)) /\ Tried(base)[n] \in DOMAIN index
    BY DEF I
  <2>3. \A n \in 1..(FirstHit(index, base) - 1) : n \notin I /\ n \in 1..Len(Tried(base))
    BY <1>1, <2>1, <2>2
  <2> QED
    BY <1>1, <2>1, <2>2, <2>3
<1> QED
  BY <1>5, <1>6

\* The index has the normal forms of the named tools, each with such a tool.
LEMMA IndexedAreDeclared ==
  ASSUME NEW tools \in Seq(ClientTools)
  PROVE  LET index == newClientToolIndex(tools)
         IN /\ DOMAIN index = {tools[i].norm : i \in Named(tools)}
            /\ \A n \in DOMAIN index : \E i \in Named(tools) : tools[i].norm = n /\ index[n] = tools[i]
<1> DEFINE With(n) == {i \in Named(tools) : tools[i].norm = n}
<1>1. ASSUME NEW n \in {tools[i].norm : i \in Named(tools)}
      PROVE  Max(With(n)) \in With(n)
  <2>1. Len(tools) \in Nat /\ With(n) \in SUBSET (1..Len(tools)) /\ With(n) # {}
    BY DEF Named
  <2> QED
    BY <2>1, MaxIsGreatest
<1>2. newClientToolIndex(tools) = [n \in {tools[i].norm : i \in Named(tools)} |-> tools[Max(With(n))]]
  BY DEF newClientToolIndex
<1> QED
  BY <1>1, <1>2

\* What a tool of Cursor is taken for is declared, and the preferred one that is;
\* it is found exactly if the client declared any equivalent.
LEMMA ResolvedIsDeclared ==
  ASSUME NEW tools \in Seq(ClientTools), NEW base
  PROVE  LET tool == resolveClientTool(newClientToolIndex(tools), base)
             hits == {i \in Named(tools) : tools[i].norm \in Equivalents(base)}
         IN /\ tool # NoTool <=> hits # {}
            /\ tool # NoTool =>
                 /\ \E i \in Named(tools) : tool = tools[i]
                 /\ \E n \in DOMAIN Tried(base) :
                      /\ Tried(base)[n] = tool.norm
                      /\ \A m \in 1..(n - 1) : \A j \in Named(tools) : tools[j].norm # Tried(base)[m]
<1> DEFINE index == newClientToolIndex(tools)
           hit == FirstHit(index, base)
           tool == resolveClientTool(index, base)
<1>1. Len(Tried(base)) \in Nat /\ DOMAIN Tried(base) = 1..Len(Tried(base))
  BY TriedIsASequence
<1>2. /\ DOMAIN index = {tools[i].norm : i \in Named(tools)}
      /\ \A n \in DOMAIN index : \E i \in Named(tools) : tools[i].norm = n /\ index[n] = tools[i]
  BY IndexedAreDeclared
<1>3. /\ hit \in 0..Len(Tried(base))
      /\ hit = 0 => \A i \in DOMAIN Tried(base) : Tried(base)[i] \notin DOMAIN index
      /\ hit # 0 => /\ Tried(base)[hit] \in DOMAIN index
                    /\ \A i \in 1..(hit - 1) : Tried(base)[i] \notin DOMAIN index
  BY FirstHitIsFirst
<1>4. tool = IF hit = 0 THEN NoTool ELSE index[Tried(base)[hit]]
  BY DEF resolveClientTool
<1>5. \A i \in Named(tools) : tools[i] # NoTool
  <2>1. \A i \in Named(tools) : tools[i] \in ClientTools
    BY DEF Named
  <2>2. NoTool.spelling = "none"
    BY DEF NoTool
  <2> QED
    BY <2>1, <2>2, ClientToolsAssumption
<1>6. Equivalents(base) = {Tried(base)[i] : i \in DOMAIN Tried(base)}
  BY <1>1 DEF Equivalents, ToSet
<1> HIDE DEF index, hit, tool
<1>7. CASE hit = 0
  BY <1>2, <1>3, <1>4, <1>6, <1>7 DEF index, tool
<1>8. CASE hit # 0
  <2>1. hit \in DOMAIN Tried(base)
    BY <1>1, <1>3, <1>8
  <2>2. PICK i \in Named(tools) : tools[i].norm = Tried(base)[hit] /\ tool = tools[i]
    BY <1>2, <1>3, <1>4, <1>8
  <2>3. tool # NoTool
    BY <1>5, <2>2
  <2>4. tools[i].norm \in Equivalents(base)
    BY <1>6, <2>1, <2>2
  <2>5. \A m \in 1..(hit - 1) : \A j \in Named(tools) : tools[j].norm # Tried(base)[m]
    BY <1>2, <1>3, <1>8
  <2> QED
    BY <2>1, <2>2, <2>3, <2>4, <2>5 DEF index, tool
<1> QED
  BY <1>7, <1>8

\* A tool declared under Cursor's own name is preferred to every alias
\* (toolmap.go:90-95).
THEOREM OwnNameWins ==
  ASSUME NEW tools \in Seq(ClientTools), NEW base,
         NEW i \in Named(tools), tools[i].norm = Normal(base)
  PROVE  resolveClientTool(newClientToolIndex(tools), base).norm = Normal(base)
<1> DEFINE tool == resolveClientTool(newClientToolIndex(tools), base)
<1>1. Len(Tried(base)) \in Nat /\ DOMAIN Tried(base) = 1..Len(Tried(base))
  BY TriedIsASequence
<1>2. Len(Tried(base)) >= 1 /\ Tried(base)[1] = Normal(base)
  <2>1. PICK S : Aliases(base) \in Seq(S)
    BY AliasesOfAnyTool
  <2>2. Aliases(base) \in Seq(S \cup {Normal(base)}) /\ <<Normal(base)>> \in Seq(S \cup {Normal(base)})
    BY <2>1, SeqMonotonic
  <2> QED
    BY <2>2 DEF Tried
<1>3. Normal(base) \in Equivalents(base)
  BY <1>1, <1>2 DEF Equivalents, ToSet
<1>4. tool # NoTool
  BY <1>3, ResolvedIsDeclared
<1>5. PICK n \in DOMAIN Tried(base) :
        /\ Tried(base)[n] = tool.norm
        /\ \A m \in 1..(n - 1) : \A j \in Named(tools) : tools[j].norm # Tried(base)[m]
  BY <1>4, ResolvedIsDeclared
<1>6. n = 1
  BY <1>1, <1>2, <1>5
<1> QED
  BY <1>2, <1>5, <1>6

\* No name in the table is a field of Cursor's.
LEMMA NoFieldIsTried ==
  ASSUME NEW base \in ExecBases
  PROVE  FieldForm \notin Equivalents(base)
<1>1. Normal(base) # FieldForm
  BY DEF ExecBases, Normal, Separated, FieldForm
<1>2. FieldForm \notin ToSet(Aliases(base))
  <2>1. CASE base \in MappedBases
    <3>1. FieldForm \notin ToSet(nativeToolAliases[base])
      BY <2>1 DEF MappedBases, nativeToolAliases, FieldForm, ToSet
    <3> QED
      BY <2>1, <3>1 DEF Aliases
  <2>2. CASE base \notin MappedBases
    BY <2>2 DEF Aliases, ToSet
  <2> QED
    BY <2>1, <2>2
<1>3. PICK S : Aliases(base) \in Seq(S)
  BY AliasesOfAnyTool
<1>4. ASSUME NEW i \in DOMAIN Tried(base)
      PROVE  Tried(base)[i] = Normal(base) \/ \E j \in DOMAIN Aliases(base) : Tried(base)[i] = Aliases(base)[j]
  <2> DEFINE s == Aliases(base)
  <2>1. s \in Seq(S \cup {Normal(base)}) /\ <<Normal(base)>> \in Seq(S \cup {Normal(base)})
    BY <1>3, SeqMonotonic
  <2>2. Len(s) \in Nat /\ DOMAIN s = 1..Len(s) /\ i \in 1..(Len(s) + 1)
    BY <2>1 DEF Tried
  <2>3. Tried(base)[i] = IF i = 1 THEN Normal(base) ELSE s[i - 1]
    BY <2>1, <2>2 DEF Tried
  <2>4. i # 1 => i - 1 \in DOMAIN s
    BY <2>2
  <2> HIDE DEF s
  <2>5. i # 1 => \E j \in DOMAIN s : Tried(base)[i] = s[j]
    BY <2>3, <2>4
  <2> QED
    BY <2>3, <2>5 DEF s
<1> QED
  BY <1>1, <1>2, <1>4 DEF Equivalents, ToSet

\* So what a tool of Cursor's is taken for has another name.
LEMMA ResolvedIsNotRaw ==
  ASSUME NEW tools \in Seq(ClientTools), NEW base \in ExecBases,
         resolveClientTool(newClientToolIndex(tools), base) # NoTool
  PROVE  ~IsRaw(resolveClientTool(newClientToolIndex(tools), base))
<1>1. DOMAIN Tried(base) = 1..Len(Tried(base))
  BY TriedIsASequence
<1>2. resolveClientTool(newClientToolIndex(tools), base).norm \in Equivalents(base)
  BY <1>1, ResolvedIsDeclared DEF Equivalents, ToSet
<1> QED
  BY <1>2, NoFieldIsTried DEF IsRaw

\* Every request to execute gets an answer, in a field that there is.
LEMMA AnswerIsGiven ==
  ASSUME NEW base \in ExecBases \cup {"mcp", "request_context"}
  PROVE  \E answer : /\ ExecAnswer(base) = <<answer>>
                     /\ answer.field \in ClientFields
                     /\ answer.outcome \in IF base = "request_context" THEN {"success"}
                                           ELSE {"rejected", "error", "failure"}
<1> DEFINE priority == declineOutcomeFieldPriority
           I == {i \in 1..Len(priority) : priority[i] \in Outcomes[base]}
           field == execArgsToResultFieldName(base)
<1>1. base \in DOMAIN Outcomes
  BY DEF ExecBases, Outcomes
<1>2. field \in ClientFields
  BY <1>1 DEF ClientFields, execArgsToResultFieldName
<1>3. Outcomes[base] \cap {"rejected", "error", "failure"} # {}
  BY DEF ExecBases, Outcomes
<1>4. /\ Len(priority) = 3
      /\ priority[1] = "rejected" /\ priority[2] = "error" /\ priority[3] = "failure"
  BY DEF declineOutcomeFieldPriority
<1>5. I \in SUBSET Nat /\ I \subseteq 1..3 /\ I # {}
  BY <1>3, <1>4
<1>6. Min(I) \in 1..3
  BY <1>5, MinIsLeast
<1>7. DeclineOutcome(base) = IF I = {} THEN "none" ELSE priority[Min(I)]
  BY <1>5, <1>6 DEF DeclineOutcome, SelectInSeq
<1>8. DeclineOutcome(base) \in {"rejected", "error", "failure"}
  BY <1>4, <1>5, <1>6, <1>7
<1> HIDE DEF field
<1> QED
  BY <1>2, <1>8 DEF ExecAnswer, field

-----------------------------------------------------------------------------
(* The inductive invariant.                                                *)

Executed(k) == requests[k].kind \in {"native", "mcp"}

Asked == [kind : {"native"}, base : Natives] \cup [kind : {"mcp"}, tool : ClientTools \ {Unnamed}]
           \cup [kind : {"context"}] \cup [kind : {"completed"}, base : Completed]

Report == [request : Nat, args : BOOLEAN]
Given == [field : ClientFields, outcome : {"success", "rejected", "error", "failure"}]
GivenAnswer == [request : Nat, given : Given]
Call == [tool : (ClientTools \ {Unnamed}) \cup {Raw(base) : base \in Completed}, request : Nat]

TypeOK ==
  /\ phase \in {"turn", "response", "responded", "returned"}
  /\ declared \in Seq(ClientTools)
  /\ requests \in Seq(Asked)
  /\ updates \in Seq(Report)
  /\ captured \in Seq(Nat)
  /\ answers \in Seq(GivenAnswer)
  /\ toolCalls \in Seq(Call)
  /\ folded \in 0..Len(updates) /\ added \in 0..Len(captured)

\* Only what Cursor completes itself is reported with args, and once.
UpdatesPlaced ==
  /\ \A i \in DOMAIN updates : /\ updates[i].request \in DOMAIN requests
                               /\ updates[i].args <=> requests[updates[i].request].kind = "completed"
  /\ \A i, j \in DOMAIN updates :
       updates[i].args /\ updates[j].args /\ updates[i].request = updates[j].request => i = j
  /\ \A k \in DOMAIN requests : requests[k].kind = "completed" =>
       \E i \in DOMAIN updates : updates[i].request = k

\* What is to be executed is captured once; what is reported back is of it.
CapturedPlaced ==
  /\ \A i \in DOMAIN captured : captured[i] \in DOMAIN requests /\ Executed(captured[i])
  /\ \A i, j \in DOMAIN captured : captured[i] = captured[j] => i = j
  /\ \A k \in DOMAIN requests : Executed(k) => \E i \in DOMAIN captured : captured[i] = k
  /\ \A k \in echoes : k \in DOMAIN requests /\ Executed(k)

\* Every request to execute has one answer.
AnswersPlaced ==
  /\ \A i \in DOMAIN answers :
       /\ answers[i].request \in DOMAIN requests
       /\ requests[answers[i].request].kind # "completed"
       /\ requests[answers[i].request].kind = "context" <=> answers[i].given.outcome = "success"
  /\ \A i, j \in DOMAIN answers : answers[i].request = answers[j].request => i = j
  /\ \A k \in DOMAIN requests : requests[k].kind # "completed" =>
       \E i \in DOMAIN answers : answers[i].request = k

\* The response has the calls of the updates and captured requests it has
\* been through, one each, and no others.
CallsPlaced ==
  /\ phase = "turn" => folded = 0 /\ added = 0 /\ toolCalls = <<>>
  /\ added > 0 => folded = Len(updates)
  /\ phase \in {"responded", "returned"} => folded = Len(updates) /\ added = Len(captured)
  /\ \A i \in DOMAIN toolCalls :
       LET k == toolCalls[i].request IN
       /\ k \in DOMAIN requests
       /\ \/ /\ requests[k].kind = "completed" /\ toolCalls[i].tool = Raw(requests[k].base)
             /\ \E j \in 1..folded : updates[j].args /\ updates[j].request = k
          \/ /\ Executed(k) /\ toolCalls[i].tool = CapturedTool(k) /\ CapturedTool(k) # NoTool
             /\ \E j \in 1..added : captured[j] = k
  /\ \A i, j \in DOMAIN toolCalls : toolCalls[i].request = toolCalls[j].request => i = j
  /\ \A j \in 1..folded : updates[j].args =>
       \E i \in DOMAIN toolCalls : toolCalls[i].request = updates[j].request
  /\ \A j \in 1..added : CapturedTool(captured[j]) # NoTool =>
       \E i \in DOMAIN toolCalls : toolCalls[i].request = captured[j]

RebuiltPlaced ==
  /\ DOMAIN rebuilt \subseteq DOMAIN toolCalls
  /\ phase # "returned" => rebuilt = <<>>
  /\ \A i \in DOMAIN rebuilt :
       {rebuilt[i].call, rebuilt[i].result} \subseteq RebuiltVariants(toolCalls[i].tool)

IInv == TypeOK /\ UpdatesPlaced /\ CapturedPlaced /\ AnswersPlaced /\ CallsPlaced /\ RebuiltPlaced

-----------------------------------------------------------------------------
(* The steps.                                                              *)

\* One more request leaves the earlier ones as they are.
LEMMA OneMoreRequest ==
  ASSUME TypeOK, NEW r \in Asked, Ask(r), declared' = declared
  PROVE  /\ requests' \in Seq(Asked)
         /\ Len(requests') \in Nat /\ Len(requests') \notin DOMAIN requests
         /\ DOMAIN requests' = DOMAIN requests \cup {Len(requests')}
         /\ requests'[Len(requests')] = r
         /\ \A k \in DOMAIN requests : requests'[k] = requests[k]
         /\ phase = "turn"
<1>1. requests \in Seq(Asked) /\ requests' = Append(requests, r) /\ phase = "turn"
  BY DEF TypeOK, Ask
<1> QED
  BY <1>1, AppendProperties

\* While the turn lasts there is no response to speak of.
LEMMA NoResponseYet ==
  ASSUME CallsPlaced, RebuiltPlaced, phase = "turn", phase' = "turn", UNCHANGED response
  PROVE  CallsPlaced' /\ RebuiltPlaced'
<1>1. toolCalls' = <<>> /\ folded' = 0 /\ added' = 0 /\ rebuilt' = <<>>
  BY DEF CallsPlaced, RebuiltPlaced, response
<1> QED
  BY <1>1 DEF CallsPlaced, RebuiltPlaced

\* The answer given with a request is the one answer to it.
LEMMA AnswerSteps ==
  ASSUME TypeOK, AnswersPlaced, NEW r \in Asked, Ask(r), declared' = declared,
         NEW base \in ExecBases \cup {"mcp", "request_context"}, Answer(base),
         r.kind # "completed", r.kind = "context" <=> base = "request_context"
  PROVE  /\ answers' \in Seq(GivenAnswer)
         /\ AnswersPlaced'
<1> DEFINE new == Len(requests')
<1>1. /\ new \in Nat /\ new \notin DOMAIN requests
      /\ DOMAIN requests' = DOMAIN requests \cup {new} /\ requests'[new] = r
      /\ \A k \in DOMAIN requests : requests'[k] = requests[k]
  BY OneMoreRequest
<1>2. PICK answer : /\ ExecAnswer(base) = <<answer>>
                    /\ answer.field \in ClientFields
                    /\ answer.outcome \in IF base = "request_context" THEN {"success"}
                                          ELSE {"rejected", "error", "failure"}
  BY AnswerIsGiven
<1>3. answer = [field |-> answer.field, outcome |-> answer.outcome]
  BY <1>2 DEF ExecAnswer
<1>4. answer \in Given /\ (answer.outcome = "success" <=> r.kind = "context")
  BY <1>2, <1>3 DEF Given
<1> HIDE DEF new
<1>5. [i \in DOMAIN <<answer>> |-> [request |-> new, given |-> <<answer>>[i]]]
        = <<[request |-> new, given |-> answer]>>
  OBVIOUS
<1>6. answers' = answers \o <<[request |-> new, given |-> answer]>>
  BY <1>2, <1>5 DEF Answer, new
<1>7. answers \in Seq(GivenAnswer)
  BY DEF TypeOK
<1> [request |-> new, given |-> answer] \in GivenAnswer
  BY <1>1, <1>4 DEF GivenAnswer, new
<1>8. answers' = Append(answers, [request |-> new, given |-> answer])
  BY <1>6, <1>7, AppendIsConcat
<1>9. /\ answers' \in Seq(GivenAnswer)
      /\ DOMAIN answers = 1..Len(answers) /\ Len(answers) \in Nat
      /\ DOMAIN answers' = DOMAIN answers \cup {Len(answers) + 1}
      /\ answers'[Len(answers) + 1] = [request |-> new, given |-> answer]
      /\ \A i \in DOMAIN answers : answers'[i] = answers[i]
  BY <1>1, <1>4, <1>7, <1>8, AppendProperties
<1>10. \A i \in DOMAIN answers' :
         /\ answers'[i].request \in DOMAIN requests'
         /\ requests'[answers'[i].request].kind # "completed"
         /\ requests'[answers'[i].request].kind = "context" <=> answers'[i].given.outcome = "success"
  BY <1>1, <1>4, <1>9 DEF AnswersPlaced
<1>11. \A i, j \in DOMAIN answers' : answers'[i].request = answers'[j].request => i = j
  BY <1>1, <1>9 DEF AnswersPlaced
<1>12. \A k \in DOMAIN requests' : requests'[k].kind # "completed" =>
         \E i \in DOMAIN answers' : answers'[i].request = k
  BY <1>1, <1>9 DEF AnswersPlaced
<1>13. AnswersPlaced'
  BY <1>10, <1>11, <1>12 DEF AnswersPlaced
<1> QED
  BY <1>9, <1>13

\* A request to execute is captured, answered and owed a report.
LEMMA CaptureSteps ==
  ASSUME IInv, NEW r \in Asked, Ask(r), r.kind \in {"native", "mcp"},
         NEW base \in ExecBases \cup {"mcp"}, Capture(base)
  PROVE  IInv'
<1> DEFINE new == Len(requests')
<1>1. /\ requests' \in Seq(Asked)
      /\ new \in Nat /\ new \notin DOMAIN requests
      /\ DOMAIN requests' = DOMAIN requests \cup {new} /\ requests'[new] = r
      /\ \A k \in DOMAIN requests : requests'[k] = requests[k]
      /\ phase = "turn"
  BY OneMoreRequest DEF IInv, Capture
<1>2. "request_context" \notin ExecBases \cup {"mcp"} /\ r.kind \notin {"completed", "context"}
  BY DEF ExecBases
<1>3. /\ answers' \in Seq(GivenAnswer)
      /\ AnswersPlaced'
  BY <1>2, AnswerSteps DEF IInv, Capture
<1>4. /\ captured' = Append(captured, new) /\ captured \in Seq(Nat)
      /\ updates' = updates /\ declared' = declared /\ phase' = phase /\ UNCHANGED response
      /\ echoes' = echoes \cup {new}
  BY DEF Capture, IInv, TypeOK
<1> HIDE DEF new
<1>5. /\ captured' \in Seq(Nat) /\ DOMAIN captured = 1..Len(captured) /\ Len(captured) \in Nat
      /\ DOMAIN captured' = DOMAIN captured \cup {Len(captured) + 1}
      /\ captured'[Len(captured) + 1] = new /\ Len(captured') = Len(captured) + 1
      /\ \A i \in DOMAIN captured : captured'[i] = captured[i]
  BY <1>1, <1>4, AppendProperties
<1>6. CapturedPlaced'
  BY <1>1, <1>4, <1>5 DEF CapturedPlaced, Executed, IInv
<1>7. UpdatesPlaced'
  BY <1>1, <1>4 DEF UpdatesPlaced, IInv
<1>8. CallsPlaced' /\ RebuiltPlaced'
  BY <1>1, <1>4, NoResponseYet DEF IInv
<1>9. TypeOK'
  BY <1>1, <1>3, <1>4, <1>5 DEF TypeOK, IInv, response
<1> QED
  BY <1>3, <1>6, <1>7, <1>8, <1>9 DEF IInv

\* The requests of the model.
LEMMA AskNativeSteps ==
  ASSUME IInv, NEW base \in Natives, AskNative(base)
  PROVE  IInv'
BY CaptureSteps, NativesAssumption DEF AskNative, Asked

LEMMA AskMcpSteps ==
  ASSUME IInv, NEW tool \in ClientTools, AskMcp(tool)
  PROVE  IInv'
BY CaptureSteps DEF AskMcp, Asked

LEMMA AskContextSteps ==
  ASSUME IInv, AskContext
  PROVE  IInv'
<1> DEFINE r == [kind |-> "context"]
<1>1. r \in Asked /\ r.kind = "context"
  BY DEF Asked
<1>2. Ask(r) /\ Answer("request_context")
  BY DEF AskContext
<1>3. UNCHANGED <<phase, declared, updates, captured, echoes, response>>
  BY DEF AskContext
<1> HIDE DEF r
<1>4. /\ requests' \in Seq(Asked)
      /\ DOMAIN requests' = DOMAIN requests \cup {Len(requests')} /\ requests'[Len(requests')] = r
      /\ \A k \in DOMAIN requests : requests'[k] = requests[k]
      /\ phase = "turn"
  BY <1>1, <1>2, <1>3, OneMoreRequest DEF IInv
<1>5. /\ answers' \in Seq(GivenAnswer)
      /\ AnswersPlaced'
  BY <1>1, <1>2, <1>3, AnswerSteps DEF IInv
<1>6. CapturedPlaced'
  BY <1>1, <1>3, <1>4 DEF CapturedPlaced, Executed, IInv
<1>7. UpdatesPlaced'
  BY <1>1, <1>3, <1>4 DEF UpdatesPlaced, IInv
<1>8. CallsPlaced' /\ RebuiltPlaced'
  BY <1>3, <1>4, NoResponseYet DEF IInv
<1>9. TypeOK'
  BY <1>3, <1>4, <1>5 DEF TypeOK, IInv, response
<1> QED
  BY <1>5, <1>6, <1>7, <1>8, <1>9 DEF IInv

\* A call completed by Cursor is reported with its args.
LEMMA CompleteSteps ==
  ASSUME IInv, NEW base \in Completed, Complete(base)
  PROVE  IInv'
<1> DEFINE r == [kind |-> "completed", base |-> base]
           new == Len(requests')
<1>1. r \in Asked /\ r.kind = "completed"
  BY DEF Asked
<1>2. Ask(r) /\ updates' = Append(updates, [request |-> new, args |-> TRUE])
  BY DEF Complete
<1>3. UNCHANGED <<phase, declared, captured, answers, echoes, response>>
  BY DEF Complete
<1> HIDE DEF r, new
<1>4. /\ requests' \in Seq(Asked)
      /\ new \in Nat /\ new \notin DOMAIN requests
      /\ DOMAIN requests' = DOMAIN requests \cup {new} /\ requests'[new] = r
      /\ \A k \in DOMAIN requests : requests'[k] = requests[k]
      /\ phase = "turn"
  BY <1>1, <1>2, <1>3, OneMoreRequest DEF IInv, new
<1>5. updates \in Seq(Report) /\ [request |-> new, args |-> TRUE] \in Report
  BY <1>4 DEF IInv, TypeOK, Report
<1>6. /\ updates' \in Seq(Report)
      /\ DOMAIN updates = 1..Len(updates) /\ Len(updates) \in Nat
      /\ DOMAIN updates' = DOMAIN updates \cup {Len(updates) + 1}
      /\ updates'[Len(updates) + 1] = [request |-> new, args |-> TRUE]
      /\ \A i \in DOMAIN updates : updates'[i] = updates[i]
      /\ Len(updates') = Len(updates) + 1
  BY <1>2, <1>4, <1>5, AppendProperties
<1>7. UpdatesPlaced'
  BY <1>1, <1>4, <1>6 DEF UpdatesPlaced, IInv
<1>8. CapturedPlaced' /\ AnswersPlaced'
  BY <1>1, <1>3, <1>4 DEF CapturedPlaced, AnswersPlaced, Executed, IInv
<1>9. CallsPlaced' /\ RebuiltPlaced'
  BY <1>3, <1>4, NoResponseYet DEF IInv
<1>10. TypeOK'
  BY <1>3, <1>4, <1>6 DEF TypeOK, IInv, response
<1> QED
  BY <1>7, <1>8, <1>9, <1>10 DEF IInv

\* The report of a decline has none.
LEMMA EchoSteps ==
  ASSUME IInv, NEW k \in DOMAIN requests, Echo(k)
  PROVE  IInv'
<1>1. /\ updates \in Seq(Report) /\ [request |-> k, args |-> FALSE] \in Report
      /\ updates' = Append(updates, [request |-> k, args |-> FALSE])
      /\ phase = "turn" /\ Executed(k)
  BY DEF IInv, TypeOK, Echo, CapturedPlaced, Report
<1>2. UNCHANGED <<phase, declared, requests, captured, answers, response>> /\ echoes' \subseteq echoes
  BY DEF Echo
<1>3. /\ updates' \in Seq(Report)
      /\ DOMAIN updates = 1..Len(updates) /\ Len(updates) \in Nat
      /\ DOMAIN updates' = DOMAIN updates \cup {Len(updates) + 1}
      /\ updates'[Len(updates) + 1] = [request |-> k, args |-> FALSE]
      /\ \A i \in DOMAIN updates : updates'[i] = updates[i]
      /\ Len(updates') = Len(updates) + 1
  BY <1>1, AppendProperties
<1>4. UpdatesPlaced'
  BY <1>1, <1>2, <1>3 DEF UpdatesPlaced, Executed, IInv
<1>5. CapturedPlaced' /\ AnswersPlaced'
  BY <1>2 DEF CapturedPlaced, AnswersPlaced, Executed, IInv
<1>6. CallsPlaced' /\ RebuiltPlaced'
  BY <1>1, <1>2, NoResponseYet DEF IInv
<1>7. TypeOK'
  BY <1>2, <1>3 DEF TypeOK, IInv, response
<1> QED
  BY <1>4, <1>5, <1>6, <1>7 DEF IInv

\* The response, one update and one captured request at a time.
LEMMA EndTurnSteps ==
  ASSUME IInv, EndTurn
  PROVE  IInv'
<1>1. UNCHANGED <<declared, requests, updates, captured, answers, echoes, toolCalls, folded, added, rebuilt>>
      /\ phase = "turn" /\ phase' = "response"
  BY DEF EndTurn, response
<1> QED
  BY <1>1 DEF IInv, TypeOK, UpdatesPlaced, CapturedPlaced, AnswersPlaced, CallsPlaced, RebuiltPlaced,
     Executed, CapturedTool

\* A call is put behind the others, for a request that had none.
LEMMA OneMoreCall ==
  ASSUME TypeOK, NEW tool, NEW k, [tool |-> tool, request |-> k] \in Call,
         toolCalls' = Append(toolCalls, [tool |-> tool, request |-> k])
  PROVE  /\ toolCalls' \in Seq(Call)
         /\ DOMAIN toolCalls = 1..Len(toolCalls) /\ Len(toolCalls) \in Nat
         /\ DOMAIN toolCalls' = DOMAIN toolCalls \cup {Len(toolCalls) + 1}
         /\ toolCalls'[Len(toolCalls) + 1].request = k
         /\ toolCalls'[Len(toolCalls) + 1].tool = tool
         /\ \A i \in DOMAIN toolCalls : toolCalls'[i] = toolCalls[i]
<1>1. toolCalls \in Seq(Call)
  BY DEF TypeOK
<1> QED
  BY <1>1, AppendProperties

\* The types of the elements, and the counters within their sequences.
LEMMA ElementsInRange ==
  ASSUME TypeOK
  PROVE  /\ Len(updates) \in Nat /\ DOMAIN updates = 1..Len(updates)
         /\ Len(captured) \in Nat /\ DOMAIN captured = 1..Len(captured)
         /\ folded \in Nat /\ folded <= Len(updates)
         /\ added \in Nat /\ added <= Len(captured)
         /\ \A i \in DOMAIN updates : updates[i] \in Report
         /\ \A i \in DOMAIN captured : captured[i] \in Nat
         /\ \A i \in DOMAIN answers :
              answers[i].given.field \in ClientFields
              /\ answers[i].given.outcome \in {"success", "rejected", "error", "failure"}
<1>1. /\ updates \in Seq(Report)
      /\ captured \in Seq(Nat)
      /\ folded \in 0..Len(updates) /\ added \in 0..Len(captured)
  BY DEF TypeOK
<1>2. Len(updates) \in Nat /\ Len(captured) \in Nat
  BY <1>1
<1>3. folded \in Nat /\ folded <= Len(updates) /\ added \in Nat /\ added <= Len(captured)
  BY <1>1, <1>2
<1>4. ASSUME NEW i \in DOMAIN answers
      PROVE  /\ answers[i].given.field \in ClientFields
             /\ answers[i].given.outcome \in {"success", "rejected", "error", "failure"}
  <2>1. answers \in Seq(GivenAnswer)
    BY DEF TypeOK
  <2>2. answers[i] \in GivenAnswer
    BY <2>1
  <2> QED
    BY <2>2 DEF GivenAnswer, Given
<1> QED
  BY <1>1, <1>2, <1>3, <1>4

\* An update is a call if it has args, for a request that has no call yet.
LEMMA AccumulateSteps ==
  ASSUME IInv, Accumulate
  PROVE  IInv'
<1> DEFINE u == updates[folded + 1]
           k == u.request
<1>1. /\ phase = "response" /\ folded < Len(updates) /\ folded' = folded + 1
      /\ folded \in Nat /\ Len(updates) \in Nat /\ folded + 1 \in DOMAIN updates
      /\ u \in Report
      /\ DOMAIN updates = 1..Len(updates)
      /\ UNCHANGED <<phase, declared, requests, updates, captured, answers, echoes, added, rebuilt>>
  <2>1. /\ phase = "response" /\ folded < Len(updates) /\ folded' = folded + 1
        /\ UNCHANGED <<phase, declared, requests, updates, captured, answers, echoes, added, rebuilt>>
    BY DEF Accumulate
  <2> QED
    BY <2>1, ElementsInRange DEF IInv
<1>2. UpdatesPlaced' /\ CapturedPlaced' /\ AnswersPlaced'
  BY <1>1 DEF IInv, UpdatesPlaced, CapturedPlaced, AnswersPlaced, Executed
<1>3. added = 0
  <2>1. added > 0 => folded = Len(updates)
    BY DEF IInv, CallsPlaced
  <2>2. folded < Len(updates)
    BY DEF Accumulate
  <2>3. folded \in Nat /\ Len(updates) \in Nat /\ added \in Nat
    BY ElementsInRange DEF IInv
  <2> QED
    BY <2>1, <2>2, <2>3
<1>4. k \in DOMAIN requests /\ (u.args <=> requests[k].kind = "completed")
  BY <1>1 DEF IInv, UpdatesPlaced
<1>5. RebuiltPlaced' /\ rebuilt' = <<>>
  BY <1>1 DEF IInv, RebuiltPlaced
<1>6. CASE ~u.args
  <2>1. toolCalls' = toolCalls
    BY <1>6 DEF Accumulate, IsCall
  <2>2. TypeOK'
    BY <1>1, <2>1 DEF IInv, TypeOK
  <2>3. 1..folded' = 1..folded \cup {folded + 1}
    BY <1>1
  <2>4. CallsPlaced'
    <3>1. \A i \in DOMAIN toolCalls :
            LET c == toolCalls[i].request IN
            /\ c \in DOMAIN requests
            /\ \/ /\ requests[c].kind = "completed" /\ toolCalls[i].tool = Raw(requests[c].base)
                  /\ \E j \in 1..folded' : updates[j].args /\ updates[j].request = c
               \/ /\ Executed(c) /\ toolCalls[i].tool = CapturedTool(c) /\ CapturedTool(c) # NoTool
                  /\ \E j \in 1..added : captured[j] = c
      BY <2>3 DEF IInv, CallsPlaced
    <3>2. \A j \in 1..folded' : updates[j].args =>
            \E i \in DOMAIN toolCalls : toolCalls[i].request = updates[j].request
      BY <1>6, <2>3 DEF IInv, CallsPlaced
    <3>3. \A i, j \in DOMAIN toolCalls : toolCalls[i].request = toolCalls[j].request => i = j
      BY DEF IInv, CallsPlaced
    <3> HIDE DEF u, k
    <3> QED
      BY <1>1, <1>3, <2>1, <3>1, <3>2, <3>3 DEF CallsPlaced, Executed, CapturedTool
  <2> QED
    BY <1>2, <1>5, <2>2, <2>4 DEF IInv
<1>7. CASE u.args
  <2>1. requests[k].kind = "completed" /\ requests[k].base \in Completed
    <3>1. requests[k] \in Asked
      BY <1>4 DEF IInv, TypeOK
    <3> QED
      BY <1>4, <1>7, <3>1 DEF Asked
  <2>2. toolCalls' = Append(toolCalls, [tool |-> Raw(requests[k].base), request |-> k])
    BY <1>7, <2>1 DEF Accumulate, IsCall, NameInUpdate
  <2>3. k \in Nat
    BY <1>1 DEF Report
  <2>4. /\ toolCalls' \in Seq(Call)
        /\ DOMAIN toolCalls = 1..Len(toolCalls) /\ Len(toolCalls) \in Nat
        /\ DOMAIN toolCalls' = DOMAIN toolCalls \cup {Len(toolCalls) + 1}
        /\ toolCalls'[Len(toolCalls) + 1].request = k
        /\ toolCalls'[Len(toolCalls) + 1].tool = Raw(requests[k].base)
        /\ \A i \in DOMAIN toolCalls : toolCalls'[i] = toolCalls[i]
    BY <2>1, <2>2, <2>3, OneMoreCall DEF IInv, Call
  <2>5. TypeOK'
    BY <1>1, <2>4 DEF IInv, TypeOK
  <2>6. \A i \in DOMAIN toolCalls : toolCalls[i].request # k
    <3>1. SUFFICES ASSUME NEW i \in DOMAIN toolCalls, toolCalls[i].request = k PROVE FALSE
      OBVIOUS
    <3>2. PICK j \in 1..folded : updates[j].args /\ updates[j].request = k
      BY <2>1, <3>1 DEF IInv, CallsPlaced, Executed
    <3>3. j \in DOMAIN updates /\ j # folded + 1
      BY <1>1
    <3> QED
      BY <1>1, <1>7, <3>2, <3>3 DEF IInv, UpdatesPlaced
  <2>7. folded + 1 \in 1..folded' /\ \A j \in 1..folded : j \in 1..folded'
    BY <1>1
  <2>8. \A j \in 1..folded' : j \in 1..folded \/ j = folded + 1
    BY <1>1
  <2>9. CallsPlaced'
    <3>1. \A i \in DOMAIN toolCalls' :
            LET c == toolCalls'[i].request IN
            /\ c \in DOMAIN requests
            /\ \/ /\ requests[c].kind = "completed" /\ toolCalls'[i].tool = Raw(requests[c].base)
                  /\ \E j \in 1..folded' : updates[j].args /\ updates[j].request = c
               \/ /\ Executed(c) /\ toolCalls'[i].tool = CapturedTool(c) /\ CapturedTool(c) # NoTool
                  /\ \E j \in 1..added : captured[j] = c
      BY <1>4, <1>7, <2>1, <2>4, <2>7 DEF IInv, CallsPlaced
    <3>2. \A i, j \in DOMAIN toolCalls' : toolCalls'[i].request = toolCalls'[j].request => i = j
      BY <2>4, <2>6 DEF IInv, CallsPlaced
    <3>3. \A j \in 1..folded' : updates[j].args =>
            \E i \in DOMAIN toolCalls' : toolCalls'[i].request = updates[j].request
      BY <2>4, <2>8 DEF IInv, CallsPlaced
    <3> QED
      BY <1>1, <1>3, <3>1, <3>2, <3>3 DEF CallsPlaced, Executed, CapturedTool
  <2> QED
    BY <1>2, <1>5, <2>5, <2>9, <2>4 DEF IInv
<1> QED
  BY <1>6, <1>7

\* The tool a captured request is surfaced as is one a client may have; for a
\* tool of Cursor's this client declared it.
LEMMA CapturedToolIsKnown ==
  ASSUME TypeOK, NEW k \in DOMAIN requests, Executed(k), CapturedTool(k) # NoTool
  PROVE  /\ CapturedTool(k) \in ClientTools \ {Unnamed}
         /\ requests[k].kind = "native" => \E i \in Named(declared) : CapturedTool(k) = declared[i]
<1>1. requests[k] \in Asked /\ declared \in Seq(ClientTools)
  BY DEF TypeOK
<1>2. CASE requests[k].kind = "mcp"
  BY <1>1, <1>2 DEF Asked, CapturedTool
<1>3. CASE requests[k].kind = "native"
  <2>1. PICK i \in Named(declared) : CapturedTool(k) = declared[i]
    BY <1>1, <1>3, ResolvedIsDeclared DEF CapturedTool
  <2>2. declared[i] \in ClientTools \ {Unnamed}
    BY <1>1 DEF Named
  <2> QED
    BY <2>1, <2>2
<1> QED
  BY <1>2, <1>3 DEF Executed

\* A captured request is a call if a tool is found for it; it had none before.
LEMMA AddCapturedSteps ==
  ASSUME IInv, AddCaptured
  PROVE  IInv'
<1> DEFINE k == captured[added + 1]
<1>1. /\ phase = "response" /\ added < Len(captured) /\ added' = added + 1
      /\ added \in Nat /\ Len(captured) \in Nat /\ added + 1 \in DOMAIN captured
      /\ k \in Nat /\ folded = Len(updates)
      /\ DOMAIN captured = 1..Len(captured)
      /\ UNCHANGED <<phase, declared, requests, updates, captured, answers, echoes, folded, rebuilt>>
  BY DEF AddCaptured, IInv, TypeOK
<1>2. UpdatesPlaced' /\ CapturedPlaced' /\ AnswersPlaced'
  BY <1>1 DEF IInv, UpdatesPlaced, CapturedPlaced, AnswersPlaced, Executed
<1>3. k \in DOMAIN requests /\ Executed(k)
  BY <1>1 DEF IInv, CapturedPlaced
<1>4. RebuiltPlaced' /\ rebuilt' = <<>>
  BY <1>1 DEF IInv, RebuiltPlaced
<1>5. CASE CapturedTool(k) = NoTool
  <2>1. toolCalls' = toolCalls
    BY <1>5 DEF AddCaptured
  <2>2. TypeOK'
    BY <1>1, <2>1 DEF IInv, TypeOK
  <2>3. 1..added' = 1..added \cup {added + 1}
    BY <1>1
  <2>4. CallsPlaced'
    BY <1>1, <1>5, <2>1, <2>3 DEF IInv, CallsPlaced, Executed, CapturedTool
  <2> QED
    BY <1>2, <1>4, <2>2, <2>4 DEF IInv
<1>6. CASE CapturedTool(k) # NoTool
  <2>1. CapturedTool(k) \in ClientTools \ {Unnamed}
    BY <1>3, <1>6, CapturedToolIsKnown DEF IInv
  <2>2. toolCalls' = Append(toolCalls, [tool |-> CapturedTool(k), request |-> k])
    BY <1>6 DEF AddCaptured
  <2>4. /\ toolCalls' \in Seq(Call)
        /\ DOMAIN toolCalls = 1..Len(toolCalls) /\ Len(toolCalls) \in Nat
        /\ DOMAIN toolCalls' = DOMAIN toolCalls \cup {Len(toolCalls) + 1}
        /\ toolCalls'[Len(toolCalls) + 1].request = k
        /\ toolCalls'[Len(toolCalls) + 1].tool = CapturedTool(k)
        /\ \A i \in DOMAIN toolCalls : toolCalls'[i] = toolCalls[i]
    BY <1>1, <2>1, <2>2, OneMoreCall DEF IInv, Call
  <2>5. TypeOK'
    BY <1>1, <2>4 DEF IInv, TypeOK
  <2>6. \A i \in DOMAIN toolCalls : toolCalls[i].request # k
    <3>1. SUFFICES ASSUME NEW i \in DOMAIN toolCalls, toolCalls[i].request = k PROVE FALSE
      OBVIOUS
    <3>2. PICK j \in 1..added : captured[j] = k
      BY <1>3, <3>1 DEF IInv, CallsPlaced, Executed
    <3>3. j \in DOMAIN captured /\ j # added + 1
      BY <1>1
    <3> QED
      BY <1>1, <3>2, <3>3 DEF IInv, CapturedPlaced
  <2>7. added + 1 \in 1..added' /\ \A j \in 1..added : j \in 1..added'
    BY <1>1
  <2>8. \A j \in 1..added' : j \in 1..added \/ j = added + 1
    BY <1>1
  <2>9. CallsPlaced'
    <3>1. \A i \in DOMAIN toolCalls' :
            LET c == toolCalls'[i].request IN
            /\ c \in DOMAIN requests
            /\ \/ /\ requests[c].kind = "completed" /\ toolCalls'[i].tool = Raw(requests[c].base)
                  /\ \E j \in 1..folded : updates[j].args /\ updates[j].request = c
               \/ /\ Executed(c) /\ toolCalls'[i].tool = CapturedTool(c) /\ CapturedTool(c) # NoTool
                  /\ \E j \in 1..added' : captured[j] = c
      BY <1>3, <1>6, <2>4, <2>7 DEF IInv, CallsPlaced
    <3>2. \A i, j \in DOMAIN toolCalls' : toolCalls'[i].request = toolCalls'[j].request => i = j
      BY <2>4, <2>6 DEF IInv, CallsPlaced
    <3>3. \A j \in 1..folded : updates[j].args =>
            \E i \in DOMAIN toolCalls' : toolCalls'[i].request = updates[j].request
      BY <2>4 DEF IInv, CallsPlaced
    <3>4. \A j \in 1..added' : CapturedTool(captured[j]) # NoTool =>
            \E i \in DOMAIN toolCalls' : toolCalls'[i].request = captured[j]
      BY <2>4, <2>8 DEF IInv, CallsPlaced
    <3> QED
      BY <1>1, <3>1, <3>2, <3>3, <3>4 DEF CallsPlaced, Executed, CapturedTool
  <2> QED
    BY <1>2, <1>4, <2>5, <2>9, <2>4 DEF IInv
<1> QED
  BY <1>5, <1>6

\* The response is complete; the client returns its calls.
LEMMA RespondSteps ==
  ASSUME IInv, Respond
  PROVE  IInv'
<1>1. UNCHANGED <<declared, requests, updates, captured, answers, echoes, toolCalls, folded, added, rebuilt>>
      /\ phase = "response" /\ phase' = "responded" /\ folded = Len(updates) /\ added = Len(captured)
  BY DEF Respond, response
<1> QED
  BY <1>1 DEF IInv, TypeOK, UpdatesPlaced, CapturedPlaced, AnswersPlaced, CallsPlaced, RebuiltPlaced,
     Executed, CapturedTool

LEMMA ClientReturnsSteps ==
  ASSUME IInv, ClientReturns
  PROVE  IInv'
<1>1. UNCHANGED <<declared, requests, updates, captured, answers, echoes, toolCalls, folded, added>>
      /\ phase = "responded" /\ phase' = "returned"
  BY DEF ClientReturns
<1>2. RebuiltPlaced'
  <2>1. DOMAIN rebuilt' = DOMAIN toolCalls
    BY DEF ClientReturns
  <2>2. \A i \in DOMAIN toolCalls :
          {rebuilt'[i].call, rebuilt'[i].result} \subseteq RebuiltVariants(toolCalls[i].tool)
    BY DEF ClientReturns
  <2> QED
    BY <1>1, <2>1, <2>2 DEF RebuiltPlaced
<1>3. TypeOK'
  BY <1>1 DEF IInv, TypeOK
<1>4. CallsPlaced'
  BY <1>1 DEF IInv, CallsPlaced, Executed, CapturedTool
<1>5. UpdatesPlaced' /\ CapturedPlaced' /\ AnswersPlaced'
  BY <1>1 DEF IInv, UpdatesPlaced, CapturedPlaced, AnswersPlaced, Executed
<1> QED
  BY <1>2, <1>3, <1>4, <1>5 DEF IInv

\* Init establishes the invariant and a stutter keeps it.
LEMMA Initially == Init => IInv
<1>1. ASSUME Init PROVE declared \in Seq(ClientTools)
  BY <1>1, BoundsAssumption DEF Init
<1>2. <<>> \in Seq(Asked) /\ Len(<<>>) = 0 /\ DOMAIN <<>> = {}
  OBVIOUS
<1> QED
  BY <1>1, <1>2 DEF Init, IInv, TypeOK, UpdatesPlaced, CapturedPlaced, AnswersPlaced, CallsPlaced, RebuiltPlaced

LEMMA Stutters ==
  ASSUME IInv, UNCHANGED vars
  PROVE  IInv'
BY DEF vars, IInv, TypeOK, UpdatesPlaced, CapturedPlaced, AnswersPlaced, CallsPlaced, RebuiltPlaced,
   Executed, CapturedTool

\* The inductive invariant holds in every state of every behaviour.
THEOREM Inductive == Spec => []IInv
<1>1. IInv /\ [Next]_vars => IInv'
  BY AskNativeSteps, AskMcpSteps, AskContextSteps, CompleteSteps, EchoSteps, EndTurnSteps,
     AccumulateSteps, AddCapturedSteps, RespondSteps, ClientReturnsSteps, Stutters DEF Next, Returned
<1> QED
  BY Initially, <1>1, PTL DEF Spec
-----------------------------------------------------------------------------
(* What the invariant says of the properties.                              *)

\* A set whose elements are all the same one.
LEMMA OneOf ==
  ASSUME NEW S, NEW x \in S, \A y \in S : y = x
  PROVE  Cardinality(S) = 1
<1>1. S = {x}
  OBVIOUS
<1> QED
  BY <1>1, FS_Singleton

\* Every request to execute is answered once, in a field declared for it.
THEOREM Answered == Spec => []EveryAskIsAnswered
<1>1. ASSUME IInv PROVE EveryAskIsAnswered
  <2> SUFFICES ASSUME NEW k \in DOMAIN requests
      PROVE  LET r == requests[k]
                 own == {i \in DOMAIN answers : answers[i].request = k}
             IN /\ Cardinality(own) = (IF r.kind = "completed" THEN 0 ELSE 1)
                /\ \A i \in own :
                     /\ answers[i].given.field \in ClientFields
                     /\ answers[i].given.outcome \in
                          IF r.kind = "context" THEN {"success"} ELSE {"rejected", "error", "failure"}
                /\ (\E i \in DOMAIN toolCalls : toolCalls[i].request = k) /\ r.kind # "completed" => own # {}
    BY DEF EveryAskIsAnswered
  <2> DEFINE own == {i \in DOMAIN answers : answers[i].request = k}
  <2>1. requests[k].kind = "completed" => own = {}
    BY <1>1 DEF IInv, AnswersPlaced
  <2>2. requests[k].kind # "completed" => \E i \in own : \A j \in own : j = i
    BY <1>1 DEF IInv, AnswersPlaced
  <2>3. \A i \in own :
          /\ answers[i].given.field \in ClientFields
          /\ answers[i].given.outcome \in {"success", "rejected", "error", "failure"}
          /\ requests[k].kind = "context" <=> answers[i].given.outcome = "success"
    <3>1. \A i \in own : requests[k].kind = "context" <=> answers[i].given.outcome = "success"
      BY <1>1 DEF IInv, AnswersPlaced
    <3> QED
      BY <1>1, <3>1, ElementsInRange DEF IInv
  <2> HIDE DEF own
  <2>4. Cardinality(own) = IF requests[k].kind = "completed" THEN 0 ELSE 1
    BY <2>1, <2>2, OneOf, FS_EmptySet
  <2> QED
    BY <2>2, <2>3, <2>4 DEF own
<1> QED
  BY Inductive, <1>1, PTL

\* A call for a tool of Cursor's is of the preferred one the client declared,
\* and a call of a tool of the client's keeps its name.
THEOREM Dispatchable == Spec => []CallsAreDispatchable
<1>1. ASSUME IInv PROVE CallsAreDispatchable
  <2> SUFFICES ASSUME NEW i \in DOMAIN toolCalls
      PROVE  LET r == requests[toolCalls[i].request]
                 tool == toolCalls[i].tool
             IN /\ r.kind = "mcp" => tool = r.tool
                /\ r.kind = "native" =>
                     /\ tool \in {declared[j] : j \in Named(declared)}
                     /\ \E n \in DOMAIN Tried(r.base) :
                          /\ Tried(r.base)[n] = tool.norm
                          /\ \A m \in 1..(n - 1) : \A j \in Named(declared) :
                               declared[j].norm # Tried(r.base)[m]
    BY DEF CallsAreDispatchable
  <2> DEFINE k == toolCalls[i].request
             tool == toolCalls[i].tool
  <2>1. k \in DOMAIN requests /\ declared \in Seq(ClientTools)
    BY <1>1 DEF IInv, CallsPlaced, TypeOK
  <2>2. requests[k].kind # "completed" => Executed(k) /\ tool = CapturedTool(k) /\ CapturedTool(k) # NoTool
    BY <1>1 DEF IInv, CallsPlaced
  <2> HIDE DEF k, tool
  <2>3. requests[k].kind = "native" => \E j \in Named(declared) : tool = declared[j]
    BY <1>1, <2>1, <2>2, CapturedToolIsKnown DEF IInv
  <2>4. requests[k].kind = "mcp" => tool = requests[k].tool
    BY <2>2 DEF CapturedTool
  <2>5. requests[k].kind = "native" =>
          \E n \in DOMAIN Tried(requests[k].base) :
            /\ Tried(requests[k].base)[n] = tool.norm
            /\ \A m \in 1..(n - 1) : \A j \in Named(declared) :
                 declared[j].norm # Tried(requests[k].base)[m]
    BY <2>1, <2>2, ResolvedIsDeclared DEF CapturedTool
  <2> QED
    BY <2>3, <2>4, <2>5 DEF k, tool
<1> QED
  BY Inductive, <1>1, PTL

\* A request is surfaced exactly if a tool for it can be found.
LEMMA SurfaceableIsResolved ==
  ASSUME TypeOK, NEW k \in DOMAIN requests, Executed(k)
  PROVE  Surfaceable(k) <=> CapturedTool(k) # NoTool
<1>1. requests[k] \in Asked /\ declared \in Seq(ClientTools)
  BY DEF TypeOK
<1>2. CASE requests[k].kind = "mcp"
  <2>1. requests[k].tool \in ClientTools
    BY <1>1, <1>2 DEF Asked
  <2>2. NoTool.spelling = "none"
    BY DEF NoTool
  <2> QED
    BY <1>2, <2>1, <2>2, ClientToolsAssumption DEF CapturedTool, Surfaceable
<1>3. CASE requests[k].kind = "native"
  BY <1>1, <1>3, ResolvedIsDeclared DEF CapturedTool, Surfaceable, DeclaredFor
<1> QED
  BY <1>2, <1>3 DEF Executed

\* Whatever the order of the reports, a request is one call or none.
THEOREM OneCallEach == Spec => []EachRequestIsOneCall
<1>1. ASSUME IInv PROVE EachRequestIsOneCall
  <2> SUFFICES ASSUME phase \in {"responded", "returned"}, NEW k \in DOMAIN requests
      PROVE  Cardinality(CallsOf(k)) = (IF Surfaceable(k) THEN 1 ELSE 0)
    BY DEF EachRequestIsOneCall
  <2>1. folded = Len(updates) /\ added = Len(captured)
    BY <1>1 DEF IInv, CallsPlaced
  <2>2. DOMAIN updates = 1..folded /\ DOMAIN captured = 1..added
    BY <1>1, <2>1 DEF IInv, TypeOK
  <2>3. \A i, j \in CallsOf(k) : i = j
    BY <1>1 DEF IInv, CallsPlaced, CallsOf
  <2>4. requests[k].kind \in {"completed", "native", "mcp", "context"}
    BY <1>1 DEF IInv, TypeOK, Asked
  <2>5. CASE requests[k].kind = "completed"
    <3>1. PICK j \in DOMAIN updates : updates[j].request = k /\ updates[j].args
      BY <1>1, <2>5 DEF IInv, UpdatesPlaced
    <3>2. \E i \in DOMAIN toolCalls : toolCalls[i].request = k
      BY <1>1, <2>2, <3>1 DEF IInv, CallsPlaced
    <3>3. CallsOf(k) # {}
      BY <3>2 DEF CallsOf
    <3> QED
      BY <2>3, <2>5, <3>3, OneOf DEF Surfaceable
  <2>6. CASE Executed(k) /\ CapturedTool(k) # NoTool
    <3>1. PICK j \in DOMAIN captured : captured[j] = k
      BY <1>1, <2>6 DEF IInv, CapturedPlaced
    <3>2. \E i \in DOMAIN toolCalls : toolCalls[i].request = k
      BY <1>1, <2>2, <2>6, <3>1 DEF IInv, CallsPlaced
    <3>3. CallsOf(k) # {}
      BY <3>2 DEF CallsOf
    <3>4. Surfaceable(k)
      BY <1>1, <2>6, SurfaceableIsResolved DEF IInv
    <3> QED
      BY <2>3, <3>3, <3>4, OneOf
  <2>7. CASE Executed(k) /\ CapturedTool(k) = NoTool
    <3>1. CallsOf(k) = {}
      BY <1>1, <2>7 DEF IInv, CallsPlaced, CallsOf, Executed
    <3>2. ~Surfaceable(k)
      BY <1>1, <2>7, SurfaceableIsResolved DEF IInv
    <3> QED
      BY <3>1, <3>2, FS_EmptySet
  <2>8. CASE requests[k].kind = "context"
    <3>1. CallsOf(k) = {}
      BY <1>1, <2>8 DEF IInv, CallsPlaced, CallsOf, Executed
    <3> QED
      BY <2>8, <3>1, FS_EmptySet DEF Surfaceable
  <2> QED
    BY <2>4, <2>5, <2>6, <2>7, <2>8 DEF Executed
<1> QED
  BY Inductive, <1>1, PTL

\* Neither call nor result is put to a tool of the client that was not offered
\* or asked for; what was offered stays with its tool, and what stands for a
\* tool of Cursor's goes to one the name is an alias for.
THEOREM Rebuilt == Spec => []RebuiltAsOffered
<1>1. ASSUME IInv PROVE RebuiltAsOffered
  <2> SUFFICES ASSUME NEW i \in DOMAIN rebuilt, NEW variant \in {rebuilt[i].call, rebuilt[i].result}
      PROVE  LET r == requests[toolCalls[i].request]
                 tool == toolCalls[i].tool
             IN /\ variant = "client" => r.kind = "mcp" \/ tool \in Offered
                /\ r.kind = "mcp" /\ tool \in Offered /\ ~IsRaw(tool) => variant = "client"
                /\ r.kind = "native" /\ variant # "client" => tool.norm \in Equivalents(variant)
                /\ r.kind = "completed" => variant = r.base
    BY DEF RebuiltAsOffered
  <2> DEFINE k == toolCalls[i].request
             tool == toolCalls[i].tool
  <2>1. i \in DOMAIN toolCalls /\ variant \in RebuiltVariants(tool)
    BY <1>1 DEF IInv, RebuiltPlaced
  <2>2. k \in DOMAIN requests /\ requests[k] \in Asked /\ declared \in Seq(ClientTools)
    BY <1>1, <2>1 DEF IInv, CallsPlaced, TypeOK
  <2>3. \/ requests[k].kind = "completed" /\ tool = Raw(requests[k].base)
        \/ Executed(k) /\ tool = CapturedTool(k) /\ CapturedTool(k) # NoTool
    BY <1>1, <2>1 DEF IInv, CallsPlaced
  <2> HIDE DEF k, tool
  <2>4. tool \in Offered => resolveCursorToolField(tool) = {}
    BY DEF Offered, buildMcpTools
  <2>5. CASE requests[k].kind = "completed" /\ tool = Raw(requests[k].base)
    <3>1. requests[k].base \in Completed
      BY <2>2, <2>5 DEF Asked
    <3>2. variant = requests[k].base
      BY <2>1, <2>5 DEF RebuiltVariants, IsRaw, Raw
    <3>3. variant # "client"
      BY <3>1, <3>2, CompletedAssumption DEF ToolCallVariants
    <3> QED
      BY <2>5, <3>2, <3>3 DEF k
  <2>6. CASE requests[k].kind = "mcp"
    <3>1. tool \in Offered /\ ~IsRaw(tool) => variant = "client"
      BY <2>1, <2>4 DEF RebuiltVariants
    <3> QED
      BY <2>6, <3>1 DEF k, tool
  <2>7. CASE requests[k].kind = "native" /\ tool = CapturedTool(k) /\ CapturedTool(k) # NoTool
    <3>1. PICK j \in Named(declared) : tool = declared[j]
      BY <1>1, <2>2, <2>7, CapturedToolIsKnown DEF IInv, Executed
    <3>2. ~IsRaw(tool)
      <4>1. requests[k].base \in ExecBases
        BY <2>2, <2>7, NativesAssumption DEF Asked
      <4> QED
        BY <2>2, <2>7, <4>1, ResolvedIsNotRaw DEF CapturedTool
    <3>3. variant = "client" => resolveCursorToolField(tool) = {}
      <4>1. "client" \notin resolveCursorToolField(tool)
        BY DEF resolveCursorToolField, MappedBases, nativeToolAliases
      <4> QED
        BY <2>1, <3>2, <4>1 DEF RebuiltVariants
    <3>4. variant = "client" => tool \in Offered
      BY <3>1, <3>3 DEF Offered, buildMcpTools
    <3>5. variant # "client" => variant \in resolveCursorToolField(tool)
      BY <2>1, <3>2 DEF RebuiltVariants
    <3>6. variant # "client" => tool.norm \in Equivalents(variant)
      BY <3>5 DEF resolveCursorToolField
    <3> QED
      BY <2>7, <3>4, <3>6 DEF k, tool
  <2> QED
    BY <2>3, <2>5, <2>6, <2>7 DEF Executed
<1> QED
  BY Inductive, <1>1, PTL
=============================================================================
