----------------------------- MODULE Validator ------------------------------
(***************************************************************************)
(* sema::Validator: what it keeps while it walks the MIR of one unit, the  *)
(* stack of nodes it is in and a SwitchTracker for each switch, and where  *)
(* it allows statements to stand.  A statement that throws                 *)
(* UnableToContinue catches it itself: found_errors is set and the walk    *)
(* goes on behind it.  The MIR is the environment's choice of the next     *)
(* visit.  Of expressions only the verdict of their own checks is kept.    *)
(***************************************************************************)
EXTENDS Naturals, Sequences, FiniteSets

CONSTANTS Funcs,        \* function symbols
          Mark,         \* per function: "main", "print" or "none"
          Result,       \* per function: "void" or "value"
          CaseVals      \* integer values of case labels: [ty, bits]

NoFunc == "no function"

ASSUME ValidatorAssumption ==
  /\ Mark \in [Funcs -> {"main", "print", "none"}]
  /\ Result \in [Funcs -> {"void", "value"}]
  /\ \A v \in CaseVals : v.bits \in Nat
  /\ IsFiniteSet(CaseVals)
  /\ NoFunc \notin Funcs

VARIABLES ctxt,         \* ctxt_stack, the innermost node last
          switches,     \* the trackers
          marked,       \* main_loc, print_loc: the marks met so far
          errors,       \* found_errors, or a diagnostic
          validated     \* the walk is over, or has been given up

vvars == << ctxt, switches, marked, errors, validated >>

\* A node in the stack.  of: the function; part: "then" or "else" of an if.
Node(kind, of, part) == [kind |-> kind, of |-> of, part |-> part]

\* How many nodes up the innermost node of a kind is, itself included: -1
\* if there is none.
InNode(stack, kind) ==
  LET at == { i \in 1 .. Len(stack) : stack[i].kind = kind }
  IN  IF at = {} THEN 0 - 1
      ELSE Len(stack) - (CHOOSE i \in at : \A j \in at : j <= i)

In(kind) == InNode(ctxt, kind) >= 0

\* get_context(FUNC_MIR): the function whose body is being visited.
Within ==
  LET up == InNode(ctxt, "function")
  IN  IF up < 0 THEN NoFunc ELSE ctxt[Len(ctxt) - up].of

Above(n) == SubSeq(ctxt, 1, Len(ctxt) - n)
Inner == ctxt[Len(ctxt)]
Holder == ctxt[Len(ctxt) - 1]

\* Every body is a compound statement: a statement with a body is two nodes.
Down(kind, of, part) ==
  ctxt \o << Node(kind, of, part), Node("compound", NoFunc, "body") >>
InBody(kind) == Len(ctxt) >= 2 /\ Holder.kind = kind

NewTracker == [cases |-> {}, dflt |-> FALSE]
Tracker == switches[Len(switches)]
Track(t) == [switches EXCEPT ![Len(switches)] = t]

VInit ==
  /\ ctxt = << >> /\ switches = << >> /\ marked = {}
  /\ errors = FALSE /\ validated = FALSE

Walking == ~validated

\* A visit that leaves the stacks as they are; ok: it found no error.
Stays(ok) ==
  /\ Walking
  /\ errors' = (errors \/ ~ok)
  /\ UNCHANGED << ctxt, switches, marked, validated >>

-----------------------------------------------------------------------------
(* Functions.  A second function marked main, or print, is thrown out of    *)
(* FunctionMIR: it ends the compound the function is nested in, or the walk. *)
Duplicate(f) == Mark[f] # "none" /\ Mark[f] \in marked
Noted(f) == marked \cup ({Mark[f]} \ {"none"})

\* Mutants, here and below: a change of the definition they precede, as a
\* plausible error in the code would make it.
VDuplicateKeepsTracker(f) ==
  /\ Walking /\ Duplicate(f)
  /\ errors' = TRUE
  /\ IF ctxt = << >> THEN validated' = TRUE /\ UNCHANGED ctxt
     ELSE ctxt' = Above(2) /\ UNCHANGED validated
  /\ UNCHANGED << marked, switches >>

VDuplicate(f) ==
  /\ Walking
  /\ Duplicate(f)
  /\ errors' = TRUE
  /\ IF ctxt = << >>
     THEN validated' = TRUE /\ UNCHANGED << ctxt, switches >>
     ELSE /\ ctxt' = IF Holder.kind = "if" /\ Holder.part = "then"
                     THEN Above(2) \o << Node("if", NoFunc, "else"), Inner >>
                     ELSE Above(2)
          /\ switches' = IF Holder.kind = "switch"
                         THEN SubSeq(switches, 1, Len(switches) - 1)
                         ELSE switches
          /\ UNCHANGED validated
  /\ UNCHANGED marked

VDeclareFunction(f) ==
  /\ Walking
  /\ ~Duplicate(f)
  /\ marked' = Noted(f)
  /\ UNCHANGED << ctxt, switches, errors, validated >>

VEnterFunction(f) ==
  /\ Walking
  /\ ~Duplicate(f)
  /\ marked' = Noted(f)
  /\ ctxt' = Down("function", f, "body")
  /\ UNCHANGED << switches, errors, validated >>

\* returns: the answer of always_returns on the body.
VExitFunction(returns) ==
  /\ Walking
  /\ InBody("function")
  /\ errors' = (errors \/ (Result[Holder.of] = "value" /\ ~returns))
  /\ ctxt' = Above(2)
  /\ UNCHANGED << switches, marked, validated >>

VExitProgram ==
  /\ Walking
  /\ ctxt = << >>
  /\ validated' = TRUE
  /\ UNCHANGED << ctxt, switches, marked, errors >>

-----------------------------------------------------------------------------
(* Statements with bodies.  *)
VEnterIf == Walking /\ ctxt' = Down("if", NoFunc, "then")
            /\ UNCHANGED << switches, marked, errors, validated >>

VElse ==
  /\ Walking
  /\ InBody("if") /\ Holder.part = "then"
  /\ ctxt' = Above(2) \o << Node("if", NoFunc, "else"), Inner >>
  /\ UNCHANGED << switches, marked, errors, validated >>

VExit(kind) ==
  /\ Walking
  /\ InBody(kind)
  /\ ctxt' = Above(2)
  /\ UNCHANGED << switches, marked, errors, validated >>

VEnterLoop == Walking /\ ctxt' = Down("loop", NoFunc, "body")
              /\ UNCHANGED << switches, marked, errors, validated >>

VEnterLabel == Walking /\ ctxt' = Down("label", NoFunc, "body")
               /\ UNCHANGED << switches, marked, errors, validated >>

\* A control value that is no integer is thrown before the tracker is made,
\* and the body is not visited.
VEnterSwitch ==
  /\ Walking
  /\ ctxt' = Down("switch", NoFunc, "body")
  /\ switches' = Append(switches, NewTracker)
  /\ UNCHANGED << marked, errors, validated >>

VExitSwitch ==
  /\ Walking
  /\ InBody("switch")
  /\ ctxt' = Above(2)
  /\ switches' = SubSeq(switches, 1, Len(switches) - 1)
  /\ UNCHANGED << marked, errors, validated >>

-----------------------------------------------------------------------------
(* Statements without.  What a case labels is the next statement visited.   *)
CaseAllowed(vs) == In("switch") /\ Tracker.cases \cap vs = {}

\* vs: the value of a case, or all values of a range.
VCase(vs) ==
  /\ CaseAllowed(vs)
  /\ Walking
  /\ switches' = Track([Tracker EXCEPT !.cases = @ \cup vs])
  /\ UNCHANGED << ctxt, marked, errors, validated >>

\* A range is walked value by value and stops at the first one seen before.
VRepeatedCase(vs, before) ==
  /\ Walking
  /\ ~CaseAllowed(vs)
  /\ errors' = TRUE
  /\ switches' = IF In("switch")
                 THEN Track([Tracker EXCEPT !.cases = @ \cup before])
                 ELSE switches
  /\ UNCHANGED << ctxt, marked, validated >>

VDefault ==
  /\ Walking
  /\ In("switch") /\ ~Tracker.dflt
  /\ switches' = Track([Tracker EXCEPT !.dflt = TRUE])
  /\ UNCHANGED << ctxt, marked, errors, validated >>

DefaultAllowed == In("switch") /\ ~Tracker.dflt
BreakAllowedAnywhere == In("function")
BreakAllowed == In("switch") \/ In("loop")
ContinueAllowed == In("loop")
ReturnAllowed(value) == In("function") /\ (Result[Within] = "value") = value

\* A declaration directly in a switch is an error: the node above the
\* declaration would be the switch.
DeclAllowed == InNode(Append(ctxt, Node("vardecl", NoFunc, "body")), "switch") # 1

-----------------------------------------------------------------------------
(* Properties.                                                             *)
Kinds == {"function", "compound", "if", "loop", "label", "switch"}

ValidatorTypeOK ==
  /\ \A i \in 1 .. Len(ctxt) :
       ctxt[i].kind \in Kinds /\ ctxt[i].of \in Funcs \cup {NoFunc}
  /\ \A i \in 1 .. Len(switches) :
       switches[i].cases \subseteq CaseVals /\ switches[i].dflt \in BOOLEAN
  /\ marked \subseteq {"main", "print"}
  /\ errors \in BOOLEAN /\ validated \in BOOLEAN

\* switches is pushed and popped by hand around the body of a switch
\* (lib/semantics/validator.cpp:519) while errors fly past: it must hold one
\* tracker for each switch being visited, or a case is held against the
\* cases of another switch.
TrackersInStep ==
  Len(switches) = Cardinality({ i \in 1 .. Len(ctxt) : ctxt[i].kind = "switch" })
=============================================================================
