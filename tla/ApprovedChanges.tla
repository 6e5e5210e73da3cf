-------------------------- MODULE ApprovedChanges --------------------------
(***************************************************************************)
(* Four programs that change flags and labels only as approved: the engine  *)
(* that writes flags (FlagTransactions), the way from an audit to a canary  *)
(* and back (FlagActivation), the classifier it rests on (FlagPolicy), and  *)
(* the bounded dispatch of approved work by the scheduler (Maintenance).    *)
(* FlagActivation has the engine's outcomes in it and Maintenance starts    *)
(* any of the commands as a child, so a behaviour drives one of them.       *)
(***************************************************************************)
EXTENDS FlagTransactions, FlagActivation, Maintenance

VARIABLES
    program,  \* the one this behaviour drives
    text      \* what the classifier is given

changesVars == <<program, text, vars, activationVars, maintenanceVars>>

NoText == [signals |-> {}, domain |-> "general"]

ChangesInit ==
    /\ program \in {"engine", "activation", "classifier", "maintenance"}
    /\ IF program = "classifier" THEN text \in Texts ELSE text = NoText
    /\ Init /\ ActivationInit /\ MaintenanceInit
    /\ program # "engine" => native = [m \in Messages |-> CHOOSE color \in Colors : TRUE]
    /\ program # "maintenance" => \A e \in Envelopes : ~output[e]

EngineOnly(A) ==
    program = "engine" /\ A /\ UNCHANGED <<program, text, activationVars, maintenanceVars>>

ChangesNext ==
    \/ EngineOnly(Next)
    \/ /\ program = "activation" /\ ActivationNext
       /\ UNCHANGED <<program, text, vars, maintenanceVars>>
    \/ /\ program = "maintenance" /\ MaintenanceNext
       /\ UNCHANGED <<program, text, vars, activationVars>>

ChangesSpec == ChangesInit /\ [][ChangesNext]_changesVars

\* As in FairSpec: a live worker of the engine goes on.
FairChangesSpec ==
    ChangesSpec /\ \A p \in Workers : WF_changesVars(EngineOnly(Step(p)))
-----------------------------------------------------------------------------
ChangesTypeOK ==
    /\ program \in {"engine", "activation", "classifier", "maintenance"}
    /\ text \in Texts
    /\ ActivationTypeOK /\ MaintenanceTypeOK

\* What the classifier says of any text is what the plan builder accepts, so no
\* text can make a whole plan fail; and a change is made without a person only
\* when two signals agree on it, nothing contradicts it and it is no bulk mail,
\* and only for a flag that is known.  Red takes an action asked of the
\* operator, a consequence and a date (classify, map_to_flag,
\* validate_classification_contract, proposal_from_classification).
ProposalSafe ==
    program = "classifier" =>
    LET c == ClassificationOf(text)
    IN  /\ MeetsContract(c)
        /\ \A observed \in Flags :
             LET proposal == Proposal(c, observed)
             IN  /\ Cardinality({how \in {"identity", "auto", "review"} : proposal[how]}) = 1
                 /\ proposal.auto =>
                      /\ Cardinality(StrongSignals(text.signals)) >= 2
                      /\ ~Conflicting(text.signals)
                      /\ "marketing" \notin text.signals
                      /\ observed # "unknown" /\ proposal.to # "purple"
                 /\ proposal.to = "red" =>
                      {"operator_action", "consequence", "date"} \subseteq text.signals
=============================================================================
