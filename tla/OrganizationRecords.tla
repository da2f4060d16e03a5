------------------------- MODULE OrganizationRecords -------------------------
(***************************************************************************)
(* The records of the SETC organization registry, file by file: which      *)
(* record each kind is filed under, the organizations it names, the two    *)
(* duties it keeps apart, and the states in which it must hold evidence.   *)
(*                                                                         *)
(* Every kind is a frozen dataclass whose __post_init__ raises.  The table *)
(* keeps what relates one record to others.  What else __post_init__ tests *)
(* of a record's own columns is left out, as no record that fails it is    *)
(* ever made: signs of amounts and currencies (finance_treasury,           *)
(* foundations, asset_stewardship, decision_rights), weights, scores,      *)
(* counts and quorums, retention, reversed periods, and blank texts and    *)
(* references.  States are told apart by whether they ask for evidence.    *)
(* What a record is filed under is an id that nothing looks up.            *)
(* Where a record has several such ids, the first is taken; ids of other   *)
(* files and organizations that need not be named are left out.            *)
(***************************************************************************)

\* What a kind that is filed under nothing is filed under.
Root == "root"

\* Kinds with a single state are in it as soon as they are recorded; they need
\* evidence always or never.
Always == {"recorded"}
Never == {}

\* Constructors of kinds: one that only names organizations, and two that keep
\* duties a and b with different organizations.
Names(name, under, roles, material) ==
    [name |-> name, under |-> under, roles |-> roles, apart |-> {}, material |-> material]

PartsAmong(name, under, a, b, others, material) ==
    [name |-> name, under |-> under, roles |-> {a, b} \cup others, apart |-> {<<a, b>>},
     material |-> material]

Parts(name, under, a, b, material) == PartsAmong(name, under, a, b, {}, material)

-----------------------------------------------------------------------------
\* investigation_enforcement.py
Investigation ==
    {Parts("InvestigationMandate", Root, "subject", "investigating", Always),
     Names("InvestigationCase", "InvestigationMandate", {}, Never),
     Names("EvidenceCustodyRecord", "InvestigationCase", {"custodian"}, Always),
     Parts("InvestigationFinding", "InvestigationCase",
           "subject", "investigating", Always),
     Parts("EnforcementDetermination", "InvestigationFinding",
           "subject", "determining", {"IMPOSED", "EXECUTED", "CLOSED"}),
     Parts("EnforcementAppeal", "EnforcementDetermination",
           "appellant", "reviewing", Always),
     Names("EnforcementExecutionRecord", "EnforcementDetermination",
           {"executing"}, Always),
     Parts("EnforcementExecutionVerification", "EnforcementExecutionRecord",
           "executing", "verifier", {"verified"})}

\* adjudication_due_process.py
Adjudication ==
    {Parts("AdjudicativeProceeding", Root, "subject", "adjudicating", Never),
     Names("ProceedingNotice", "AdjudicativeProceeding", {"recipient"}, Always),
     Names("ProceduralRight", "AdjudicativeProceeding", {"beneficiary"}, Never),
     Names("AdjudicatorRecusal", "AdjudicativeProceeding", {"adjudicating"}, Always),
     Names("HearingRecord", "AdjudicativeProceeding", {"hearing_authority"}, Never),
     Names("AdjudicativeFinding", "AdjudicativeProceeding", {}, Always),
     Names("AdjudicativeDetermination", "AdjudicativeProceeding", {"deciding"}, Always),
     Parts("AdjudicativeRemedy", "AdjudicativeDetermination",
           "issuing", "responsible", Always)}

\* appeals_review.py
Appeals ==
    {PartsAmong("AppealRight", Root,
                "subject", "reviewing", {"eligible_appellant"}, Never),
     Names("AppealFiling", "AppealRight", {"appellant"}, Never),
     Names("AppealStandingDetermination", "AppealFiling", {"determining"}, Always),
     Names("AppealStay", "AppealFiling", {"issuing"}, Never),
     Parts("ReviewRecord", "AppealFiling", "subject", "reviewing", Never),
     Names("ReviewDetermination", "ReviewRecord", {"deciding"}, Always),
     Parts("ReviewRemand", "ReviewDetermination", "remanding", "receiving", Always),
     Names("AppealFinalityRecord", "AppealFiling", {"finalizing"}, Always)}

\* judgment_execution.py
Judgments ==
    {Parts("InstitutionalJudgment", Root, "subject", "issuing", Always),
     Names("JudgmentFinality", "InstitutionalJudgment", {"finalizing"}, Always),
     Names("JudgmentStay", "InstitutionalJudgment", {"issuing"}, Always),
     Parts("ExecutionOrder", "InstitutionalJudgment",
           "ordering", "responsible", Always),
     Names("JudgmentExecutionRecord", "ExecutionOrder",
           {"executing"}, {"COMPLETED", "VERIFIED", "CLOSED"}),
     Parts("ExecutionVerification", "JudgmentExecutionRecord",
           "executing", "verifier", {"verified"}),
     Parts("JudgmentSatisfactionRecord", "InstitutionalJudgment",
           "subject", "confirming", Always)}

\* remediation_resolution.py
Remediation ==
    {Names("RemediationObligation", Root,
           {"subject", "responsible"}, {"COMPLETED", "VERIFIED", "CLOSED"}),
     Names("ResolutionPlan", "RemediationObligation", {"responsible"}, Never),
     Parts("ResolutionPlan", "RemediationObligation",
           "responsible", "approved_by", Never),
     Names("ResolutionMilestone", "ResolutionPlan", {}, {"completed"}),
     Names("RemediationCompletionRecord", "RemediationObligation",
           {"completing"}, Always),
     Parts("RemediationValidation", "RemediationObligation",
           "responsible", "validating", {"validated"}),
     Parts("RemediationEscalation", "RemediationObligation", "from", "to", Always),
     Names("ResolutionRecord", "RemediationObligation",
           {"subject", "resolving"}, {"RESOLVED", "CLOSED"}),
     Names("ResolutionReopening", "ResolutionRecord", {"reopening"}, Always)}

\* compliance_supervision.py
Supervision ==
    {Parts("ComplianceMandate", Root, "subject", "supervising", Never),
     Names("ComplianceEvidenceRecord", "ComplianceMandate", {"submitting"}, Always),
     Parts("ComplianceAssessmentRecord", "ComplianceMandate",
           "subject", "assessing", {"DEFICIENT", "ESCALATED", "COMPLIANT", "CLOSED"}),
     Parts("SupervisoryFinding", "ComplianceMandate", "subject", "supervising", Always),
     Parts("SupervisoryDirective", "SupervisoryFinding",
           "issuing", "responsible", Always),
     Names("ComplianceRemediationRecord", "SupervisoryDirective",
           {"responsible"}, {"COMPLETED", "VERIFIED", "CLOSED"}),
     Parts("ComplianceVerification", "ComplianceRemediationRecord",
           "responsible", "verifying", {"verified"}),
     Parts("SupervisoryEscalation", "ComplianceMandate", "from", "to", Always)}

\* monitoring_oversight.py
Oversight ==
    {Parts("OversightMandate", Root, "subject", "overseeing", Never),
     Names("MonitoringThreshold", "OversightMandate", {}, Never),
     Names("MonitoringObservation", "OversightMandate",
           {"observing"}, {"EXCEPTION", "ESCALATED"}),
     Names("OversightException", "MonitoringObservation", {"subject"}, Always),
     Parts("SupervisoryReview", "OversightMandate",
           "subject", "reviewing", {"DIRECTIVE_ISSUED", "VERIFIED", "CLOSED"}),
     Parts("OversightEscalation", "SupervisoryReview", "from", "to", Always),
     Parts("CorrectiveDirective", "SupervisoryReview",
           "issuing", "responsible", Always),
     Parts("OversightClosureVerification", "CorrectiveDirective",
           "subject", "verifier", {"verified"})}

\* assurance_audit.py
Assurance ==
    {Parts("AssuranceEngagement", Root, "subject", "auditor", Never),
     Names("AuditEvidenceRecord", "AssuranceEngagement", {"collected_by"}, Always),
     Names("AuditFinding", "AssuranceEngagement", {"subject"}, Always),
     Names("ManagementResponse", "AuditFinding", {"responding"}, Never),
     Names("AuditRemediation", "AuditFinding", {"responsible"}, Never),
     Parts("RemediationVerification", "AuditRemediation",
           "subject", "verifier", {"verified"}),
     Names("AssuranceOpinionRecord", "AssuranceEngagement", {"issuing"}, Always)}

\* accountability.py
Accountability ==
    {Names("AccountabilityAssignment", Root, {"organization", "accountable"}, Never),
     Names("TransparencyObligation", Root, {"organization"}, Never),
     Names("DisclosureRecord", Root, {"organization"}, Always),
     Names("InstitutionalAttestation", Root, {"subject", "attesting"}, Never),
     Names("ConflictOfInterestDeclaration", Root, {"declaring"}, Always),
     Names("AccountabilityFinding", Root, {"subject"}, Never),
     Names("CorrectiveCommitment", "AccountabilityFinding", {"responsible"}, Never)}

\* verification.py
Verifications ==
    {Names("EvidenceRecord", Root, {}, Never),
     Names("VerificationAuthority", Root, {"organization"}, Always),
     Parts("VerificationRecord", "VerificationAuthority",
           "subject", "verifier", {"VERIFIED"}),
     Parts("Credential", Root, "subject", "issuer", Never),
     Parts("AccreditationMapping", "Credential", "subject", "accrediting", Never)}

\* risk_controls.py
RiskControls ==
    {Names("InstitutionalRisk", Root, {"organization", "owner"}, Never),
     Names("ControlObjective", Root, {"organization", "owner"}, Never),
     Names("RiskControlLink", "InstitutionalRisk", {}, Always),
     Parts("ControlAssessment", "ControlObjective",
           "control_owner", "assessor", {"INEFFECTIVE", "PARTIALLY_EFFECTIVE", "EFFECTIVE"}),
     Names("ControlException", "ControlObjective", {"approving"}, Always),
     Names("RiskTreatmentPlan", "InstitutionalRisk", {"responsible"}, Never),
     Parts("RiskEscalation", "InstitutionalRisk", "from", "to", Always),
     Names("RiskDecisionLink", "InstitutionalRisk", {}, Always)}

\* risk_compliance.py
RiskCompliance ==
    {Names("RiskRegisterEntry", Root, {"organization", "owner"}, Never),
     Names("RiskControlMapping", "RiskRegisterEntry", {}, Never),
     Names("ComplianceObligation", Root, {"organization"}, Never),
     Parts("ComplianceAssessment", "ComplianceObligation",
           "assessed", "assessor", {"COMPLIANT"}),
     Names("ComplianceBreach", "ComplianceObligation", {"organization"}, Always),
     Names("RiskTreatment", "RiskRegisterEntry", {"owner"}, Never),
     Parts("RiskAcceptance", "RiskRegisterEntry", "risk_owner", "accepting", Always),
     Names("RiskMonitoringRecord", "RiskRegisterEntry", {}, Always)}

\* identity_authority.py
Identities ==
    {Names("InstitutionalIdentity", Root, {"organization"}, {"VERIFIED"}),
     Names("IdentityAlias", "InstitutionalIdentity", {}, Never),
     Parts("RepresentativeCapacity", Root, "represented", "representative", Never),
     Parts("DelegatedAuthority", Root, "delegating", "delegate", Always),
     Names("AuthorityRevocation", "DelegatedAuthority", {"revoked_by"}, Always),
     Names("IdentityResolutionRecord", Root, {"resolver"}, Never),
     Names("AuthorityAssertion", Root, {"organization"}, {"verified"})}

\* decision_rights.py
DecisionRights ==
    {Names("DecisionRightAssignment", Root, {"organization", "authorized"}, Never),
     Parts("DecisionDelegation", Root, "delegating", "delegate", Always),
     Names("ApprovalThreshold", Root, {}, Never),
     Names("QuorumRequirement", Root, {}, Never),
     Names("DecisionRecusal", Root, {"organization"}, Always),
     Names("DecisionRecord", Root, {"deciding"}, {"APPROVED", "REJECTED"}),
     Parts("DecisionEscalation", "DecisionRecord", "from", "to", Always),
     Names("DecisionExecutionRecord", "DecisionRecord", {"executing"}, Always)}

\* governance.py
Governance ==
    {Names("GovernanceAuthority", Root, {"organization"}, Never),
     Names("GovernedDecision", "GovernanceAuthority", {"requested_by"}, Never),
     Parts("ApprovalRecord", "GovernedDecision", "requested_by", "approver", Always),
     Names("PolicyVersion", Root, {"issuing"}, Never),
     Names("AuditEvent", Root, {}, Never),
     Names("GovernanceException", Root, {"approved_by"}, Always),
     Names("ControlFinding", Root, {}, Never),
     Names("ControlRemediation", "ControlFinding", {"owner"}, Never)}

\* agreements_obligations.py
Agreements ==
    {Parts("InstitutionalAgreement", Root, "organization", "counterparty", {"ACTIVE"}),
     Parts("AgreementObligation", "InstitutionalAgreement",
           "obligated", "beneficiary", {"SATISFIED"}),
     Names("AgreementAmendment", "InstitutionalAgreement", {}, Always),
     Names("PerformanceEvidence", "AgreementObligation", {"performing"}, Always),
     Parts("AgreementBreach", "InstitutionalAgreement",
           "asserting", "subject", {"CONFIRMED"}),
     Names("AgreementRemedy", "AgreementBreach", {"responsible"}, Never),
     Parts("TerminationAuthorization", "InstitutionalAgreement",
           "requesting", "approving", Always)}

\* finance_treasury.py
Treasury ==
    {Names("TreasuryAccount", Root, {"organization", "custodian"}, Never),
     Names("FundingSource", Root, {"organization"}, Never),
     Names("BudgetAllocation", Root, {"organization", "authorized_by"}, Always),
     Names("TreasuryPosition", "TreasuryAccount", {}, {"VERIFIED"}),
     Parts("FinancialCommitment", Root, "organization", "counterparty", Always),
     Parts("DisbursementAuthorization", "TreasuryAccount",
           "requesting", "approving", {"APPROVED", "RELEASED"}),
     Parts("ReconciliationRecord", "TreasuryAccount",
           "custodian", "reconciling", Always)}

\* policy_rules.py
Policies ==
    {Names("InstitutionalPolicy", Root, {"organization"}, {"APPROVED", "ACTIVE"}),
     Names("PolicyRule", "InstitutionalPolicy", {}, Never),
     Parts("PolicyApproval", "InstitutionalPolicy", "requesting", "approving", Always),
     Names("PolicyException", "InstitutionalPolicy", {"approving"}, Always),
     Names("RuleEvaluation", "PolicyRule", {"evaluating"}, {"applicable"}),
     Names("PolicyEnforcementRecord", "PolicyRule", {"enforcing"}, Always),
     Names("PolicyDecisionLink", "InstitutionalPolicy", {}, Always)}

\* records_governance.py
RecordKeeping ==
    {Names("InstitutionalRecord", Root, {"organization", "custodian"}, Never),
     Names("RecordVersion", "InstitutionalRecord", {}, Never),
     Names("RetentionSchedule", Root, {"organization"}, Never),
     Names("LegalHold", "InstitutionalRecord", {}, Never),
     Parts("RecordDispositionAuthorization", "InstitutionalRecord",
           "requesting", "approving", Always),
     Parts("RecordAuthenticityVerification", "InstitutionalRecord",
           "subject", "verifier", {"VERIFIED"}),
     Parts("RecordAccessAuthorization", "InstitutionalRecord",
           "requesting", "approving", Always)}

\* asset_stewardship.py
Assets ==
    {Names("AssetRecord", Root, {"organization", "claimed_owner"}, Never),
     Names("StewardshipAuthority", Root, {"organization"}, Always),
     Names("CapitalAllocation", "StewardshipAuthority",
           {"source", "beneficiary"}, Always),
     Names("AssetValuationObservation", "AssetRecord", {}, {"VERIFIED"}),
     Names("AssetEncumbrance", "AssetRecord", {"beneficiary"}, Always),
     Parts("AssetTransfer", "AssetRecord", "from", "to", {"APPROVED", "EXECUTED"}),
     Parts("AssetVerification", "AssetRecord", "subject", "verifier", Always)}

\* capital_readiness.py
Readiness ==
    {Names("AssessmentFramework", Root, {}, Never),
     Names("AssessmentDimension", "AssessmentFramework", {}, Never),
     Parts("ReadinessAssessment", "AssessmentFramework", "subject", "reviewer", Never),
     Names("AssessmentFinding", "ReadinessAssessment", {}, Always),
     Names("RemediationAction", "ReadinessAssessment", {}, Never),
     Parts("ReadinessCertification", "ReadinessAssessment",
           "subject", "issued_by", Never)}

\* metrics.py
Metrics ==
    {Names("MetricDefinition", Root, {}, Never),
     Names("MeasurementPeriod", Root, {}, Never),
     Names("MetricObservation", "MetricDefinition", {"organization"}, {"VERIFIED"}),
     Names("MetricTarget", "MetricDefinition", {"organization"}, Never),
     Names("ImpactClaim", Root, {"organization"}, {"VALIDATED"}),
     Parts("ImpactValidation", "ImpactClaim", "subject", "validator", Always)}

\* procurement.py
Procurement ==
    {Names("ProcurementReadinessProfile", Root, {"organization"}, Never),
     Names("ProcurementOpportunity", Root, {"buyer"}, Never),
     Parts("SupplierQualification", "ProcurementOpportunity",
           "supplier", "reviewed_by", Always),
     Names("ProcurementBid", "ProcurementOpportunity", {"supplier"}, Never),
     Parts("ProcurementAward", "ProcurementOpportunity", "buyer", "supplier", Always),
     Parts("MarketAccessReferral", Root, "subject", "referring", Never),
     Names("ContractPerformanceRecord", "ProcurementAward", {}, Always)}

\* security_privacy.py
DataControls ==
    {Names("DataGovernancePolicy", Root, {"organization"}, Never),
     Names("DataAssetControl", Root, {"owner"}, Never),
     Names("ProcessingAuthorization", Root, {"processing"}, Never),
     Names("ConsentRecord", Root, {"granted_to"}, Always),
     Names("RetentionRule", Root, {}, Never),
     Names("PrivacyEvent", Root, {}, Never),
     Names("SecurityIncident", Root, {"organization"}, Never),
     Parts("AccessDecision", Root, "requesting", "approving", Always)}

\* foundations.py
Grants ==
    {Names("FoundationProfile", Root, {"foundation"}, Never),
     Names("FundingInstrument", Root, {"foundation"}, Never),
     Parts("GrantAward", "FundingInstrument", "foundation", "recipient", Never),
     Names("GrantMilestone", "GrantAward", {}, Never),
     Names("ImpactReport", "GrantAward", {}, Never)}

\* interoperability.py
Exchanges ==
    {Names("ExternalInstitutionMapping", Root, {"organization"}, Never),
     Names("ExchangeSchema", Root, {}, Never),
     Parts("DataSharingAuthorization", Root, "source", "counterparty", Always),
     Names("InstitutionalExchange", "DataSharingAuthorization", {}, Never),
     Names("EvidencePackage", "InstitutionalExchange", {}, {"SETC_VERIFIED"}),
     Names("SynchronizationRecord", "InstitutionalExchange", {}, Never)}

\* commercialization.py
Commercialization ==
    {Names("ResearchAssetReference", Root, {"source"}, Never),
     Names("InventionDisclosure", Root, {"disclosing"}, Never),
     Names("IPAssetReference", Root, {}, Never),
     Names("TechnologyTransferAuthority", Root, {"organization"}, Always),
     Parts("RightsInstrument", "TechnologyTransferAuthority",
           "grantor", "grantee", Always),
     Names("CommercializationOpportunity", Root, {"managing"}, Never)}

-----------------------------------------------------------------------------
Schema ==
    UNION {Investigation, Adjudication, Appeals, Judgments, Remediation,
           Supervision, Oversight, Assurance, Accountability, Verifications,
           RiskControls, RiskCompliance, Identities, DecisionRights, Governance,
           Agreements, Treasury, Policies, RecordKeeping, Assets, Readiness,
           Metrics, Procurement, DataControls, Grants, Exchanges,
           Commercialization}
=============================================================================
