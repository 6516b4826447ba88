CONSTANTS
    Diagnostic = {"diagnostic"}
    Strict = {"strict"}
    MaxRecords = 2
SPECIFICATION Spec
INVARIANTS ManifestSurvives FinalManifestIsTrue ResultMatchesItsSource ResearchValidIsFinal
PROPERTY PublishedIsFinal
