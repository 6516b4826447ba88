CONSTANTS
    Width = 10
    MaxScale = 2
    MaxExponent = 2
    Tokens <- MCTokens
    Texts <- MCTexts
    Scales <- MCScales
    FractionDigits = 2
    Seconds <- MCSeconds
    Fractions <- MCFractions
SPECIFICATION Spec
INVARIANTS ParsesExactly ConvertsExactly
