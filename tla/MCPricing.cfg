SPECIFICATION Spec
CONSTANTS
    IntLimit = 4
    MaxLines = 3
    UnitPrices = {1, 4, 7}
    Quantities = {1, 2, 3}
    Percentages = {1000, 3333, 5000, 10000, 15000}
    FixedValues = {3, 9}
    MinItems = {0, 3}
    Caps = {0, 2}
INVARIANTS
    DiscountMatchesFormula
    AmountsMakeUpSubtotal
    MinItemsNeverOvergranted
PROPERTIES
    MoreNeverCostsLess
CHECK_DEADLOCK FALSE
