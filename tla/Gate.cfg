SPECIFICATION GateSpec
CONSTANTS
    Owners = {deployer, other}
    Deployer = deployer
    NoOne = noone
    Wallets = {alice, bob}
    Collections = {apes, cats, broken}
    ERC721s = {apes, cats}
    MaxLength = 4
INVARIANTS
    ChosenIndexStaysGood
    AccessByAnyCollection
PROPERTIES
    RemovalTakesOneOccurrence
    RemovalOnlyConcernsHolders
