SPECIFICATION Spec
CONSTANTS
    Kinds = {"plain", "segwit", "litecoin", "time", "timesegwit", "tokenpay", "verge", "trezarcoin", "navcoin", "blackcoin", "electra", "simplicity", "reddcoin", "eccoin", "diamond", "diamondsegwit", "zcoin", "pivx", "decred", "zcash", "dash", "axe"}
    Samples <- MCSamples
    Headers <- MCHeaders
INVARIANTS
    ReadToTheEnd
    ContentKept
    TxidRight
    
