SPECIFICATION Spec
CONSTANTS
    Names = {"k1", "k2", "k3", "guess2", "ed", "rsa", "e256", "e384", "sk",
             "aead", "ctr", "m1", "m2", "zlib", "none"}
    Offers <- MCOffers
    Clients <- MCClients
    Markers = {"guess2"}
    Guess2 = "guess2"
    Aead = {"aead"}
    EcdsaDefault = "e256"
    MaxSessions = 2
    MaxRekeys = 1
CHECK_DEADLOCK FALSE
INVARIANTS
    Agreed
    GuessNeverMisused
    Servable
    FreshOffer
