SPECIFICATION Spec
CONSTANTS
    s1 = s1  s2 = s2  r1 = r1
    own = own  recv = recv  payee = payee  change = change  other = other
    early = early  final = final  v1 = v1  v2 = v2
    Coins = {s1, s2, r1}
    Scripts = {own, recv, payee, change, other}
    SequenceNos = {early, final}
    Headers = {v1, v2}
    InWeight <- MCInWeight
    BareWeight <- MCBareWeight
    OutWeight <- MCOutWeight
    BaseWeight = 2
    Unit = 4
    Offers <- MCOffers
    Answers <- MCAnswers
INVARIANTS TypeOK AcceptedSpendsOurInputs AcceptedKeepsOutputs SenderLosesAtMostOffer
CHECK_DEADLOCK FALSE
