SPECIFICATION Spec
CONSTANTS
    s1 = s1  s2 = s2  r1 = r1  r2 = r2
    own = own  recv = recv  payee = payee  also = also  light = light  change = change
    late = late  v1 = v1
    Coins = {s1, s2, r1, r2}
    Scripts = {own, recv, payee, also, light, change}
    SequenceNos = {late}
    Headers = {v1}
    InWeight <- MCInWeight
    BareWeight <- MCBareWeight
    OutWeight <- MCOutWeight
    BaseWeight = 2
    Unit = 4
    Originals <- MCOriginals
    Payee = payee
    OwnedScripts = {recv, payee, also, light}
    Replacements <- MCReplacements
    NewScripts = {light, recv}
    Candidates <- MCCandidates
    SenderRates = {0, 1, 2}
    FeeOffers = {8}
    MinRates = {1, 2}
    MaxRates = {1, 3}
    BroadcastMin = 1
    MaxReplacements = 2
    MaxContributions = 2
INVARIANTS TypeOK AcceptableProposal SenderPaysAtMost ReceiverKeepsValue FeeRateKept
CHECK_DEADLOCK FALSE
