CONSTANTS
    Users <- MCUsers
    Texts <- MCTexts
    Dollar <- MCDollar
    PasswordOf <- MCPasswordOf
    Iam = "$iam"
    Arns <- MCArns
    Matching <- MCMatching
    Malformed = Malformed
    Environments <- MCEnvironments
    NoText = NoText
    Invalid <- MCInvalid
    NoArn = NoArn
    NoAnswer = NoAnswer
    NoLimit = NoLimit
SPECIFICATION Spec
INVARIANT HourForReadersOfAnHour
